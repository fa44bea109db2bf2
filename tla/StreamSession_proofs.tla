------------------------ MODULE StreamSession_proofs ------------------------
(***************************************************************************)
(* For any device nodes and any number of gamepads: the types of the       *)
(* session, that the poll table, the device table and the open descriptors *)
(* stay in step, and that players stay apart.                              *)
(***************************************************************************)
EXTENDS StreamSession, FiniteSetTheorems, SequenceTheorems, TLAPS

Fds == 1..3 \cup DeviceFds
Handlers == {"device", "monitor", "rescan", "signal"}
Entries == [fd : Fds, revents : BOOLEAN, handler : Handlers]
Records == [fd : DeviceFds, node : Nodes, controllerId : -1..(MaxGamepads - 1)]

Places == {"connect", "loop", "stop", "quit", "hung", "done"}

(* What a table polls, and that it polls no descriptor twice.              *)
Polled(t) == {<<t[i].fd, t[i].handler>> : i \in 1..Len(t)}
Distinct(t) == \A i, j \in 1..Len(t) : t[i].fd = t[j].fd => i = j

-----------------------------------------------------------------------------
(* The poll table.                                                         *)

(* The descriptors devices get are other than the three of the loop.       *)
LEMMA DeviceFdsAreOther ==
  /\ Cardinality(Nodes) \in Nat /\ DeviceFds \subseteq Nat
  /\ \A fd \in DeviceFds : fd > 3
  /\ SignalFd \in Fds /\ MonitorFd \in Fds /\ RescanFd \in Fds
BY InputAssumption, FS_CardinalityType DEF DeviceFds, Fds, SignalFd, MonitorFd, RescanFd

(* Going on to another entry changes what poll said, nothing else.         *)
LEMMA OnwardStep ==
  ASSUME NEW t \in Seq(Entries), NEW from \in Nat, Onward(t, from)
  PROVE  /\ table' \in Seq(Entries) /\ walk' \in 0..Len(table')
         /\ Polled(table') = Polled(t) /\ (Distinct(t) => Distinct(table'))
<1>1. PICK next \in 0..Len(t) :
        /\ walk' = next
        /\ table' = [i \in 1..Len(t) |->
             IF next = 0 \/ i < next THEN [t[i] EXCEPT !.revents = FALSE] ELSE t[i]]
  BY DEF Onward
<1>2. \A i \in 1..Len(t) : t[i] \in Entries
  BY ElementOfSeq
<1>3. \A i \in 1..Len(t) :
        table'[i] \in Entries /\ table'[i].fd = t[i].fd /\ table'[i].handler = t[i].handler
  BY <1>1, <1>2 DEF Entries
<1>4. Len(t) \in Nat
  BY LenProperties
<1>5. table' \in Seq(Entries) /\ Len(table') = Len(t)
  <2>1. table' \in [1..Len(t) -> Entries]
    BY <1>1, <1>3
  <2> QED BY <2>1, <1>4, IsASeq, LenProperties
<1>6. walk' \in 0..Len(table')
  BY <1>1, <1>5
<1>7. Polled(table') = Polled(t)
  BY <1>3, <1>5 DEF Polled
<1>8. Distinct(t) => Distinct(table')
  BY <1>3, <1>5 DEF Distinct
<1> QED BY <1>5, <1>6, <1>7, <1>8

(* loop_add_fd.                                                            *)
LEMMA AddFdStep ==
  ASSUME NEW t \in Seq(Entries), NEW fd \in DeviceFds, NEW stale \in BOOLEAN
  PROVE  LET added == AddFd(t, fd, "device", stale)
         IN /\ added \in Seq(Entries)
            /\ Polled(added) = Polled(t) \cup {<<fd, "device">>}
            /\ Distinct(t) /\ (\A i \in 1..Len(t) : t[i].fd # fd) => Distinct(added)
<1> DEFINE entry == EntryOf(fd, "device", stale)
           added == AddFd(t, fd, "device", stale)
<1>1. entry \in Entries /\ entry.fd = fd /\ entry.handler = "device"
  BY DEF EntryOf, Entries, Fds, Handlers
<1>2. added = Append(t, entry)
  BY DEF AddFd
<1> HIDE DEF entry, added
<1>3. /\ added \in Seq(Entries) /\ Len(t) \in Nat /\ Len(added) = Len(t) + 1
      /\ added[Len(t) + 1] = entry /\ \A i \in 1..Len(t) : added[i] = t[i]
  BY <1>1, <1>2, AppendProperties, LenProperties
<1>4. 1..Len(added) = 1..Len(t) \cup {Len(t) + 1}
  BY <1>3
<1>5. Polled(added) = Polled(t) \cup {<<fd, "device">>}
  BY <1>1, <1>3, <1>4 DEF Polled
<1>6. Distinct(t) /\ (\A i \in 1..Len(t) : t[i].fd # fd) => Distinct(added)
  BY <1>1, <1>3, <1>4 DEF Distinct
<1> QED BY <1>3, <1>5, <1>6 DEF added

(* loop_remove_fd with a descriptor that is polled: its entry, and no other*)
(* one, is gone.                                                           *)
LEMMA RemoveFdStep ==
  ASSUME NEW t \in Seq(Entries), Distinct(t), NEW at \in 1..Len(t)
  PROVE  LET left == RemoveFd(t, t[at].fd)
         IN /\ left \in Seq(Entries) /\ Distinct(left)
            /\ Polled(left) = Polled(t) \ {<<t[at].fd, t[at].handler>>}
<1> DEFINE left == RemoveFd(t, t[at].fd)
           last == Len(t)
           Holds(i) == t[i].fd = t[at].fd
<1>1. last \in Nat \ {0} /\ \A i \in 1..last : t[i] \in Entries
  BY LenProperties, ElementOfSeq
<1>2. (CHOOSE i \in 1..last : Holds(i) /\ \A j \in 1..(i - 1) : ~Holds(j)) = at
  <2>1. Holds(at) /\ \A j \in 1..(at - 1) : ~Holds(j)
    BY <1>1 DEF Distinct
  <2>2. \A i \in 1..last : Holds(i) => i = at
    BY DEF Distinct
  <2> QED BY <2>1, <2>2
<1>3. left = [i \in 1..(last - 1) |-> IF i = at THEN t[last] ELSE t[i]]
  BY <1>2 DEF RemoveFd
<1> HIDE DEF left
<1>4. left \in Seq(Entries) /\ Len(left) = last - 1
  <2>1. left \in [1..(last - 1) -> Entries]
    BY <1>1, <1>3
  <2> QED BY <2>1, <1>1, IsASeq, LenProperties
<1>5. Distinct(left)
  <2> SUFFICES ASSUME NEW i \in 1..(last - 1), NEW j \in 1..(last - 1), left[i].fd = left[j].fd
               PROVE  i = j
    BY <1>4 DEF Distinct
  <2> DEFINE from(k) == IF k = at THEN last ELSE k
  <2>1. /\ from(i) \in 1..last /\ left[i] = t[from(i)]
        /\ from(j) \in 1..last /\ left[j] = t[from(j)]
    BY <1>1, <1>3
  <2>2. from(i) = from(j) => i = j
    BY <1>1
  <2> HIDE DEF from
  <2> QED BY <2>1, <2>2 DEF Distinct
<1>6. Polled(left) = Polled(t) \ {<<t[at].fd, t[at].handler>>}
  <2>1. ASSUME NEW i \in 1..(last - 1)
        PROVE  left[i] \in {t[j] : j \in (1..last) \ {at}}
    BY <1>1, <1>3
  <2>2. ASSUME NEW j \in (1..last) \ {at}
        PROVE  \E i \in 1..(last - 1) : left[i] = t[j]
    <3>1. CASE j = last
      BY <1>1, <1>3, <3>1
    <3>2. CASE j # last
      BY <1>1, <1>3, <3>2
    <3> QED BY <3>1, <3>2
  <2>3. Polled(left) = {<<t[j].fd, t[j].handler>> : j \in (1..last) \ {at}}
    BY <1>4, <2>1, <2>2 DEF Polled
  <2> QED BY <2>3 DEF Polled, Distinct
<1> QED BY <1>4, <1>5, <1>6 DEF left

-----------------------------------------------------------------------------
(* The invariant, in parts that a step may leave alone as a whole.         *)

LoopPolls ==
  IF main = "done" THEN {}
  ELSE {<<SignalFd, "signal">>, <<MonitorFd, "monitor">>, <<RescanFd, "rescan">>}
DevicesPolled == {<<devices[i].fd, "device">> : i \in 1..Len(devices)}

LoopTypes == table \in Seq(Entries) /\ walk \in 0..Len(table)
KernelTypes == plugged \subseteq Nodes /\ file \in [DeviceFds -> {"closed", "live", "dead"}]
BlockTypes ==
  /\ devices \in Seq(Records)
  /\ emulates \in Seq(BOOLEAN) /\ Len(devices) <= Len(emulates)
  /\ thread \in [DeviceFds -> {NoThread, Ended, Freed} \cup 1..Len(emulates)]
  /\ joining \in 0..Len(devices) /\ leaving \in BOOLEAN /\ (leaving => joining # 0)
RestTypes ==
  /\ main \in Places /\ signal \in BOOLEAN
  /\ assigned \subseteq 0..(MaxGamepads - 1) /\ crowded \in BOOLEAN
  /\ scan \subseteq Nodes

(* What is polled is what the loop and the devices need; no two records    *)
(* have one descriptor or one node; the descriptors open are the records'. *)
PolledRight == Distinct(table) /\ Polled(table) = LoopPolls \cup DevicesPolled
OpenOnce ==
  \A i, j \in 1..Len(devices) :
    devices[i].fd = devices[j].fd \/ devices[i].node = devices[j].node => i = j
OpenFiles == {devices[i].fd : i \in 1..Len(devices)} = {fd \in DeviceFds : file[fd] # "closed"}
Tables == PolledRight /\ OpenOnce /\ OpenFiles

(* PlayersDistinct, of the records that have not left.                     *)
Playing == {i \in 1..Len(devices) : devices[i].controllerId >= 0 /\ ~(leaving /\ i = joining)}
PlayersInv ==
  /\ \A i, j \in Playing :
       devices[i].controllerId = devices[j].controllerId
         => i = j \/ (crowded /\ devices[i].controllerId = 0)
  /\ \A id \in assigned : \E i \in Playing : devices[i].controllerId = id
  /\ \A i \in Playing :
       devices[i].controllerId \in assigned \/ (crowded /\ devices[i].controllerId = 0)

Types == LoopTypes /\ KernelTypes /\ BlockTypes /\ RestTypes
SessionInv == Types /\ Tables /\ PlayersInv

LEMMA InvImplies == SessionInv => SessionTypeOK /\ TablesAgree /\ PlayersDistinct
<1> SUFFICES ASSUME SessionInv PROVE SessionTypeOK /\ TablesAgree /\ PlayersDistinct
  OBVIOUS
<1>1. DOMAIN table = 1..Len(table) /\ Present = 1..Len(devices) /\ DOMAIN emulates = 1..Len(emulates)
  BY LenProperties DEF SessionInv, Types, LoopTypes, BlockTypes, Present
<1>2. SessionTypeOK
  BY <1>1 DEF SessionInv, Types, LoopTypes, KernelTypes, BlockTypes, RestTypes, Places, SessionTypeOK,
     Entries, Fds, Handlers, Records
<1>3. TablesAgree
  BY <1>1 DEF SessionInv, Tables, PolledRight, OpenOnce, OpenFiles, TablesAgree, Distinct, Polled,
     LoopPolls, DevicesPolled
<1>4. PlayersDistinct
  BY <1>1 DEF SessionInv, PlayersInv, PlayersDistinct, Playing
<1> QED BY <1>2, <1>3, <1>4

-----------------------------------------------------------------------------
(* Parts that a step leaves alone.                                         *)

LEMMA LoopStays ==
  ASSUME SessionInv, UNCHANGED loopVars \/ Onward(table, walk),
         UNCHANGED devices, (main = "done") = (main' = "done")
  PROVE  LoopTypes' /\ PolledRight' /\ OpenOnce'
<1>1. table \in Seq(Entries) /\ walk \in Nat
  BY LenProperties DEF SessionInv, Types, LoopTypes
<1>2. LoopTypes' /\ Polled(table') = Polled(table) /\ Distinct(table')
  <2>1. CASE UNCHANGED loopVars
    BY <2>1 DEF loopVars, SessionInv, Types, LoopTypes, Tables, PolledRight
  <2>2. CASE Onward(table, walk)
    BY <1>1, <2>2, OnwardStep DEF SessionInv, Tables, PolledRight, LoopTypes
  <2> QED BY <2>1, <2>2
<1>3. LoopPolls' = LoopPolls /\ DevicesPolled' = DevicesPolled
  BY DEF LoopPolls, DevicesPolled
<1>4. Polled(table)' = Polled(table') /\ Distinct(table)' = Distinct(table')
  BY DEF Polled, Distinct
<1>5. PolledRight'
  BY <1>2, <1>3, <1>4 DEF SessionInv, Tables, PolledRight
<1>6. OpenOnce'
  BY DEF SessionInv, Tables, OpenOnce
<1> QED BY <1>2, <1>5, <1>6

LEMMA KernelStays ==
  ASSUME SessionInv, UNCHANGED <<kernelVars, devices>>
  PROVE  KernelTypes' /\ OpenFiles'
BY DEF SessionInv, Types, KernelTypes, Tables, OpenFiles, kernelVars

LEMMA PlayersStay ==
  ASSUME SessionInv, UNCHANGED <<devices, joinVars, playerVars>>
  PROVE  PlayersInv'
BY DEF SessionInv, PlayersInv, Playing, joinVars, playerVars

LEMMA BlockStays ==
  ASSUME SessionInv, UNCHANGED <<blockVars, joinVars>>
  PROVE  BlockTypes'
BY DEF SessionInv, Types, BlockTypes, blockVars, joinVars

LEMMA RestStays ==
  ASSUME SessionInv, main' \in Places, signal' \in BOOLEAN,
         scan' \subseteq Nodes, UNCHANGED playerVars
  PROVE  RestTypes'
BY DEF SessionInv, Types, RestTypes, playerVars

-----------------------------------------------------------------------------
(* Steps that change no record.                                            *)

(* poll.                                                                   *)
LEMMA PollStep ==
  ASSUME SessionInv, Walks, main = "loop"
  PROVE  SessionInv'
<1> DEFINE ready == {MonitorFd, RescanFd} \cup DeviceFds \cup (IF signal THEN {SignalFd} ELSE {})
           t == [i \in DOMAIN table |-> [table[i] EXCEPT !.revents = table[i].fd \in ready]]
<1>1. /\ Onward(t, 0)
      /\ UNCHANGED <<main, signal, kernelVars, blockVars, joinVars, playerVars, scan>>
  BY DEF Walks, Poll
<1>2. /\ table \in Seq(Entries) /\ Len(table) \in Nat /\ DOMAIN table = 1..Len(table)
      /\ \A i \in 1..Len(table) : table[i] \in Entries
  BY LenProperties, ElementOfSeq DEF SessionInv, Types, LoopTypes
<1>3. ASSUME NEW i \in 1..Len(table)
      PROVE  t[i] \in Entries /\ t[i].fd = table[i].fd /\ t[i].handler = table[i].handler
  <2> DEFINE flag == table[i].fd \in ready
  <2>1. flag \in BOOLEAN
    OBVIOUS
  <2>2. t[i] = [table[i] EXCEPT !.revents = flag]
    BY <1>2
  <2> HIDE DEF t, flag
  <2> QED BY <1>2, <2>1, <2>2 DEF Entries
<1>4. t \in Seq(Entries) /\ Len(t) = Len(table)
  <2>1. t = [i \in 1..Len(table) |-> t[i]]
    BY <1>2
  <2> HIDE DEF t
  <2>2. t \in [1..Len(table) -> Entries]
    BY <1>3, <2>1
  <2> QED BY <2>2, <1>2, IsASeq, LenProperties
<1>5. Polled(t) = Polled(table) /\ (Distinct(table) => Distinct(t))
  BY <1>3, <1>4 DEF Polled, Distinct
<1> HIDE DEF t
<1>6. LoopTypes' /\ Polled(table') = Polled(table) /\ Distinct(table')
  BY <1>1, <1>4, <1>5, OnwardStep DEF SessionInv, Tables, PolledRight, LoopTypes
<1>7. LoopPolls' = LoopPolls /\ DevicesPolled' = DevicesPolled
  BY <1>1 DEF LoopPolls, DevicesPolled, blockVars
<1>8. Polled(table)' = Polled(table') /\ Distinct(table)' = Distinct(table')
  BY DEF Polled, Distinct
<1>9. PolledRight' /\ OpenOnce'
  BY <1>1, <1>6, <1>7, <1>8 DEF SessionInv, Tables, PolledRight, OpenOnce, blockVars
<1>10. KernelTypes' /\ OpenFiles' /\ BlockTypes' /\ PlayersInv' /\ RestTypes'
  <2>1. /\ UNCHANGED <<kernelVars, devices>> /\ UNCHANGED <<blockVars, joinVars>>
        /\ UNCHANGED <<devices, joinVars, playerVars>>
    BY <1>1 DEF blockVars
  <2>2. /\ main' \in Places /\ signal' \in BOOLEAN
        /\ scan' \subseteq Nodes /\ UNCHANGED playerVars
    BY <1>1 DEF SessionInv, Types, RestTypes
  <2> QED BY <2>1, <2>2, KernelStays, BlockStays, PlayersStay, RestStays
<1> QED BY <1>6, <1>9, <1>10 DEF SessionInv, Types, Tables

(* Handlers with nothing to do, the start of a scan and of the emulation.  *)
LEMMA QuietStep ==
  ASSUME SessionInv, main = "loop", UNCHANGED <<main, signal>>,
         \/ OtherInput \/ Rescan
         \/ \E i \in Present : EmulationOn(i) \/ EmulationOff(i)
  PROVE  SessionInv'
<1>1. /\ UNCHANGED loopVars \/ Onward(table, walk)
      /\ UNCHANGED <<devices, kernelVars, playerVars>>
      /\ (main = "done") = (main' = "done")
  BY DEF OtherInput, Rescan, EmulationOn, EmulationOff, Joins, FromHere, blockVars
<1>2. LoopTypes' /\ PolledRight' /\ OpenOnce' /\ KernelTypes' /\ OpenFiles'
  BY <1>1, LoopStays, KernelStays
<1>3. RestTypes'
  <2>1. scan' \subseteq Nodes
    BY DEF SessionInv, Types, RestTypes, OtherInput, Rescan, EmulationOn, EmulationOff, Joins
  <2> QED BY <1>1, <2>1, RestStays DEF SessionInv, Types, RestTypes
<1>4. joining = 0 => ~leaving
  BY DEF SessionInv, Types, BlockTypes
<1>5. Present = 1..Len(devices) /\ Len(devices) \in Nat /\ Len(emulates) \in Nat
  BY LenProperties DEF SessionInv, Types, BlockTypes, Present
<1>6. BlockTypes' /\ PlayersInv'
  <2>1. CASE OtherInput \/ Rescan
    BY <1>1, <2>1, BlockStays, PlayersStay DEF OtherInput, Rescan
  <2>2. ASSUME NEW i \in Present, EmulationOn(i) PROVE BlockTypes' /\ PlayersInv'
    <3>1. /\ emulates' = [emulates EXCEPT ![i] = TRUE]
          /\ thread' = [thread EXCEPT ![devices[i].fd] = i]
          /\ UNCHANGED <<devices, joinVars, playerVars>>
      BY <2>2 DEF EmulationOn
    <3>2. emulates' \in Seq(BOOLEAN) /\ Len(emulates') = Len(emulates)
      BY <3>1, <1>5, ExceptSeq DEF SessionInv, Types, BlockTypes
    <3>3. i \in 1..Len(emulates)
      BY <1>5 DEF SessionInv, Types, BlockTypes
    <3>4. BlockTypes'
      BY <3>1, <3>2, <3>3 DEF SessionInv, Types, BlockTypes, joinVars
    <3> QED BY <3>1, <3>4, PlayersStay
  <2>3. ASSUME NEW i \in Present, EmulationOff(i) PROVE BlockTypes' /\ PlayersInv'
    <3>1. /\ emulates' = [emulates EXCEPT ![i] = FALSE] /\ joining' = i /\ joining = 0
          /\ UNCHANGED <<devices, thread, leaving, playerVars>>
      BY <2>3 DEF EmulationOff, Joins, Reads, Free
    <3>2. emulates' \in Seq(BOOLEAN) /\ Len(emulates') = Len(emulates)
      BY <3>1, <1>5, ExceptSeq DEF SessionInv, Types, BlockTypes
    <3>3. BlockTypes'
      BY <1>4, <1>5, <3>1, <3>2 DEF SessionInv, Types, BlockTypes
    <3>4. PlayersInv'
      BY <1>4, <3>1 DEF SessionInv, PlayersInv, Playing, playerVars
    <3> QED BY <3>3, <3>4
  <2> QED BY <2>1, <2>2, <2>3
<1> QED BY <1>2, <1>3, <1>6 DEF SessionInv, Types, Tables

-----------------------------------------------------------------------------
(* Opening a device.                                                       *)

(* A table that has changed, and the walk over it that may go on.          *)
LEMMA TableMoves ==
  ASSUME NEW t \in Seq(Entries), Distinct(t), walk \in Nat,
         Onward(t, walk) \/ (table' = t /\ UNCHANGED walk /\ walk <= Len(t))
  PROVE  LoopTypes' /\ Distinct(table)' /\ Polled(table)' = Polled(t)
<1>1. Distinct(table)' = Distinct(table') /\ Polled(table)' = Polled(table')
  BY DEF Distinct, Polled
<1>2. CASE Onward(t, walk)
  BY <1>1, <1>2, OnwardStep DEF LoopTypes
<1>3. CASE table' = t /\ UNCHANGED walk /\ walk <= Len(t)
  BY <1>1, <1>3, LenProperties DEF LoopTypes
<1> QED BY <1>2, <1>3

LEMMA CreateStep ==
  ASSUME SessionInv, main = "loop", NEW n \in Nodes, NEW others, Create(n, others),
         scan' \subseteq Nodes, UNCHANGED <<main, signal, plugged, joinVars, playerVars>>
  PROVE  SessionInv'
<1>1. /\ table \in Seq(Entries) /\ Len(table) \in Nat /\ walk \in Nat /\ walk <= Len(table)
      /\ devices \in Seq(Records) /\ Len(devices) \in Nat /\ Present = 1..Len(devices)
      /\ emulates \in Seq(BOOLEAN) /\ Len(emulates) \in Nat
      /\ Distinct(table)
  BY LenProperties DEF SessionInv, Types, LoopTypes, BlockTypes, Present, Tables, PolledRight
<1>2. RestTypes'
  BY RestStays DEF SessionInv, Types, RestTypes
<1>3. CASE n \notin plugged \/ \E i \in Present : devices[i].node = n
  <2>1. /\ UNCHANGED loopVars \/ Onward(table, walk)
        /\ UNCHANGED <<file, blockVars>>
    BY <1>3 DEF Create, FromHere, loopVars
  <2>2. UNCHANGED <<kernelVars, devices>> /\ UNCHANGED <<blockVars, joinVars>>
        /\ UNCHANGED <<devices, joinVars, playerVars>>
    BY <2>1 DEF kernelVars, blockVars
  <2> QED BY <1>2, <2>1, <2>2, LoopStays, KernelStays, BlockStays, PlayersStay
          DEF SessionInv, Types, Tables
<1>4. CASE ~(n \notin plugged \/ \E i \in Present : devices[i].node = n)
  <2>1. PICK fd \in DeviceFds, stale \in BOOLEAN, moves \in BOOLEAN :
          /\ file[fd] = "closed" /\ file' = [file EXCEPT ![fd] = "live"]
          /\ devices' = Append(devices, Record(fd, n))
          /\ emulates' = [j \in 1..Len(devices') |-> j <= Len(devices) /\ emulates[j]]
          /\ thread' = [f \in DeviceFds |->
               IF thread[f] > Len(devices') \/ (moves /\ thread[f] > 0) THEN Freed ELSE thread[f]]
          /\ IF others = {} THEN FromHere(AddFd(table, fd, "device", stale))
             ELSE table' = AddFd(table, fd, "device", stale) /\ UNCHANGED walk
    BY <1>4 DEF Create
  <2> DEFINE t == AddFd(table, fd, "device", stale)
  <2>2. Record(fd, n) \in Records /\ Record(fd, n).controllerId = -1
        /\ Record(fd, n).fd = fd /\ Record(fd, n).node = n
    BY InputAssumption DEF Record, Records
  <2>3. /\ devices' \in Seq(Records) /\ Len(devices') = Len(devices) + 1
        /\ devices'[Len(devices) + 1] = Record(fd, n)
        /\ \A i \in 1..Len(devices) : devices'[i] = devices[i]
    BY <1>1, <2>1, <2>2, AppendProperties
  <2>4. 1..Len(devices') = 1..Len(devices) \cup {Len(devices) + 1}
    BY <1>1, <2>3
  <2>5. \A i \in 1..Len(devices) : devices[i].fd # fd /\ devices[i].node # n
    BY <1>1, <1>4, <2>1 DEF SessionInv, Tables, OpenFiles
  <2>6. \A i \in 1..Len(table) : table[i].fd # fd
    <3> SUFFICES ASSUME NEW i \in 1..Len(table) PROVE table[i].fd # fd
      OBVIOUS
    <3>1. <<table[i].fd, table[i].handler>> \in LoopPolls \cup DevicesPolled
      BY DEF SessionInv, Tables, PolledRight, Polled
    <3> QED BY <2>5, <3>1, DeviceFdsAreOther
            DEF LoopPolls, DevicesPolled, SignalFd, MonitorFd, RescanFd
  <2>7. t \in Seq(Entries) /\ Polled(t) = Polled(table) \cup {<<fd, "device">>} /\ Distinct(t)
    BY <1>1, <2>6, AddFdStep
  <2>8. Len(t) = Len(table) + 1
    <3>1. EntryOf(fd, "device", stale) \in Entries
      BY DEF EntryOf, Entries, Fds, Handlers
    <3> QED BY <1>1, <3>1, AppendProperties DEF AddFd
  <2>9. Onward(t, walk) \/ (table' = t /\ UNCHANGED walk /\ walk <= Len(t))
    BY <1>1, <2>1, <2>8 DEF FromHere
  <2> HIDE DEF t
  <2>10. LoopTypes' /\ Distinct(table)' /\ Polled(table)' = Polled(t)
    BY <1>1, <2>7, <2>9, TableMoves
  <2>11. DevicesPolled' = DevicesPolled \cup {<<fd, "device">>} /\ LoopPolls' = LoopPolls
    BY <2>2, <2>3, <2>4 DEF DevicesPolled, LoopPolls
  <2>12. PolledRight'
    BY <2>7, <2>10, <2>11 DEF SessionInv, Tables, PolledRight
  <2>13. OpenOnce'
    BY <2>2, <2>3, <2>4, <2>5 DEF SessionInv, Tables, OpenOnce
  <2>14. KernelTypes'
    BY <2>1 DEF SessionInv, Types, KernelTypes
  <2>15. OpenFiles'
    <3>1. {devices'[i].fd : i \in 1..Len(devices')} = {devices[i].fd : i \in 1..Len(devices)} \cup {fd}
      BY <2>2, <2>3, <2>4
    <3>2. {f \in DeviceFds : file'[f] # "closed"} = {f \in DeviceFds : file[f] # "closed"} \cup {fd}
      BY <2>1 DEF SessionInv, Types, KernelTypes
    <3> QED BY <3>1, <3>2 DEF SessionInv, Tables, OpenFiles
  <2>16. BlockTypes'
    <3>1. emulates' \in Seq(BOOLEAN) /\ Len(emulates') = Len(devices')
      <4>1. \A j \in 1..Len(devices') : (j <= Len(devices) /\ emulates[j]) \in BOOLEAN
        OBVIOUS
      <4>2. emulates' \in [1..Len(devices') -> BOOLEAN]
        BY <2>1, <4>1
      <4>3. Len(devices') \in Nat
        BY <2>3, LenProperties
      <4> HIDE <2>1
      <4> QED BY <4>2, <4>3, IsASeq, LenProperties
    <3>2. thread' \in [DeviceFds -> {NoThread, Ended, Freed} \cup 1..Len(emulates')]
      <4>1. \A f \in DeviceFds : thread[f] \in {0, -1, -2} \cup 1..Len(emulates)
        BY DEF SessionInv, Types, BlockTypes, NoThread, Ended, Freed
      <4>2. \A f \in DeviceFds : thread'[f] \in {0, -1, -2} \cup 1..Len(devices')
        BY <1>1, <2>1, <2>3, <4>1 DEF Freed
      <4> QED BY <2>1, <3>1, <4>2 DEF NoThread, Ended, Freed
    <3>3. Len(devices') <= Len(emulates') /\ joining' \in 0..Len(devices')
      BY <1>1, <2>3, <3>1 DEF SessionInv, Types, BlockTypes, joinVars
    <3> QED BY <2>3, <3>1, <3>2, <3>3 DEF SessionInv, Types, BlockTypes, joinVars
  <2>17. PlayersInv'
    <3>1. Playing' = Playing /\ \A i \in Playing : devices'[i] = devices[i]
      BY <2>2, <2>3, <2>4 DEF Playing, joinVars
    <3> QED BY <3>1 DEF SessionInv, PlayersInv, playerVars
  <2> QED BY <1>2, <2>10, <2>12, <2>13, <2>14, <2>15, <2>16, <2>17 DEF SessionInv, Types, Tables
<1> QED BY <1>3, <1>4

-----------------------------------------------------------------------------
(* A gamepad gets its player number.                                       *)
LEMMA PlayerStep ==
  ASSUME SessionInv, main = "loop", UNCHANGED <<main, signal>>,
         NEW i \in Present, FirstPadInput(i)
  PROVE  SessionInv'
<1> DEFINE unused == 0..(MaxGamepads - 1) \ assigned
<1>1. PICK id \in {0} \cup unused :
        /\ unused # {} => id \in unused
        /\ devices' = [devices EXCEPT ![i].controllerId = id]
        /\ assigned' = assigned \cup {id} /\ crowded' = (crowded \/ unused = {})
  BY DEF FirstPadInput, GivePlayer
<1>2. /\ joining = 0 /\ devices[i].controllerId < 0 /\ Onward(table, walk)
      /\ UNCHANGED <<kernelVars, emulates, thread, joinVars, scan>>
  BY DEF FirstPadInput, GivePlayer, Reads, Free, FromHere
<1>3. /\ devices \in Seq(Records) /\ Present = 1..Len(devices) /\ Len(devices) \in Nat
      /\ ~leaving /\ \A j \in 1..Len(devices) : devices[j] \in Records
  BY <1>2, LenProperties, ElementOfSeq DEF SessionInv, Types, BlockTypes, Present
<1>4. id \in 0..(MaxGamepads - 1)
  BY <1>1, InputAssumption
<1>5. \A j \in 1..Len(devices) :
        /\ devices'[j] \in Records
        /\ devices'[j].fd = devices[j].fd /\ devices'[j].node = devices[j].node
        /\ devices'[j].controllerId = IF j = i THEN id ELSE devices[j].controllerId
  <2> SUFFICES ASSUME NEW j \in 1..Len(devices)
               PROVE  /\ devices'[j] \in Records
                      /\ devices'[j].fd = devices[j].fd /\ devices'[j].node = devices[j].node
                      /\ devices'[j].controllerId = IF j = i THEN id ELSE devices[j].controllerId
    OBVIOUS
  <2>1. devices[j] \in Records
    BY <1>3
  <2>2. CASE j = i
    <3>1. devices'[j] = [devices[j] EXCEPT !.controllerId = id]
      BY <1>1, <1>3, <2>2
    <3>2. id \in -1..(MaxGamepads - 1)
      BY <1>4, InputAssumption
    <3> QED BY <2>1, <2>2, <3>1, <3>2 DEF Records
  <2>3. CASE j # i
    <3>1. devices'[j] = devices[j]
      BY <1>1, <1>3, <2>3
    <3> QED BY <2>1, <2>3, <3>1
  <2> QED BY <2>2, <2>3
<1>6. devices' \in Seq(Records) /\ Len(devices') = Len(devices)
  <2>1. devices' = [j \in 1..Len(devices) |-> devices'[j]]
    BY <1>1, <1>3, LenProperties
  <2>2. devices' \in [1..Len(devices) -> Records]
    BY <1>5, <2>1
  <2> QED BY <1>3, <2>2, IsASeq, LenProperties
<1>7. LoopTypes' /\ Distinct(table)' /\ Polled(table)' = Polled(table)
  BY <1>2, TableMoves, LenProperties DEF SessionInv, Types, LoopTypes, Tables, PolledRight
<1>8. Tables'
  <2>1. DevicesPolled' = DevicesPolled /\ LoopPolls' = LoopPolls
    BY <1>5, <1>6 DEF DevicesPolled, LoopPolls
  <2>2. PolledRight'
    BY <1>7, <2>1 DEF SessionInv, Tables, PolledRight
  <2>3. OpenOnce'
    BY <1>5, <1>6 DEF SessionInv, Tables, OpenOnce
  <2>4. {devices'[j].fd : j \in 1..Len(devices')} = {devices[j].fd : j \in 1..Len(devices)}
    BY <1>5, <1>6
  <2>5. OpenFiles'
    BY <1>2, <2>4 DEF SessionInv, Tables, OpenFiles, kernelVars
  <2> QED BY <2>2, <2>3, <2>5 DEF Tables
<1>9. KernelTypes' /\ BlockTypes'
  BY <1>2, <1>6 DEF SessionInv, Types, KernelTypes, BlockTypes, kernelVars, joinVars
<1>10. RestTypes'
  <2>1. crowded' \in BOOLEAN
    BY <1>1, Zenon DEF SessionInv, Types, RestTypes
  <2> QED BY <1>1, <1>2, <1>4, <2>1 DEF SessionInv, Types, RestTypes
<1>11. PlayersInv'
  <2>1. Playing' = Playing \cup {i} /\ i \notin Playing
    <3>1. i \in 1..Len(devices) /\ ~leaving' /\ Len(devices') = Len(devices)
      BY <1>2, <1>3, <1>6 DEF joinVars
    <3>2. \A j \in 1..Len(devices) :
            devices'[j].controllerId >= 0 <=> j = i \/ devices[j].controllerId >= 0
      BY <1>2, <1>4, <1>5
    <3>3. devices[i].controllerId \in -1..(MaxGamepads - 1)
      BY <1>3, <3>1 DEF Records
    <3>4. ~(devices[i].controllerId >= 0)
      BY <1>2, <3>3
    <3> QED BY <1>3, <3>1, <3>2, <3>4 DEF Playing
  <2>2. \A j \in Playing : devices'[j].controllerId = devices[j].controllerId
    BY <1>5, <2>1 DEF Playing
  <2>3. devices'[i].controllerId = id
    BY <1>3, <1>5
  <2>4. crowded => crowded'
    BY <1>1
  <2>5. CASE unused = {}
    <3>1. id = 0
      BY <1>1, <2>5
    <3>2. crowded'
      BY <1>1, <2>5, Zenon
    <3> QED BY <1>1, <2>1, <2>2, <2>3, <3>1, <3>2 DEF SessionInv, PlayersInv
  <2>6. CASE unused # {}
    <3>1. id \notin assigned
      BY <1>1, <2>6
    <3> QED BY <1>1, <2>1, <2>2, <2>3, <2>4, <3>1 DEF SessionInv, PlayersInv
  <2> QED BY <2>5, <2>6
<1> QED BY <1>7, <1>8, <1>9, <1>10, <1>11 DEF SessionInv, Types

-----------------------------------------------------------------------------
(* Removing a device.                                                      *)

(* The last record takes the place of record i; the others stay, each once.*)
LEMMA ForgottenRecords ==
  ASSUME NEW i \in 1..Len(devices), devices \in Seq(Records),
         devices' = [j \in 1..(Len(devices) - 1) |->
                       IF j = i THEN devices[Len(devices)] ELSE devices[j]]
  PROVE  /\ devices' \in Seq(Records) /\ Len(devices') = Len(devices) - 1
         /\ \A j \in 1..Len(devices') : \E k \in (1..Len(devices)) \ {i} : devices'[j] = devices[k]
         /\ \A k \in (1..Len(devices)) \ {i} : \E j \in 1..Len(devices') : devices'[j] = devices[k]
         /\ \A j, k \in 1..Len(devices') :
              \E l, m \in (1..Len(devices)) \ {i} :
                 devices'[j] = devices[l] /\ devices'[k] = devices[m] /\ (l = m => j = k)
<1> DEFINE last == Len(devices)
           from(j) == IF j = i THEN last ELSE j
<1>1. last \in Nat \ {0} /\ \A j \in 1..last : devices[j] \in Records
  BY LenProperties, ElementOfSeq
<1>2. devices' \in Seq(Records) /\ Len(devices') = last - 1
  <2>1. devices' \in [1..(last - 1) -> Records]
    BY <1>1
  <2> QED BY <2>1, <1>1, IsASeq, LenProperties
<1>3. \A j \in 1..(last - 1) : from(j) \in (1..last) \ {i} /\ devices'[j] = devices[from(j)]
  BY <1>1
<1>4. \A j, k \in 1..(last - 1) : from(j) = from(k) => j = k
  BY <1>1
<1>5. ASSUME NEW k \in (1..last) \ {i}
      PROVE  \E j \in 1..(last - 1) : devices'[j] = devices[k]
  <2>1. CASE k = last
    <3>1. i \in 1..(last - 1)
      BY <1>1, <2>1
    <3> QED BY <2>1, <3>1
  <2>2. CASE k # last
    <3>1. k \in 1..(last - 1)
      BY <1>1, <2>2
    <3> QED BY <3>1
  <2> QED BY <2>1, <2>2
<1> HIDE DEF from
<1>6. 1..Len(devices') = 1..(last - 1)
  BY <1>2
<1>7. \A j \in 1..Len(devices') : \E k \in (1..last) \ {i} : devices'[j] = devices[k]
  BY <1>3, <1>6
<1>8. \A k \in (1..last) \ {i} : \E j \in 1..Len(devices') : devices'[j] = devices[k]
  BY <1>5, <1>6
<1>9. \A j, k \in 1..Len(devices') :
         \E l, m \in (1..last) \ {i} :
            devices'[j] = devices[l] /\ devices'[k] = devices[m] /\ (l = m => j = k)
  <2> SUFFICES ASSUME NEW j \in 1..Len(devices'), NEW k \in 1..Len(devices')
               PROVE  \E l, m \in (1..last) \ {i} :
                        devices'[j] = devices[l] /\ devices'[k] = devices[m] /\ (l = m => j = k)
    OBVIOUS
  <2>1. j \in 1..(last - 1) /\ k \in 1..(last - 1)
    BY <1>6
  <2>2. /\ from(j) \in (1..last) \ {i} /\ devices'[j] = devices[from(j)]
        /\ from(k) \in (1..last) \ {i} /\ devices'[k] = devices[from(k)]
    BY <1>3, <2>1
  <2>3. from(j) = from(k) => j = k
    BY <1>4, <2>1
  <2> QED BY <2>2, <2>3
<1> QED BY <1>2, <1>7, <1>8, <1>9

(* What evdev_remove does to the tables.                                   *)
LEMMA ForgetTables ==
  ASSUME SessionInv, main = "loop", UNCHANGED <<main, plugged>>,
         NEW i \in 1..Len(devices), ForgetDevice(i)
  PROVE  /\ LoopTypes' /\ KernelTypes' /\ Tables'
         /\ devices' \in Seq(Records) /\ Len(devices') = Len(devices) - 1
         /\ emulates' \in Seq(BOOLEAN) /\ Len(emulates') = Len(emulates)
<1>1. /\ table \in Seq(Entries) /\ walk \in Nat /\ Distinct(table)
      /\ devices \in Seq(Records) /\ Len(devices) \in Nat /\ Len(emulates) \in Nat
      /\ emulates \in Seq(BOOLEAN) /\ Len(devices) <= Len(emulates)
  BY LenProperties DEF SessionInv, Types, LoopTypes, BlockTypes, Tables, PolledRight
<1>2. /\ Onward(RemoveFd(table, devices[i].fd), walk)
      /\ file' = [file EXCEPT ![devices[i].fd] = "closed"]
      /\ devices' = [j \in 1..(Len(devices) - 1) |->
                       IF j = i THEN devices[Len(devices)] ELSE devices[j]]
      /\ emulates' = [emulates EXCEPT ![i] = emulates[Len(devices)]]
  BY DEF ForgetDevice, FromHere
<1>3. PICK at \in 1..Len(table) : table[at].fd = devices[i].fd /\ table[at].handler = "device"
  <2>1. <<devices[i].fd, "device">> \in Polled(table)
    BY DEF SessionInv, Tables, PolledRight, DevicesPolled
  <2> QED BY <2>1 DEF Polled
<1> DEFINE t == RemoveFd(table, devices[i].fd)
<1>4. /\ t \in Seq(Entries) /\ Distinct(t)
      /\ Polled(t) = Polled(table) \ {<<devices[i].fd, "device">>}
  BY <1>1, <1>3, RemoveFdStep
<1>5. Onward(t, walk)
  BY <1>2
<1> HIDE DEF t
<1>6. LoopTypes' /\ Distinct(table)' /\ Polled(table)' = Polled(t)
  BY <1>1, <1>4, <1>5, TableMoves
<1>7. /\ devices' \in Seq(Records) /\ Len(devices') = Len(devices) - 1
      /\ \A j \in 1..Len(devices') : \E k \in (1..Len(devices)) \ {i} : devices'[j] = devices[k]
      /\ \A k \in (1..Len(devices)) \ {i} : \E j \in 1..Len(devices') : devices'[j] = devices[k]
      /\ \A j, k \in 1..Len(devices') :
           \E l, m \in (1..Len(devices)) \ {i} :
              devices'[j] = devices[l] /\ devices'[k] = devices[m] /\ (l = m => j = k)
  BY <1>1, <1>2, ForgottenRecords
<1>8. \A k \in (1..Len(devices)) \ {i} : devices[k].fd # devices[i].fd
  BY DEF SessionInv, Tables, OpenOnce
<1>9. {devices'[j].fd : j \in 1..Len(devices')}
         = {devices[k].fd : k \in 1..Len(devices)} \ {devices[i].fd}
  <2>1. ASSUME NEW j \in 1..Len(devices')
        PROVE  devices'[j].fd \in {devices[k].fd : k \in 1..Len(devices)} \ {devices[i].fd}
    <3>1. PICK k \in (1..Len(devices)) \ {i} : devices'[j] = devices[k]
      BY <1>7
    <3>2. devices[k].fd # devices[i].fd
      BY <1>8
    <3> QED BY <3>1, <3>2
  <2>2. ASSUME NEW k \in 1..Len(devices), devices[k].fd # devices[i].fd
        PROVE  \E j \in 1..Len(devices') : devices'[j].fd = devices[k].fd
    <3>1. PICK j \in 1..Len(devices') : devices'[j] = devices[k]
      BY <1>7, <2>2
    <3> QED BY <3>1
  <2>3. {devices[k].fd : k \in 1..Len(devices)} \ {devices[i].fd}
           \subseteq {devices'[j].fd : j \in 1..Len(devices')}
    BY <2>2
  <2>4. {devices'[j].fd : j \in 1..Len(devices')}
           \subseteq {devices[k].fd : k \in 1..Len(devices)} \ {devices[i].fd}
    BY <2>1
  <2> QED BY <2>3, <2>4
<1>10. PolledRight'
  <2>1. DevicesPolled' = DevicesPolled \ {<<devices[i].fd, "device">>}
    <3>1. /\ DevicesPolled = {<<fd, "device">> : fd \in {devices[k].fd : k \in 1..Len(devices)}}
          /\ DevicesPolled' = {<<fd, "device">> : fd \in {devices'[j].fd : j \in 1..Len(devices')}}
      BY DEF DevicesPolled
    <3>2. ASSUME NEW A, NEW f
          PROVE  {<<fd, "device">> : fd \in A \ {f}} = {<<fd, "device">> : fd \in A} \ {<<f, "device">>}
      OBVIOUS
    <3> QED BY <1>9, <3>1, <3>2
  <2>2. LoopPolls' = LoopPolls /\ <<devices[i].fd, "device">> \notin LoopPolls
    BY DEF LoopPolls
  <2> QED BY <1>4, <1>6, <2>1, <2>2 DEF SessionInv, Tables, PolledRight
<1>11. OpenOnce'
  <2> SUFFICES ASSUME NEW j \in 1..Len(devices'), NEW k \in 1..Len(devices'),
                      devices'[j].fd = devices'[k].fd \/ devices'[j].node = devices'[k].node
               PROVE  j = k
    BY DEF OpenOnce
  <2>1. PICK l \in (1..Len(devices)) \ {i}, m \in (1..Len(devices)) \ {i} :
          devices'[j] = devices[l] /\ devices'[k] = devices[m] /\ (l = m => j = k)
    BY <1>7
  <2> QED BY <2>1 DEF SessionInv, Tables, OpenOnce
<1>12. KernelTypes'
  BY <1>2 DEF SessionInv, Types, KernelTypes
<1>13. OpenFiles'
  <2>1. {f \in DeviceFds : file'[f] # "closed"}
          = {f \in DeviceFds : file[f] # "closed"} \ {devices[i].fd}
    BY <1>2 DEF SessionInv, Types, KernelTypes
  <2> QED BY <1>9, <2>1 DEF SessionInv, Tables, OpenFiles
<1>14. emulates' \in Seq(BOOLEAN) /\ Len(emulates') = Len(emulates)
  <2>1. i \in 1..Len(emulates) /\ emulates[Len(devices)] \in BOOLEAN
    BY <1>1, ElementOfSeq
  <2> QED BY <1>1, <1>2, <2>1, ExceptSeq
<1> QED BY <1>6, <1>7, <1>10, <1>11, <1>12, <1>13, <1>14 DEF Tables

(* What it does to the players: the number of record i is free, before the *)
(* join if there is one.                                                   *)
LEMMA ForgetPlayers ==
  ASSUME SessionInv, NEW i \in 1..Len(devices), ForgetDevice(i), ~leaving', UNCHANGED crowded,
         \/ ~leaving /\ assigned' = assigned \ {devices[i].controllerId}
         \/ leaving /\ joining = i /\ UNCHANGED assigned
  PROVE  PlayersInv'
<1>1. /\ devices' \in Seq(Records) /\ Len(devices') = Len(devices) - 1
      /\ \A j \in 1..Len(devices') : \E k \in (1..Len(devices)) \ {i} : devices'[j] = devices[k]
      /\ \A k \in (1..Len(devices)) \ {i} : \E j \in 1..Len(devices') : devices'[j] = devices[k]
      /\ \A j, k \in 1..Len(devices') :
           \E l, m \in (1..Len(devices)) \ {i} :
              devices'[j] = devices[l] /\ devices'[k] = devices[m] /\ (l = m => j = k)
  <2>1. devices' = [j \in 1..(Len(devices) - 1) |->
                      IF j = i THEN devices[Len(devices)] ELSE devices[j]]
    BY DEF ForgetDevice
  <2> QED BY <2>1, ForgottenRecords DEF SessionInv, Types, BlockTypes
<1> DEFINE plays(k) == devices[k].controllerId >= 0
<1>2. \A k \in (1..Len(devices)) \ {i} : k \in Playing <=> plays(k)
  BY DEF Playing
<1>3. Playing' = {j \in 1..Len(devices') : devices'[j].controllerId >= 0}
  BY DEF Playing
<1>4. ASSUME NEW j \in Playing', NEW k \in Playing',
             devices'[j].controllerId = devices'[k].controllerId
      PROVE  j = k \/ (crowded' /\ devices'[j].controllerId = 0)
  <2>1. PICK l \in (1..Len(devices)) \ {i}, m \in (1..Len(devices)) \ {i} :
          devices'[j] = devices[l] /\ devices'[k] = devices[m] /\ (l = m => j = k)
    BY <1>1, <1>3
  <2>2. l \in Playing /\ m \in Playing
    BY <1>2, <1>3, <2>1
  <2> QED BY <1>4, <2>1, <2>2 DEF SessionInv, PlayersInv
<1>5. ASSUME NEW j \in Playing'
      PROVE  devices'[j].controllerId \in assigned' \/ (crowded' /\ devices'[j].controllerId = 0)
  <2>1. PICK k \in (1..Len(devices)) \ {i} : devices'[j] = devices[k]
    BY <1>1, <1>3
  <2>2. k \in Playing
    BY <1>2, <1>3, <2>1
  <2>3. CASE i \in Playing /\ devices[i].controllerId = devices[k].controllerId
    BY <2>1, <2>2, <2>3 DEF SessionInv, PlayersInv
  <2>4. CASE i \in Playing /\ devices[i].controllerId # devices[k].controllerId
    BY <2>1, <2>2, <2>4 DEF SessionInv, PlayersInv
  <2>5. CASE i \notin Playing
    <3>1. leaving \/ devices[i].controllerId # devices[k].controllerId
      BY <2>2, <2>5 DEF Playing
    <3> QED BY <2>1, <2>2, <3>1 DEF SessionInv, PlayersInv
  <2> QED BY <2>3, <2>4, <2>5
<1>6. ASSUME NEW id \in assigned'
      PROVE  \E j \in Playing' : devices'[j].controllerId = id
  <2>1. PICK k \in Playing : devices[k].controllerId = id
    BY DEF SessionInv, PlayersInv
  <2>2. k \in (1..Len(devices)) \ {i}
    BY <2>1 DEF Playing
  <2>3. PICK j \in 1..Len(devices') : devices'[j] = devices[k]
    BY <1>1, <2>2
  <2> QED BY <1>3, <1>2, <2>1, <2>2, <2>3
<1> QED BY <1>4, <1>5, <1>6 DEF PlayersInv

(* evdev_remove, at once or after the join.                                *)
LEMMA RemoveStep ==
  ASSUME SessionInv, main = "loop", UNCHANGED <<main, signal>>,
         NEW i \in Present, RemoveDevice(i)
  PROVE  SessionInv'
<1>1. /\ joining = 0 /\ ~leaving /\ i \in 1..Len(devices) /\ Len(devices) \in Nat
      /\ Len(emulates) \in Nat /\ Len(devices) <= Len(emulates) /\ devices \in Seq(Records)
      /\ UNCHANGED <<plugged, thread, crowded, scan>>
      /\ assigned' = assigned \ {devices[i].controllerId}
  BY LenProperties DEF RemoveDevice, TakeOut, Free, SessionInv, Types, BlockTypes, Present
<1>2. RestTypes'
  BY <1>1 DEF SessionInv, Types, RestTypes
<1>3. CASE emulates[i]
  <2>1. /\ emulates' = [emulates EXCEPT ![i] = FALSE] /\ joining' = i /\ leaving' = TRUE
        /\ UNCHANGED <<loopVars, file, devices>>
    BY <1>3 DEF RemoveDevice, TakeOut
  <2>2. LoopTypes' /\ PolledRight' /\ OpenOnce' /\ KernelTypes' /\ OpenFiles'
    BY <1>1, <2>1, LoopStays, KernelStays DEF kernelVars
  <2>3. BlockTypes'
    <3>1. emulates' \in Seq(BOOLEAN) /\ Len(emulates') = Len(emulates)
      BY <1>1, <2>1, ExceptSeq DEF SessionInv, Types, BlockTypes
    <3> QED BY <1>1, <2>1, <3>1 DEF SessionInv, Types, BlockTypes
  <2>4. PlayersInv'
    <3>1. Playing' = Playing \ {i}
      BY <1>1, <2>1 DEF Playing
    <3>2. ASSUME NEW j \in Playing'
          PROVE  devices[j].controllerId \in assigned' \/ (crowded' /\ devices[j].controllerId = 0)
      <4>1. CASE i \in Playing
        BY <1>1, <3>1, <4>1 DEF SessionInv, PlayersInv
      <4>2. CASE i \notin Playing
        <5>1. devices[i].controllerId # devices[j].controllerId
          BY <1>1, <3>1, <4>2 DEF Playing
        <5> QED BY <1>1, <3>1, <5>1 DEF SessionInv, PlayersInv
      <4> QED BY <4>1, <4>2
    <3> QED BY <1>1, <2>1, <3>1, <3>2 DEF SessionInv, PlayersInv
  <2> QED BY <1>2, <2>2, <2>3, <2>4 DEF SessionInv, Types, Tables
<1>4. CASE ~emulates[i]
  <2>1. ForgetDevice(i) /\ UNCHANGED joinVars
    BY <1>4 DEF RemoveDevice, TakeOut
  <2>2. /\ LoopTypes' /\ KernelTypes' /\ Tables'
        /\ devices' \in Seq(Records) /\ Len(devices') = Len(devices) - 1
        /\ emulates' \in Seq(BOOLEAN) /\ Len(emulates') = Len(emulates)
    BY <1>1, <2>1, ForgetTables
  <2>3. BlockTypes'
    BY <1>1, <2>1, <2>2 DEF SessionInv, Types, BlockTypes, joinVars
  <2>4. PlayersInv'
    BY <1>1, <2>1, ForgetPlayers DEF joinVars
  <2> QED BY <1>2, <2>2, <2>3, <2>4 DEF SessionInv, Types
<1> QED BY <1>3, <1>4

(* Types of the block once no thread is joined any more.                   *)
LEMMA BlockParts ==
  ASSUME SessionInv, devices' \in Seq(Records), emulates' \in Seq(BOOLEAN),
         Len(emulates') = Len(emulates), Len(devices') \in {Len(devices), Len(devices) - 1},
         thread' \in [DeviceFds -> {NoThread, Ended, Freed} \cup 1..Len(emulates)],
         joining' = 0, ~leaving', leaving' \in BOOLEAN
  PROVE  BlockTypes'
<1>1. /\ Len(devices') \in Nat /\ Len(devices) \in Nat /\ Len(emulates) \in Nat
      /\ Len(devices) <= Len(emulates)
  BY LenProperties DEF SessionInv, Types, BlockTypes
<1>2. Len(devices') <= Len(emulates') /\ joining' \in 0..Len(devices')
  BY <1>1
<1>3. thread' \in [DeviceFds -> {NoThread, Ended, Freed} \cup 1..Len(emulates')]
  OBVIOUS
<1> QED BY <1>2, <1>3, Zenon DEF BlockTypes

(* pthread_join returns.                                                   *)
LEMMA JoinedStep ==
  ASSUME SessionInv, main = "loop", UNCHANGED <<main, signal>>, Joined
  PROVE  SessionInv'
<1>1. /\ joining \in 1..Len(devices) /\ Len(devices) \in Nat /\ Len(emulates) \in Nat
      /\ Len(devices) <= Len(emulates) /\ devices \in Seq(Records)
      /\ joining' = 0 /\ leaving' = FALSE
      /\ thread' = [thread EXCEPT ![devices[joining].fd] = NoThread]
      /\ UNCHANGED <<plugged, playerVars, scan>>
  BY LenProperties DEF Joined, SessionInv, Types, BlockTypes
<1>2. RestTypes'
  BY <1>1, RestStays DEF SessionInv, Types, RestTypes
<1>3. thread' \in [DeviceFds -> {NoThread, Ended, Freed} \cup 1..Len(emulates)]
  BY <1>1 DEF SessionInv, Types, BlockTypes
<1>4. joining' = 0 /\ ~leaving' /\ leaving' \in BOOLEAN
  BY <1>1
<1>5. CASE leaving
  <2>1. ForgetDevice(joining)
    BY <1>5 DEF Joined
  <2>2. /\ LoopTypes' /\ KernelTypes' /\ Tables'
        /\ devices' \in Seq(Records) /\ Len(devices') = Len(devices) - 1
        /\ emulates' \in Seq(BOOLEAN) /\ Len(emulates') = Len(emulates)
    BY <1>1, <2>1, ForgetTables
  <2>3. BlockTypes'
    BY <1>3, <1>4, <2>2, BlockParts
  <2>4. PlayersInv'
    BY <1>1, <1>5, <2>1, ForgetPlayers DEF playerVars
  <2> QED BY <1>2, <2>2, <2>3, <2>4 DEF SessionInv, Types
<1>6. CASE ~leaving
  <2>1. Onward(table, walk) /\ UNCHANGED <<file, devices, emulates>>
    BY <1>6 DEF Joined, FromHere
  <2>2. LoopTypes' /\ PolledRight' /\ OpenOnce' /\ KernelTypes' /\ OpenFiles'
    BY <1>1, <2>1, LoopStays, KernelStays DEF kernelVars
  <2>3. BlockTypes'
    <3>1. emulates' \in Seq(BOOLEAN) /\ Len(emulates') = Len(emulates)
      BY <2>1 DEF SessionInv, Types, BlockTypes
    <3>2. devices' \in Seq(Records) /\ Len(devices') = Len(devices)
      BY <1>1, <2>1
    <3> QED BY <1>3, <1>4, <3>1, <3>2, BlockParts
  <2>4. PlayersInv'
    BY <1>1, <1>6, <2>1 DEF SessionInv, PlayersInv, Playing, playerVars
  <2> QED BY <1>2, <2>2, <2>3, <2>4 DEF SessionInv, Types, Tables
<1>7. leaving \in BOOLEAN
  BY DEF SessionInv, Types, BlockTypes
<1> QED BY <1>5, <1>6, <1>7

-----------------------------------------------------------------------------
(* The end of the process, and the others.                                 *)

LEMMA ExitStep ==
  ASSUME SessionInv, Exit, main' = "done", signal' \in BOOLEAN
  PROVE  SessionInv'
<1>1. /\ table' = <<>> /\ walk' = 0 /\ devices' = <<>> /\ emulates' = <<>>
      /\ file' = [fd \in DeviceFds |-> "closed"] /\ thread' = [fd \in DeviceFds |-> NoThread]
      /\ assigned' = {} /\ crowded' = FALSE /\ joining' = 0 /\ leaving' = FALSE /\ scan' = {}
      /\ UNCHANGED plugged
  BY DEF Exit
<1>3. \A S : <<>> \in Seq(S) /\ Len(<<>>) = 0
  BY EmptySeq
<1>4. 1..Len(devices') = {} /\ 1..Len(table') = {} /\ 1..0 = {}
  BY <1>1, <1>3
<1>5. LoopTypes' /\ KernelTypes' /\ BlockTypes' /\ RestTypes'
  <2>1. Len(table') = 0 /\ Len(devices') = 0 /\ Len(emulates') = 0
    BY <1>1, <1>3
  <2>2. LoopTypes'
    <3>1. table' \in Seq(Entries)
      BY <1>1, <1>3
    <3> QED BY <1>1, <2>1, <3>1 DEF LoopTypes
  <2>3. KernelTypes'
    BY <1>1 DEF SessionInv, Types, KernelTypes
  <2>4. BlockTypes'
    <3>1. devices' \in Seq(Records) /\ emulates' \in Seq(BOOLEAN)
      BY <1>1, <1>3
    <3>2. thread' \in [DeviceFds -> {NoThread, Ended, Freed} \cup 1..Len(emulates')]
      BY <1>1
    <3>3. ~leaving' /\ leaving' \in BOOLEAN
      BY <1>1
    <3>4. Len(devices') <= Len(emulates') /\ joining' \in 0..Len(devices')
      BY <1>1, <2>1
    <3> QED BY <3>1, <3>2, <3>3, <3>4, Zenon DEF BlockTypes
  <2>5. RestTypes'
    BY <1>1 DEF RestTypes, Places
  <2> QED BY <2>2, <2>3, <2>4, <2>5
<1>6. Tables'
  BY <1>1, <1>4 DEF Tables, PolledRight, OpenOnce, OpenFiles, Distinct, Polled, LoopPolls, DevicesPolled
<1>7. PlayersInv'
  BY <1>1, <1>4 DEF PlayersInv, Playing
<1> QED BY <1>5, <1>6, <1>7 DEF SessionInv, Types

(* loop_main returns: what poll said is forgotten, and nothing else.       *)
LEMMA LeaveStep ==
  ASSUME SessionInv, Leaves, main # "done", signal' \in BOOLEAN
  PROVE  SessionInv'
<1>1. /\ main' = "stop" /\ walk' = 0
      /\ table' = [i \in DOMAIN table |-> [table[i] EXCEPT !.revents = FALSE]]
      /\ UNCHANGED <<kernelVars, blockVars, joinVars, playerVars, scan>>
  BY DEF Leaves, LoopEnds
<1>2. /\ table \in Seq(Entries) /\ Len(table) \in Nat /\ DOMAIN table = 1..Len(table)
      /\ \A i \in 1..Len(table) : table[i] \in Entries
  BY LenProperties, ElementOfSeq DEF SessionInv, Types, LoopTypes
<1>3. \A i \in 1..Len(table) :
        table'[i] \in Entries /\ table'[i].fd = table[i].fd /\ table'[i].handler = table[i].handler
  BY <1>1, <1>2 DEF Entries
<1>4. table' \in Seq(Entries) /\ Len(table') = Len(table)
  <2>1. table' \in [1..Len(table) -> Entries]
    BY <1>1, <1>2, <1>3
  <2> QED BY <2>1, <1>2, IsASeq, LenProperties
<1>5. Polled(table)' = Polled(table) /\ Distinct(table)'
  BY <1>3, <1>4 DEF Polled, Distinct, SessionInv, Tables, PolledRight
<1>6. LoopPolls' = LoopPolls /\ DevicesPolled' = DevicesPolled
  BY <1>1 DEF LoopPolls, DevicesPolled, blockVars
<1>7. LoopTypes' /\ PolledRight' /\ OpenOnce'
  BY <1>1, <1>2, <1>4, <1>5, <1>6
  DEF LoopTypes, SessionInv, Tables, PolledRight, OpenOnce, blockVars
<1>8. KernelTypes' /\ OpenFiles' /\ BlockTypes' /\ PlayersInv' /\ RestTypes'
  <2>1. /\ UNCHANGED <<kernelVars, devices>> /\ UNCHANGED <<blockVars, joinVars>>
        /\ UNCHANGED <<devices, joinVars, playerVars>>
    BY <1>1 DEF blockVars
  <2>2. main' \in Places /\ scan' \subseteq Nodes /\ UNCHANGED playerVars
    BY <1>1 DEF SessionInv, Types, RestTypes, Places
  <2> QED BY <2>1, <2>2, KernelStays, BlockStays, PlayersStay, RestStays
<1> QED BY <1>7, <1>8 DEF SessionInv, Types, Tables

LEMMA KernelStep ==
  ASSUME SessionInv, main # "done", UNCHANGED <<main, signal>>,
         Environment \/ \E fd \in DeviceFds : ThreadEnds(fd)
  PROVE  SessionInv'
<1>1. UNCHANGED <<loopVars, devices, emulates, joinVars, playerVars, scan>>
  BY DEF Environment, Plug, Unplug, ThreadStrays, ThreadEnds, blockVars
<1>2. LoopTypes' /\ PolledRight' /\ OpenOnce' /\ PlayersInv' /\ RestTypes'
  BY <1>1, LoopStays, PlayersStay, RestStays DEF SessionInv, Types, RestTypes
<1>3. CASE \E fd \in DeviceFds : ThreadStrays(fd) \/ ThreadEnds(fd)
  <2>1. PICK fd \in DeviceFds :
          UNCHANGED kernelVars /\ thread' = [thread EXCEPT ![fd] = Ended]
    BY <1>3 DEF ThreadStrays, ThreadEnds
  <2>2. KernelTypes' /\ OpenFiles'
    BY <1>1, <2>1, KernelStays
  <2>3. BlockTypes'
    BY <1>1, <2>1 DEF SessionInv, Types, BlockTypes, joinVars
  <2> QED BY <1>2, <2>2, <2>3 DEF SessionInv, Types, Tables
<1>4. CASE \E n \in Nodes : Plug(n) \/ Unplug(n)
  <2>1. UNCHANGED blockVars
    BY <1>1, <1>4 DEF blockVars, Plug, Unplug
  <2>2. BlockTypes'
    BY <1>1, <2>1, BlockStays
  <2>3. KernelTypes' /\ OpenFiles'
    <3>1. CASE \E n \in Nodes : Plug(n)
      BY <1>1, <3>1 DEF Plug, SessionInv, Types, KernelTypes, Tables, OpenFiles
    <3>2. ASSUME NEW n \in Nodes, Unplug(n) PROVE KernelTypes' /\ OpenFiles'
      <4>1. /\ plugged' = plugged \ {n}
            /\ file' = [fd \in DeviceFds |->
                 IF \E i \in Present : devices[i].fd = fd /\ devices[i].node = n
                 THEN "dead" ELSE file[fd]]
        BY <3>2 DEF Unplug
      <4>2. Present = 1..Len(devices)
        BY LenProperties DEF SessionInv, Types, BlockTypes, Present
      <4>3. \A fd \in DeviceFds : file'[fd] # "closed" <=> file[fd] # "closed"
        BY <4>1, <4>2 DEF SessionInv, Tables, OpenFiles
      <4>4. KernelTypes'
        BY <4>1 DEF SessionInv, Types, KernelTypes
      <4> QED BY <1>1, <4>3, <4>4 DEF SessionInv, Tables, OpenFiles
    <3> QED BY <1>4, <3>1, <3>2
  <2> QED BY <1>2, <2>2, <2>3 DEF SessionInv, Types, Tables
<1> QED BY <1>3, <1>4 DEF Environment

(* Calls that return, or hang, and the page, between the other steps.      *)
LEMMA OutsideStep ==
  ASSUME SessionInv, UNCHANGED inputVars, (main = "done") = (main' = "done"),
         main' \in Places, signal' \in BOOLEAN
  PROVE  SessionInv'
<1>2. UNCHANGED <<loopVars, kernelVars, blockVars, joinVars, playerVars, scan, devices>>
  BY DEF inputVars, blockVars
<1>3. scan' \subseteq Nodes
  BY <1>2 DEF SessionInv, Types, RestTypes
<1> QED BY <1>2, <1>3, LoopStays, KernelStays, PlayersStay, BlockStays, RestStays
        DEF SessionInv, Types, Tables

LEMMA SessionStep == SessionInv /\ [Next]_vars => SessionInv'
<1> SUFFICES ASSUME SessionInv, [Next]_vars PROVE SessionInv'
  OBVIOUS
<1>1. CASE \/ Connect \/ Hangs \/ Terminate \/ UNCHANGED vars
           \/ StopConnection /\ main' = "quit"
  <2>1. /\ UNCHANGED inputVars /\ (main = "done") = (main' = "done")
        /\ main' \in Places /\ signal' \in BOOLEAN
    BY <1>1 DEF Connect, Hangs, Terminate, StopConnection, Returns, vars, SessionInv, Types,
       RestTypes, Places
  <2> QED BY <2>1, OutsideStep
<1>2. CASE main = "loop" /\ Walks
  BY <1>2, PollStep
<1>3. CASE main = "loop" /\ HandlesInput
  <2>1. main = "loop" /\ HandleInput /\ UNCHANGED <<main, signal>>
    BY <1>3 DEF HandlesInput
  <2>2. CASE Monitor
    <3>1. PICK n \in Nodes : Create(n, {})
      BY <2>2 DEF Monitor
    <3>2. UNCHANGED <<plugged, joinVars, playerVars, scan>> /\ scan' \subseteq Nodes
      BY <2>2 DEF Monitor, SessionInv, Types, RestTypes
    <3> QED BY <2>1, <3>1, <3>2, CreateStep
  <2>3. CASE ScanNode
    <3>1. PICK n \in scan : scan' = scan \ {n} /\ Create(n, scan \ {n})
      BY <2>3 DEF ScanNode
    <3>2. UNCHANGED <<plugged, joinVars, playerVars>> /\ scan' \subseteq Nodes /\ n \in Nodes
      BY <2>3, <3>1 DEF ScanNode, SessionInv, Types, RestTypes
    <3> QED BY <2>1, <3>1, <3>2, CreateStep
  <2> QED BY <2>1, <2>2, <2>3, QuietStep, PlayerStep, RemoveStep, JoinedStep DEF HandleInput
<1>4. CASE main = "loop" /\ (LeavesByInput \/ LeavesBySignal)
  <2>1. Leaves /\ signal' \in BOOLEAN
    BY <1>4 DEF LeavesByInput, LeavesBySignal, SessionInv, Types, RestTypes
  <2> QED BY <1>4, <2>1, LeaveStep
<1>5. CASE Kernel \/ \E fd \in DeviceFds : EmulationThread(fd)
  BY <1>5, KernelStep DEF Kernel, EmulationThread
<1>6. CASE Aborts \/ QuitApp \/ (StopConnection /\ main' # "quit")
  <2>1. Exit /\ main' = "done" /\ signal' \in BOOLEAN
    BY <1>6 DEF Aborts, QuitApp, StopConnection, Returns, SessionInv, Types, RestTypes
  <2> QED BY <2>1, ExitStep
<1> QED BY <1>1, <1>2, <1>3, <1>4, <1>5, <1>6 DEF Next, Main

-----------------------------------------------------------------------------
(* A table of three entries put behind another.                            *)
LEMMA ThreeMore ==
  ASSUME NEW s \in Seq(Entries), NEW t \in Seq(Entries), Len(t) = 3
  PROVE  /\ s \o t \in Seq(Entries) /\ Len(s \o t) = Len(s) + 3
         /\ \A i \in 1..Len(s) : (s \o t)[i] = s[i]
         /\ (s \o t)[Len(s) + 1] = t[1] /\ (s \o t)[Len(s) + 2] = t[2]
         /\ (s \o t)[Len(s) + 3] = t[3]
<1>1. /\ s \o t \in Seq(Entries) /\ Len(s \o t) = Len(s) + Len(t)
      /\ \A i \in 1..(Len(s) + Len(t)) :
           (s \o t)[i] = IF i <= Len(s) THEN s[i] ELSE t[i - Len(s)]
  BY ConcatProperties
<1>2. Len(s) \in Nat
  BY LenProperties
<1> QED BY <1>1, <1>2

(* What udev_init and loop_init leave: the devices that were plugged in,   *)
(* each on a descriptor and a node of its own, and the three of the loop.  *)
LEMMA InitSessionInv == Init => SessionInv
<1> SUFFICES ASSUME Init PROVE SessionInv
  OBVIOUS
<1> DEFINE last == Cardinality(plugged)
           polled == [i \in 1..last |-> EntryOf(3 + i, "device", FALSE)]
           own == <<EntryOf(MonitorFd, "monitor", FALSE), EntryOf(RescanFd, "rescan", FALSE),
                    EntryOf(SignalFd, "signal", FALSE)>>
<1>1. PICK order \in [1..last -> plugged] :
        /\ \A i, j \in 1..last : order[i] = order[j] => i = j
        /\ devices = [i \in 1..last |-> Record(3 + i, order[i])]
  BY DEF Init, InputInit
<1>2. /\ emulates = [i \in 1..last |-> FALSE] /\ table = polled \o own
      /\ file = [fd \in DeviceFds |-> IF fd <= 3 + last THEN "live" ELSE "closed"]
      /\ walk = 0 /\ scan = {} /\ thread = [fd \in DeviceFds |-> NoThread]
      /\ joining = 0 /\ leaving = FALSE /\ assigned = {} /\ crowded = FALSE
      /\ main = "connect" /\ signal = FALSE /\ plugged \subseteq Nodes
  BY DEF Init, InputInit
<1>3. last \in Nat /\ Cardinality(Nodes) \in Nat /\ last <= Cardinality(Nodes)
  BY <1>2, InputAssumption, FS_Subset, FS_CardinalityType
<1> HIDE DEF last
<1>4. \A i \in 1..last : 3 + i \in DeviceFds
  BY <1>3 DEF DeviceFds
<1>5. /\ devices \in Seq(Records) /\ Len(devices) = last
      /\ \A i \in 1..last : /\ devices[i].fd = 3 + i /\ devices[i].node = order[i]
                            /\ devices[i].controllerId = -1
  <2>1. \A i \in 1..last : /\ devices[i] \in Records /\ devices[i].fd = 3 + i
                           /\ devices[i].node = order[i] /\ devices[i].controllerId = -1
    <3> SUFFICES ASSUME NEW i \in 1..last
                 PROVE  /\ devices[i] \in Records /\ devices[i].fd = 3 + i
                        /\ devices[i].node = order[i] /\ devices[i].controllerId = -1
      OBVIOUS
    <3>1. order[i] \in Nodes /\ devices[i] = Record(3 + i, order[i])
      BY <1>1, <1>2
    <3> QED BY <1>4, <3>1, InputAssumption DEF Record, Records
  <2>2. devices \in [1..last -> Records]
    BY <1>1, <2>1
  <2> QED BY <1>3, <2>1, <2>2, IsASeq, LenProperties
<1>6. emulates \in Seq(BOOLEAN) /\ Len(emulates) = last
  BY <1>2, <1>3, IsASeq, LenProperties
<1>7. /\ polled \in Seq(Entries) /\ Len(polled) = last
      /\ \A i \in 1..last : polled[i].fd = 3 + i /\ polled[i].handler = "device"
  <2>1. \A i \in 1..last : /\ polled[i] \in Entries
                           /\ polled[i].fd = 3 + i /\ polled[i].handler = "device"
    BY <1>4 DEF EntryOf, Entries, Fds, Handlers
  <2>2. polled \in [1..last -> Entries]
    BY <2>1
  <2> HIDE DEF polled
  <2> QED BY <1>3, <2>1, <2>2, IsASeq, LenProperties
<1>8. /\ own \in Seq(Entries) /\ Len(own) = 3
      /\ own[1].fd = 2 /\ own[1].handler = "monitor" /\ own[2].fd = 3 /\ own[2].handler = "rescan"
      /\ own[3].fd = 1 /\ own[3].handler = "signal"
  BY DEF EntryOf, Entries, Fds, Handlers, MonitorFd, RescanFd, SignalFd
<1> HIDE DEF polled, own
<1>9. /\ table \in Seq(Entries) /\ Len(table) = last + 3
      /\ \A i \in 1..last : table[i] = polled[i]
      /\ table[last + 1] = own[1] /\ table[last + 2] = own[2] /\ table[last + 3] = own[3]
  BY <1>2, <1>7, <1>8, ThreeMore
<1>10. 1..Len(table) = 1..last \cup {last + 1, last + 2, last + 3}
  BY <1>3, <1>9
<1>11. Types
  <2>1. LoopTypes
    BY <1>2, <1>3, <1>9 DEF LoopTypes
  <2>2. KernelTypes
    BY <1>2 DEF KernelTypes
  <2>3. BlockTypes
    <3>1. Len(devices) <= Len(emulates) /\ joining \in 0..Len(devices)
      BY <1>2, <1>3, <1>5, <1>6
    <3>2. thread \in [DeviceFds -> {NoThread, Ended, Freed} \cup 1..Len(emulates)]
      BY <1>2
    <3> QED BY <1>2, <1>5, <1>6, <3>1, <3>2, Zenon DEF BlockTypes
  <2>4. RestTypes
    BY <1>2 DEF RestTypes, Places
  <2> QED BY <2>1, <2>2, <2>3, <2>4 DEF Types
<1>12. PolledRight
  <2>1. Distinct(table)
    <3>1. /\ \A i \in 1..last : table[i].fd = 3 + i
          /\ table[last + 1].fd = 2 /\ table[last + 2].fd = 3 /\ table[last + 3].fd = 1
      BY <1>7, <1>8, <1>9
    <3> DEFINE fdOf(i) == IF i <= last THEN 3 + i
                          ELSE IF i = last + 1 THEN 2 ELSE IF i = last + 2 THEN 3 ELSE 1
    <3>2. \A i \in 1..Len(table) : table[i].fd = fdOf(i)
      BY <1>3, <1>10, <3>1
    <3>3. \A i, j \in 1..(last + 3) : fdOf(i) = fdOf(j) => i = j
      BY <1>3
    <3> HIDE DEF fdOf
    <3> QED BY <1>9, <3>2, <3>3 DEF Distinct
  <2>2. Polled(table) = {<<table[i].fd, table[i].handler>> : i \in 1..last}
                          \cup {<<2, "monitor">>, <<3, "rescan">>, <<1, "signal">>}
    <3>1. Polled(table) = {<<table[i].fd, table[i].handler>> :
                              i \in 1..last \cup {last + 1, last + 2, last + 3}}
      BY <1>10 DEF Polled
    <3>2. /\ table[last + 1].fd = 2 /\ table[last + 1].handler = "monitor"
          /\ table[last + 2].fd = 3 /\ table[last + 2].handler = "rescan"
          /\ table[last + 3].fd = 1 /\ table[last + 3].handler = "signal"
      BY <1>8, <1>9
    <3> QED BY <3>1, <3>2, Zenon
  <2>3. {<<table[i].fd, table[i].handler>> : i \in 1..last} = DevicesPolled
    <3>1. \A i \in 1..last :
            <<table[i].fd, table[i].handler>> = <<devices[i].fd, "device">>
      BY <1>5, <1>7, <1>9
    <3>2. DevicesPolled = {<<devices[i].fd, "device">> : i \in 1..last}
      BY <1>5 DEF DevicesPolled
    <3> QED BY <3>1, <3>2
  <2>4. LoopPolls = {<<1, "signal">>, <<2, "monitor">>, <<3, "rescan">>}
    BY <1>2 DEF LoopPolls, SignalFd, MonitorFd, RescanFd
  <2> QED BY <2>1, <2>2, <2>3, <2>4 DEF PolledRight
<1>13. OpenOnce
  BY <1>1, <1>3, <1>5 DEF OpenOnce
<1>14. OpenFiles
  <2>1. \A fd \in DeviceFds : file[fd] # "closed" <=> fd <= 3 + last
    BY <1>2
  <2>2. ASSUME NEW fd \in DeviceFds, fd <= 3 + last
        PROVE  \E i \in 1..last : 3 + i = fd
    <3>1. fd - 3 \in 1..last
      BY <1>3, <2>2 DEF DeviceFds
    <3>2. 3 + (fd - 3) = fd
      BY <1>3 DEF DeviceFds
    <3> QED BY <3>1, <3>2
  <2>3. \A i \in 1..last : 3 + i <= 3 + last
    BY <1>3
  <2> QED BY <1>4, <1>5, <2>1, <2>2, <2>3 DEF OpenFiles
<1>15. PlayersInv
  <2>1. Playing = {}
    BY <1>5 DEF Playing
  <2> QED BY <1>2, <2>1 DEF PlayersInv
<1> QED BY <1>11, <1>12, <1>13, <1>14, <1>15 DEF SessionInv, Tables

LEMMA SessionSafety == Spec => []SessionInv
BY InitSessionInv, SessionStep, PTL DEF Spec

(* The state of the loop, the devices and the session has its types: no    *)
(* walk past the table (loop.c), no record past the block, no thread that  *)
(* looks past it unless its memory was freed (evdev.c).                    *)
THEOREM SessionTypeCorrect == Spec => []SessionTypeOK
BY SessionSafety, InvImplies, PTL

(* Whatever comes and goes, and at whatever place of the walk: every open  *)
(* device is polled once, with its own handler, and no node is open twice  *)
(* (loop_add_fd, loop_remove_fd, evdev_create, evdev_remove).              *)
THEOREM TablesStayInStep == Spec => []TablesAgree
BY SessionSafety, InvImplies, PTL

(* For any number of gamepads and of player numbers: two share a number    *)
(* only as player 0 once they were too many, and the mask sent to the host *)
(* is that of the players there (evdev.c:1060, evdev.c:850).               *)
THEOREM PlayersStayApart == Spec => []PlayersDistinct
BY SessionSafety, InvImplies, PTL
=============================================================================
