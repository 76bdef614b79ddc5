--------------------------- MODULE Session_proofs ---------------------------
(***************************************************************************)
(* What is proved of six parts of a session.                               *)
(*                                                                         *)
(* Objects: the process list and the object table of io_state, for any     *)
(* number of processes, groups, handle values and any capacity of the      *)
(* list: the copy the API works on follows every connection, and an open   *)
(* handle keeps its kind.                                                  *)
(*                                                                         *)
(* LineEditor: the line a ReadConsole edits, for any characters, prompts,  *)
(* aliases and row: the terminal's row shows it, and browsing through the  *)
(* history gives it back.                                                  *)
(*                                                                         *)
(* Aliases: what an exe set last and has not erased is what it finds.      *)
(*                                                                         *)
(* Settings: what a client reads of the console itself is what was last    *)
(* set, for any code pages, titles, buffer sizes and history sizes.        *)
(*                                                                         *)
(* Launch: a host reads its command line as its creator meant it, for any  *)
(* sizes, handles and commands of a user.                                  *)
(*                                                                         *)
(* SignalPipe: readers of signals and of control messages stay in step     *)
(* with their writers, for any sizes, windows and number of messages.      *)
(***************************************************************************)
EXTENDS Objects, LineEditor, Aliases, Settings, Launch, SignalPipe,
        SequenceTheorems, FiniteSetTheorems, WellFoundedInduction, TLAPS

-----------------------------------------------------------------------------
(* Objects: the inductive invariants *)

\* The group that a process is listed with.
ListedGroup(p) == IF p \in groupless THEN 0 ELSE attached[p]

\* The list names each attached process that is listed once, with its group at the same place.
Listed(list, groups) ==
  /\ list \in Seq(Pids) /\ groups \in Seq(Groups \cup {0}) /\ Len(groups) = Len(list)
  /\ \A j, k \in 1..Len(list) : list[j] = list[k] => j = k
  /\ \A p \in Pids : p \in DOMAIN attached \ unlisted <=> \E k \in 1..Len(list) : list[k] = p
  /\ \A k \in 1..Len(list) : groups[k] = ListedGroup(list[k])

ListInv ==
  /\ DOMAIN attached \subseteq Pids /\ unlisted \subseteq DOMAIN attached
  /\ groupless \subseteq DOMAIN attached
  /\ Listed(process_list, process_groups)
  /\ snapshot = process_list /\ snapshot_groups = process_groups

\* Every open handle is one of the connection's own or has an entry; an entry tells its
\* handle's kind; the latest id of a kind is 0 or that of an open handle of the kind.
Latest(id, k) == id # 0 => id \in DOMAIN opened /\ opened[id] = k

HandleInv ==
  /\ DOMAIN opened \subseteq HandleValues
  /\ \A o \in open_objects : o.id \in DOMAIN opened /\ o.kind = opened[o.id]
  /\ Latest(input_id, "input") /\ Latest(output_id, "output")
  /\ Latest(alternate_output_id, "alternate_output")
  /\ Latest(condrv_input, "input") /\ Latest(condrv_output, "output")
  /\ condrv_input = 0 => DOMAIN opened = {} /\ condrv_output = 0
  /\ \A id \in DOMAIN opened :
       id \in {condrv_input, condrv_output} \/ \E o \in open_objects : o.id = id

-----------------------------------------------------------------------------
(* The process list *)

\* Where remove_process looks.
PlaceOf(list, p) == SelectInSeq(list, LAMBDA q : q = p)

\* What the search finds is the place of the process, which is there once.
LEMMA Place ==
  ASSUME NEW list \in Seq(Pids), NEW p \in Pids,
         \A j, k \in 1..Len(list) : list[j] = list[k] => j = k
  PROVE  \/ PlaceOf(list, p) = 0 /\ ~\E k \in 1..Len(list) : list[k] = p
         \/ PlaceOf(list, p) \in 1..Len(list) /\ list[PlaceOf(list, p)] = p
<1>1. CASE \E k \in 1..Len(list) : list[k] = p
  <2>1. PICK k \in 1..Len(list) : list[k] = p
    BY <1>1
  <2>2. {i \in 1..Len(list) : list[i] = p} = {k}
    BY <2>1
  <2>3. k \in Int /\ Min({k}) = k
    BY <2>1 DEF Min
  <2>4. QED
    BY <2>1, <2>2, <2>3 DEF PlaceOf, SelectInSeq
<1>2. CASE ~\E k \in 1..Len(list) : list[k] = p
  BY <1>2 DEF PlaceOf, SelectInSeq
<1>3. QED
  BY <1>1, <1>2

\* What is left of a list when the process in place n goes.
LEMMA Removed ==
  ASSUME NEW S, NEW list \in Seq(S), NEW n \in 1..Len(list)
  PROVE  LET r == RemoveAt(list, n) IN
         /\ r \in Seq(S) /\ Len(r) = Len(list) - 1
         /\ \A k \in 1..Len(r) : r[k] = IF k < n THEN list[k] ELSE list[k + 1]
<1> DEFINE before == SubSeq(list, 1, n - 1)
           after == SubSeq(list, n + 1, Len(list))
<1>1. /\ before \in Seq(S) /\ Len(before) = n - 1
      /\ \A k \in 1..(n - 1) : before[k] = list[k]
  BY SubSeqProperties
<1>2. /\ after \in Seq(S) /\ Len(after) = Len(list) - n
      /\ \A k \in 1..(Len(list) - n) : after[k] = list[n + k]
  BY SubSeqProperties
<1> HIDE DEF before, after
<1>3. /\ before \o after \in Seq(S) /\ Len(before \o after) = Len(before) + Len(after)
      /\ \A k \in 1..(Len(before) + Len(after)) :
           (before \o after)[k] = IF k <= Len(before) THEN before[k] ELSE after[k - Len(before)]
  BY <1>1, <1>2, ConcatProperties
<1> DEFINE r == before \o after
<1>4. \A k \in 1..Len(r) : r[k] = IF k < n THEN list[k] ELSE list[k + 1]
  <2>1. SUFFICES ASSUME NEW k \in 1..Len(r)
                 PROVE  r[k] = IF k < n THEN list[k] ELSE list[k + 1]
    OBVIOUS
  <2>2. CASE k < n
    BY <1>1, <1>2, <1>3, <2>1, <2>2
  <2>3. CASE ~(k < n)
    <3>1. k - (n - 1) \in 1..(Len(list) - n) /\ n + (k - (n - 1)) = k + 1
      BY <1>1, <1>2, <1>3, <2>1, <2>3
    <3>2. after[k - (n - 1)] = list[k + 1]
      BY <1>2, <3>1
    <3>3. QED
      BY <1>1, <1>2, <1>3, <2>1, <2>3, <3>2
  <2>4. QED
    BY <2>2, <2>3
<1>5. r = RemoveAt(list, n)
  BY DEF RemoveAt, before, after
<1>6. Len(r) = Len(list) - 1 /\ r \in Seq(S)
  BY <1>1, <1>2, <1>3
<1> HIDE DEF r
<1>7. QED
  BY <1>4, <1>5, <1>6

LEMMA ListInit == ObjectsInit => ListInv
<1> SUFFICES ASSUME ObjectsInit PROVE ListInv
  OBVIOUS
<1>1. snapshot = process_list /\ snapshot_groups = process_groups
  BY DEF ObjectsInit
<1>2. CASE NoClientYet
  BY <1>1, <1>2 DEF NoClientYet, ListInv, Listed
<1>3. CASE ClientBefore
  <2>1. PICK p \in Pids, g \in Groups, named \in BOOLEAN :
          /\ process_list = (IF named THEN <<p>> ELSE <<>>)
          /\ process_groups = (IF named THEN <<0>> ELSE <<>>)
          /\ attached = With([q \in {} |-> 0], p, g)
          /\ unlisted = (IF named THEN {} ELSE {p}) /\ groupless = {p} \ unlisted
    BY <1>3 DEF ClientBefore
  <2>2. DOMAIN attached = {p}
    BY <2>1 DEF With
  <2>3. CASE named
    <3>1. process_list = <<p>> /\ process_groups = <<0>> /\ unlisted = {} /\ groupless = {p}
      BY <2>1, <2>3
    <3>2. /\ process_list \in Seq(Pids) /\ process_groups \in Seq(Groups \cup {0})
          /\ Len(process_list) = 1 /\ Len(process_groups) = 1
          /\ process_list[1] = p /\ process_groups[1] = 0
      BY <3>1
    <3>3. \A k \in 1..Len(process_list) : k = 1
      BY <3>2
    <3>4. ListedGroup(p) = 0
      BY <3>1 DEF ListedGroup
    <3>5. 1 \in 1..Len(process_list)
      BY <3>2
    <3>6. Listed(process_list, process_groups)
      BY <2>2, <3>1, <3>2, <3>3, <3>4, <3>5 DEF Listed
    <3>7. QED
      BY <1>1, <2>2, <3>1, <3>6 DEF ListInv
  <2>4. CASE ~named
    <3>1. process_list = <<>> /\ process_groups = <<>> /\ unlisted = {p} /\ groupless = {}
      BY <2>1, <2>4
    <3>2. QED
      BY <1>1, <2>2, <3>1 DEF ListInv, Listed
  <2>5. QED
    BY <2>3, <2>4
<1>4. QED
  BY <1>2, <1>3 DEF ObjectsInit

\* A process comes: it is put at the end of the list, or stays out of a full one.
LEMMA ListConnect == ListInv /\ handle_connect => ListInv'
<1> SUFFICES ASSUME ListInv, handle_connect PROVE ListInv'
  OBVIOUS
<1>1. PICK p \in Pids \ DOMAIN attached, g \in Groups, group_read \in BOOLEAN :
        /\ add_process(p, IF group_read THEN g ELSE 0) /\ sync_process_snapshot
        /\ attached' = With(attached, p, g)
        /\ IF Contains(process_list', p)
           THEN /\ groupless' = IF group_read THEN groupless ELSE groupless \cup {p}
                /\ unlisted' = unlisted
           ELSE unlisted' = unlisted \cup {p} /\ groupless' = groupless
  BY DEF handle_connect
<1> DEFINE listed == IF group_read THEN g ELSE 0
<1>2. /\ process_list \in Seq(Pids) /\ process_groups \in Seq(Groups \cup {0})
      /\ Len(process_groups) = Len(process_list) /\ listed \in Groups \cup {0}
      /\ DOMAIN attached \subseteq Pids /\ unlisted \subseteq DOMAIN attached
      /\ groupless \subseteq DOMAIN attached
  BY DEF ListInv, Listed
<1>3. /\ DOMAIN attached' = DOMAIN attached \cup {p} /\ attached'[p] = g
      /\ \A q \in DOMAIN attached : attached'[q] = attached[q]
  BY <1>1 DEF With
<1>4. ~Contains(process_list, p)
  BY <1>1, <1>2 DEF ListInv, Listed, Contains
<1>5. snapshot' = process_list' /\ snapshot_groups' = process_groups'
  BY <1>1 DEF sync_process_snapshot
<1> HIDE DEF listed
<1>6. CASE Len(process_list) = MaxProcesses
  <2>1. process_list' = process_list /\ process_groups' = process_groups
    BY <1>1, <1>6 DEF add_process
  <2>2. unlisted' = unlisted \cup {p} /\ groupless' = groupless
    BY <1>1, <1>4, <2>1
  <2>3. \A q \in Pids : q \in DOMAIN attached' \ unlisted' <=> q \in DOMAIN attached \ unlisted
    BY <1>1, <1>2, <1>3, <2>2
  <2>4. \A k \in 1..Len(process_list) : process_groups[k] = ListedGroup(process_list[k])'
    <3>1. \A k \in 1..Len(process_list) : /\ process_list[k] \in DOMAIN attached
                                          /\ process_groups[k] = ListedGroup(process_list[k])
      BY <1>2 DEF ListInv, Listed
    <3>2. QED
      BY <1>3, <2>1, <2>2, <3>1 DEF ListedGroup
  <2>5. Listed(process_list, process_groups)'
    BY <1>2, <2>1, <2>3, <2>4 DEF ListInv, Listed
  <2>6. QED
    BY <1>1, <1>2, <1>3, <1>5, <2>2, <2>5 DEF ListInv
<1>7. CASE Len(process_list) # MaxProcesses
  <2>1. process_list' = Append(process_list, p) /\ process_groups' = Append(process_groups, listed)
    BY <1>1, <1>4, <1>7 DEF add_process, listed
  <2>2. /\ process_list' \in Seq(Pids) /\ process_groups' \in Seq(Groups \cup {0})
        /\ Len(process_list') = Len(process_list) + 1 /\ Len(process_groups') = Len(process_list')
        /\ process_list'[Len(process_list) + 1] = p
        /\ process_groups'[Len(process_list) + 1] = listed
        /\ \A k \in 1..Len(process_list) : /\ process_list'[k] = process_list[k]
                                           /\ process_groups'[k] = process_groups[k]
    BY <1>1, <1>2, <2>1
  <2>3. /\ unlisted' = unlisted
        /\ groupless' = IF group_read THEN groupless ELSE groupless \cup {p}
    <3>1. Len(process_list) + 1 \in 1..Len(process_list')
      BY <1>2, <2>2
    <3>2. Contains(process_list', p)
      BY <2>2, <3>1 DEF Contains
    <3>3. QED
      BY <1>1, <3>2
  <2>4. \A k \in 1..Len(process_list) : process_list[k] # p
    BY <1>4 DEF Contains
  <2>5. \A k \in 1..Len(process_list') : k \in 1..Len(process_list) \/ k = Len(process_list) + 1
    BY <1>2, <2>2
  <2>6. \A j, k \in 1..Len(process_list') : process_list'[j] = process_list'[k] => j = k
    BY <2>2, <2>4, <2>5 DEF ListInv, Listed
  <2>7. \A q \in Pids : q \in DOMAIN attached' \ unlisted' <=>
                          \E k \in 1..Len(process_list') : process_list'[k] = q
    <3>1. SUFFICES ASSUME NEW q \in Pids
                   PROVE  q \in DOMAIN attached' \ unlisted' <=>
                            \E k \in 1..Len(process_list') : process_list'[k] = q
      OBVIOUS
    <3>2. CASE q = p
      BY <1>1, <1>2, <1>3, <2>2, <2>3, <3>2, SMTT(30)
    <3>3. CASE q # p
      <4>1. q \in DOMAIN attached' \ unlisted' <=> q \in DOMAIN attached \ unlisted
        BY <1>3, <2>3, <3>3
      <4>2. (\E k \in 1..Len(process_list') : process_list'[k] = q) <=>
              \E k \in 1..Len(process_list) : process_list[k] = q
        BY <1>2, <2>2, <2>5, <3>3
      <4>3. QED
        BY <4>1, <4>2 DEF ListInv, Listed
    <3>4. QED
      BY <3>2, <3>3
  <2>8. \A k \in 1..Len(process_list') : process_groups'[k] = ListedGroup(process_list[k])'
    <3>1. \A k \in 1..Len(process_list) : /\ process_list[k] \in DOMAIN attached
                                          /\ process_groups[k] = ListedGroup(process_list[k])
      BY <1>2 DEF ListInv, Listed
    <3>2. \A q \in DOMAIN attached : ListedGroup(q)' = ListedGroup(q)
      BY <1>1, <1>3, <2>3 DEF ListedGroup
    <3>3. ListedGroup(p)' = listed
      BY <1>1, <1>2, <1>3, <2>3 DEF ListedGroup, listed
    <3>4. ASSUME NEW k \in 1..Len(process_list') PROVE process_groups'[k] = ListedGroup(process_list[k])'
      <4>1. CASE k = Len(process_list) + 1
        BY <2>2, <3>3, <4>1 DEF ListedGroup
      <4>2. CASE k \in 1..Len(process_list)
        <5>1. process_groups'[k] = process_groups[k] /\ process_list'[k] = process_list[k]
          BY <2>2, <4>2
        <5>2. process_list[k] \in DOMAIN attached /\ process_groups[k] = ListedGroup(process_list[k])
          BY <3>1, <4>2
        <5>3. process_groups'[k] = (IF process_list[k] \in groupless' THEN 0
                                    ELSE attached'[process_list[k]])
          BY <3>2, <5>1, <5>2 DEF ListedGroup
        <5>4. QED
          BY <5>1, <5>3 DEF ListedGroup
      <4>3. QED
        BY <2>5, <3>4, <4>1, <4>2
    <3>5. QED
      BY <3>4
  <2>9. Listed(process_list, process_groups)'
    BY <2>2, <2>6, <2>7, <2>8 DEF Listed
  <2>10. QED
    BY <1>1, <1>2, <1>3, <1>5, <2>3, <2>9 DEF ListInv
<1>8. QED
  BY <1>6, <1>7

\* A process goes: the groups move up with the processes.
LEMMA ListDisconnect == ListInv /\ handle_disconnect => ListInv'
<1> SUFFICES ASSUME ListInv, handle_disconnect PROVE ListInv'
  OBVIOUS
<1>1. PICK p \in DOMAIN attached :
        /\ remove_process(p) /\ sync_process_snapshot
        /\ attached' = Without(attached, p)
        /\ unlisted' = unlisted \ {p} /\ groupless' = groupless \ {p}
  BY DEF handle_disconnect
<1>2. /\ process_list \in Seq(Pids) /\ process_groups \in Seq(Groups \cup {0})
      /\ Len(process_groups) = Len(process_list) /\ p \in Pids
      /\ DOMAIN attached \subseteq Pids /\ unlisted \subseteq DOMAIN attached
      /\ groupless \subseteq DOMAIN attached
      /\ \A j, k \in 1..Len(process_list) : process_list[j] = process_list[k] => j = k
  BY <1>1 DEF ListInv, Listed
<1>3. /\ DOMAIN attached' = DOMAIN attached \ {p}
      /\ \A q \in DOMAIN attached' : attached'[q] = attached[q]
      /\ \A q \in DOMAIN attached' : ListedGroup(q)' = ListedGroup(q)
  BY <1>1 DEF Without, ListedGroup
<1>4. snapshot' = process_list' /\ snapshot_groups' = process_groups'
  BY <1>1 DEF sync_process_snapshot
<1> DEFINE n == PlaceOf(process_list, p)
<1>5. /\ n = 0 => ~\E k \in 1..Len(process_list) : process_list[k] = p
      /\ n # 0 => n \in 1..Len(process_list) /\ process_list[n] = p
  BY <1>2, Place
<1>6. /\ n = 0 => process_list' = process_list /\ process_groups' = process_groups
      /\ n # 0 => /\ process_list' = RemoveAt(process_list, n)
                  /\ process_groups' = RemoveAt(process_groups, n)
  BY <1>1 DEF remove_process, PlaceOf
<1> HIDE DEF n
<1>7. \A q \in Pids : q \in DOMAIN attached' \ unlisted' <=>
                        q # p /\ q \in DOMAIN attached \ unlisted
  BY <1>1, <1>3
<1>8. CASE n = 0
  <2>1. process_list' = process_list /\ process_groups' = process_groups
    BY <1>6, <1>8
  <2>2. \A q \in Pids : q \in DOMAIN attached' \ unlisted' <=>
                          \E k \in 1..Len(process_list) : process_list[k] = q
    BY <1>5, <1>7, <1>8 DEF ListInv, Listed
  <2>3. \A k \in 1..Len(process_list) : /\ process_list[k] \in DOMAIN attached'
                                        /\ process_groups[k] = ListedGroup(process_list[k])'
    <3>1. \A k \in 1..Len(process_list) : /\ process_list[k] \in DOMAIN attached'
                                          /\ process_groups[k] = ListedGroup(process_list[k])
      BY <1>2, <1>3, <1>5, <1>8 DEF ListInv, Listed
    <3>2. QED
      BY <1>3, <2>1, <3>1 DEF ListedGroup
  <2>4. Listed(process_list, process_groups)'
    BY <1>2, <1>3, <2>1, <2>2, <2>3 DEF Listed
  <2>5. QED
    BY <1>1, <1>2, <1>3, <1>4, <2>4 DEF ListInv
<1>9. CASE n # 0
  <2>1. n \in 1..Len(process_list) /\ n \in 1..Len(process_groups) /\ process_list[n] = p
    BY <1>2, <1>5, <1>9
  <2>2. /\ process_list' \in Seq(Pids) /\ Len(process_list') = Len(process_list) - 1
        /\ \A k \in 1..Len(process_list') :
             process_list'[k] = IF k < n THEN process_list[k] ELSE process_list[k + 1]
    <3>1. process_list' = RemoveAt(process_list, n)
      BY <1>6, <1>9
    <3>2. LET r == RemoveAt(process_list, n) IN
          /\ r \in Seq(Pids) /\ Len(r) = Len(process_list) - 1
          /\ \A k \in 1..Len(r) :
               r[k] = IF k < n THEN process_list[k] ELSE process_list[k + 1]
      BY <1>2, <2>1, Removed, Zenon
    <3>3. QED
      BY <3>1, <3>2, Zenon
  <2>3. /\ process_groups' \in Seq(Groups \cup {0}) /\ Len(process_groups') = Len(process_list')
        /\ \A k \in 1..Len(process_list') :
             process_groups'[k] = IF k < n THEN process_groups[k] ELSE process_groups[k + 1]
    <3>1. process_groups' = RemoveAt(process_groups, n)
      BY <1>6, <1>9
    <3>2. LET r == RemoveAt(process_groups, n) IN
          /\ r \in Seq(Groups \cup {0}) /\ Len(r) = Len(process_groups) - 1
          /\ \A k \in 1..Len(r) :
               r[k] = IF k < n THEN process_groups[k] ELSE process_groups[k + 1]
      BY <1>2, <2>1, Removed, Zenon
    <3>3. Len(process_groups') = Len(process_list')
      BY <1>2, <2>2, <3>1, <3>2, Zenon
    <3>4. QED
      BY <3>1, <3>2, <3>3, Zenon
  <2> DEFINE Was(k) == IF k < n THEN k ELSE k + 1
  <2>4. \A k \in 1..Len(process_list') :
          /\ Was(k) \in 1..Len(process_list) /\ Was(k) # n
          /\ process_list'[k] = process_list[Was(k)] /\ process_groups'[k] = process_groups[Was(k)]
    <3>1. SUFFICES ASSUME NEW k \in 1..Len(process_list')
                   PROVE  /\ Was(k) \in 1..Len(process_list) /\ Was(k) # n
                          /\ process_list'[k] = process_list[Was(k)]
                          /\ process_groups'[k] = process_groups[Was(k)]
      OBVIOUS
    <3>2. CASE k < n
      <4>1. Was(k) = k
        BY <3>2
      <4>2. k \in 1..Len(process_list) /\ k # n
        BY <1>2, <2>1, <2>2, <3>2
      <4>3. process_list'[k] = process_list[k] /\ process_groups'[k] = process_groups[k]
        BY <2>2, <2>3, <3>1, <3>2, Zenon
      <4>4. QED
        BY <4>1, <4>2, <4>3, Zenon
    <3>3. CASE ~(k < n)
      <4>1. Was(k) = k + 1
        BY <3>3
      <4>2. k + 1 \in 1..Len(process_list) /\ k + 1 # n
        BY <1>2, <2>1, <2>2, <3>3
      <4>3. process_list'[k] = process_list[k + 1] /\ process_groups'[k] = process_groups[k + 1]
        BY <2>2, <2>3, <3>1, <3>3, Zenon
      <4>4. QED
        BY <4>1, <4>2, <4>3, Zenon
    <3>4. QED
      BY <3>2, <3>3
  <2>5. \A j, k \in 1..Len(process_list') : Was(j) = Was(k) => j = k
    BY <1>2, <2>1, <2>2
  <2>6. \A k \in 1..Len(process_list) \ {n} : \E j \in 1..Len(process_list') : Was(j) = k
    <3>1. SUFFICES ASSUME NEW k \in 1..Len(process_list) \ {n}
                   PROVE  \E j \in 1..Len(process_list') : Was(j) = k
      OBVIOUS
    <3>2. CASE k < n
      <4>1. k \in 1..Len(process_list') /\ Was(k) = k
        BY <1>2, <2>1, <2>2, <3>1, <3>2
      <4>2. QED
        BY <4>1
    <3>3. CASE ~(k < n)
      <4>1. k - 1 \in 1..Len(process_list') /\ Was(k - 1) = k
        BY <1>2, <2>1, <2>2, <3>1, <3>3
      <4>2. QED
        BY <4>1
    <3>4. QED
      BY <3>2, <3>3
  <2> HIDE DEF Was
  <2>7. \A j, k \in 1..Len(process_list') : process_list'[j] = process_list'[k] => j = k
    BY <1>2, <2>4, <2>5
  <2>8. \A q \in Pids : q \in DOMAIN attached' \ unlisted' <=>
                          \E k \in 1..Len(process_list') : process_list'[k] = q
    <3>1. SUFFICES ASSUME NEW q \in Pids
                   PROVE  (q # p /\ \E k \in 1..Len(process_list) : process_list[k] = q) <=>
                            \E k \in 1..Len(process_list') : process_list'[k] = q
      BY <1>7 DEF ListInv, Listed
    <3>2. ASSUME q # p, NEW k \in 1..Len(process_list), process_list[k] = q
          PROVE  \E j \in 1..Len(process_list') : process_list'[j] = q
      BY <2>1, <2>4, <2>6, <3>2
    <3>3. ASSUME NEW k \in 1..Len(process_list'), process_list'[k] = q
          PROVE  q # p /\ \E j \in 1..Len(process_list) : process_list[j] = q
      BY <1>2, <2>1, <2>4, <3>3
    <3>4. QED
      BY <3>2, <3>3
  <2>9. \A k \in 1..Len(process_list') : process_groups'[k] = ListedGroup(process_list[k])'
    <3>1. SUFFICES ASSUME NEW k \in 1..Len(process_list')
                   PROVE  process_groups'[k] = ListedGroup(process_list[k])'
      OBVIOUS
    <3>2. /\ process_groups[Was(k)] = ListedGroup(process_list[Was(k)])
          /\ process_list[Was(k)] \in DOMAIN attached /\ process_list[Was(k)] # p
      BY <1>2, <2>1, <2>4 DEF ListInv, Listed
    <3>3. process_list'[k] = process_list[Was(k)] /\ process_groups'[k] = process_groups[Was(k)]
      BY <2>4
    <3>4. QED
      BY <1>3, <3>2, <3>3 DEF ListedGroup
  <2>10. Listed(process_list, process_groups)'
    BY <2>2, <2>3, <2>7, <2>8, <2>9 DEF Listed
  <2>11. QED
    BY <1>1, <1>2, <1>3, <1>4, <2>10 DEF ListInv
<1>10. QED
  BY <1>8, <1>9

LEMMA ListStep == ListInv /\ [ObjectsNext]_objects_vars => ListInv'
<1> SUFFICES ASSUME ListInv, [ObjectsNext]_objects_vars PROVE ListInv'
  OBVIOUS
<1>1. CASE UNCHANGED list_vars
  <2>1. /\ attached' = attached /\ unlisted' = unlisted /\ groupless' = groupless
        /\ process_list' = process_list /\ process_groups' = process_groups
        /\ snapshot' = snapshot /\ snapshot_groups' = snapshot_groups
    BY <1>1 DEF list_vars
  <2>2. \A q : ListedGroup(q)' = ListedGroup(q)
    BY <2>1 DEF ListedGroup
  <2>3. Listed(process_list, process_groups)' <=> Listed(process_list, process_groups)
    BY <2>1, <2>2 DEF Listed
  <2>4. QED
    BY <2>1, <2>3 DEF ListInv
<1>2. CASE send_ctrl_event
  BY <1>1, <1>2 DEF send_ctrl_event
<1>3. CASE handle_create_object \/ handle_close_object
  BY <1>1, <1>3 DEF handle_create_object, handle_close_object
<1>4. CASE UNCHANGED objects_vars
  BY <1>1, <1>4 DEF objects_vars, list_vars
<1>5. QED
  BY <1>2, <1>3, <1>4, ListConnect, ListDisconnect DEF ObjectsNext

\* message_router::sync_process_snapshot: the API and Ctrl+C find every attached process but
\* those that came to a full list or with the COM server, once and with its own group, or
\* with 0 where none was read, in whatever order processes come and go.
THEOREM ControlEventsFindTheirGroup == ObjectsSpec => []SnapshotCurrent
<1>1. ListInv => SnapshotCurrent
  <2>1. SUFFICES ASSUME ListInv PROVE SnapshotCurrent
    OBVIOUS
  <2>2. /\ snapshot \in Seq(Pids)
        /\ \A j, k \in 1..Len(snapshot) : snapshot[j] = snapshot[k] => j = k
        /\ \A p \in Pids : p \in DOMAIN attached \ unlisted <=>
                             \E k \in 1..Len(snapshot) : snapshot[k] = p
        /\ \A k \in 1..Len(snapshot) : snapshot_groups[k] = ListedGroup(snapshot[k])
        /\ DOMAIN attached \subseteq Pids /\ DOMAIN snapshot = 1..Len(snapshot)
    BY <2>1 DEF ListInv, Listed
  <2>3. ToSet(snapshot) = DOMAIN attached \ unlisted
    BY <2>2 DEF ToSet
  <2>4. Len(snapshot) = Cardinality(ToSet(snapshot))
    <3>1. snapshot \in Bijection(1..Len(snapshot), ToSet(snapshot))
      BY <2>2 DEF ToSet, Bijection, Injection, Surjection, IsInjective
    <3>2. IsFiniteSet(1..Len(snapshot)) /\ Cardinality(1..Len(snapshot)) = Len(snapshot)
      <4>1. Len(snapshot) \in Nat /\ Len(snapshot) \in Int /\ 1 \in Int
        BY <2>2
      <4>2. /\ IsFiniteSet(1..Len(snapshot))
            /\ Cardinality(1..Len(snapshot)) =
                 IF 1 > Len(snapshot) THEN 0 ELSE Len(snapshot) - 1 + 1
        BY <4>1, FS_Interval
      <4>3. QED
        BY <4>1, <4>2
    <3>3. QED
      BY <3>1, <3>2, FS_Bijection DEF ExistsBijection
  <2>5. QED
    BY <2>2, <2>3, <2>4 DEF SnapshotCurrent, ListedGroup
<1>2. QED
  BY <1>1, ListInit, ListStep, PTL DEF ObjectsSpec

-----------------------------------------------------------------------------
(* The handles *)

LEMMA HandleInit == ObjectsAssumption /\ ObjectsInit => HandleInv
<1> SUFFICES ASSUME ObjectsAssumption, ObjectsInit PROVE HandleInv
  OBVIOUS
<1>1. input_id = 0 /\ output_id = 0 /\ alternate_output_id = 0 /\ open_objects = {}
  BY DEF ObjectsInit
<1>2. CASE NoClientYet
  BY <1>1, <1>2 DEF NoClientYet, HandleInv, Latest, None
<1>3. CASE ClientBefore
  <2>1. PICK i \in HandleValues, o \in HandleValues :
          /\ i # o /\ condrv_input = i /\ condrv_output = o
          /\ opened = With(With(None, i, "input"), o, "output")
    BY <1>3 DEF ClientBefore
  <2>2. DOMAIN opened = {i, o} /\ opened[i] = "input" /\ opened[o] = "output"
    BY <2>1 DEF With, None
  <2>3. i # 0 /\ o # 0
    BY DEF ObjectsAssumption
  <2>4. QED
    BY <1>1, <2>1, <2>2, <2>3 DEF HandleInv, Latest
<1>4. QED
  BY <1>2, <1>3 DEF ObjectsInit

\* The first connection opens the console's own handles, when nothing else is open.
LEMMA HandleConnect == ObjectsAssumption /\ HandleInv /\ handle_connect => HandleInv'
<1> SUFFICES ASSUME ObjectsAssumption, HandleInv, handle_connect PROVE HandleInv'
  OBVIOUS
<1>1. UNCHANGED <<input_id, output_id, alternate_output_id, open_objects>>
  BY DEF handle_connect
<1>2. CASE condrv_input # 0
  <2>1. UNCHANGED <<condrv_input, condrv_output, opened>>
    BY <1>2 DEF handle_connect
  <2>2. QED
    BY <1>1, <2>1 DEF HandleInv, Latest
<1>3. CASE condrv_input = 0
  <2>1. PICK i \in FreeHandles, o \in FreeHandles :
          /\ i # o /\ condrv_input' = i /\ condrv_output' = o
          /\ opened' = With(With(opened, i, "input"), o, "output")
    BY <1>3 DEF handle_connect
  <2>2. DOMAIN opened = {} /\ open_objects = {}
    BY <1>3 DEF HandleInv
  <2>3. DOMAIN opened' = {i, o} /\ opened'[i] = "input" /\ opened'[o] = "output"
    BY <2>1, <2>2 DEF With
  <2>4. i \in HandleValues /\ o \in HandleValues /\ i # 0 /\ o # 0
    BY <2>1 DEF FreeHandles, ObjectsAssumption
  <2>5. input_id = 0 /\ output_id = 0 /\ alternate_output_id = 0
    BY <2>2 DEF HandleInv, Latest
  <2>6. QED
    BY <1>1, <2>1, <2>2, <2>3, <2>4, <2>5 DEF HandleInv, Latest
<1>4. QED
  BY <1>2, <1>3

\* A new object is the latest of its kind; its handle value may be that of a closed one.
LEMMA HandleCreate == ObjectsAssumption /\ HandleInv /\ handle_create_object => HandleInv'
<1> SUFFICES ASSUME ObjectsAssumption, HandleInv, handle_create_object PROVE HandleInv'
  OBVIOUS
<1>1. PICK k \in ObjectKinds, id \in FreeHandles :
        /\ condrv_input # 0
        /\ input_id'  = IF k = "input" THEN id ELSE input_id
        /\ output_id' = IF k = "output" THEN id ELSE output_id
        /\ alternate_output_id' = IF k = "alternate_output" THEN id ELSE alternate_output_id
        /\ open_objects' = open_objects \cup {[id |-> id, kind |-> k]}
        /\ opened' = With(opened, id, k)
        /\ UNCHANGED <<condrv_input, condrv_output>>
  BY DEF handle_create_object
<1>2. id \in HandleValues /\ id \notin DOMAIN opened /\ id # 0
  BY <1>1 DEF FreeHandles, ObjectsAssumption
<1>3. /\ DOMAIN opened' = DOMAIN opened \cup {id} /\ opened'[id] = k
      /\ \A z \in DOMAIN opened : opened'[z] = opened[z]
  BY <1>1, <1>2 DEF With
<1>4. ASSUME NEW h, NEW j, Latest(h, j) PROVE Latest(h, j)'
  BY <1>3, <1>4 DEF Latest
<1>5. /\ DOMAIN opened' \subseteq HandleValues
      /\ \A o \in open_objects' : o.id \in DOMAIN opened' /\ o.kind = opened'[o.id]
  BY <1>1, <1>2, <1>3 DEF HandleInv
<1>6. /\ Latest(input_id, "input")' /\ Latest(output_id, "output")'
      /\ Latest(alternate_output_id, "alternate_output")'
  BY <1>1, <1>3 DEF HandleInv, Latest
<1>7. Latest(condrv_input, "input")' /\ Latest(condrv_output, "output")' /\ condrv_input' # 0
  BY <1>1, <1>3 DEF HandleInv, Latest
<1>8. \A z \in DOMAIN opened' :
        z \in {condrv_input', condrv_output'} \/ \E o \in open_objects' : o.id = z
  <2>1. [id |-> id, kind |-> k] \in open_objects' /\ open_objects \subseteq open_objects'
    BY <1>1
  <2>2. \E o \in open_objects' : o.id = id
    BY <2>1
  <2>3. \A z \in DOMAIN opened :
          z \in {condrv_input', condrv_output'} \/ \E o \in open_objects' : o.id = z
    BY <1>1, <2>1 DEF HandleInv
  <2>4. QED
    BY <1>3, <2>2, <2>3
<1>9. QED
  BY <1>5, <1>6, <1>7, <1>8 DEF HandleInv

\* A closed handle is forgotten wherever it is named; the console's own stay open.
LEMMA HandleClose == HandleInv /\ handle_close_object => HandleInv'
<1> SUFFICES ASSUME HandleInv, handle_close_object PROVE HandleInv'
  OBVIOUS
<1>1. PICK id \in DOMAIN opened :
        /\ input_id'  = IF id = input_id THEN 0 ELSE input_id
        /\ output_id' = IF id = output_id THEN 0 ELSE output_id
        /\ alternate_output_id' = IF id = alternate_output_id THEN 0 ELSE alternate_output_id
        /\ open_objects' = {o \in open_objects : o.id # id}
        /\ opened' = IF id \in {condrv_input, condrv_output} THEN opened ELSE Without(opened, id)
        /\ UNCHANGED <<condrv_input, condrv_output>>
  BY DEF handle_close_object
<1>2. /\ DOMAIN opened' = DOMAIN opened \ ({id} \ {condrv_input, condrv_output})
      /\ \A z \in DOMAIN opened' : opened'[z] = opened[z]
  BY <1>1 DEF Without
<1>3. /\ DOMAIN opened' \subseteq HandleValues
      /\ \A o \in open_objects' : o.id \in DOMAIN opened' /\ o.kind = opened'[o.id]
  BY <1>1, <1>2 DEF HandleInv
<1>4. /\ Latest(input_id, "input")' /\ Latest(output_id, "output")'
      /\ Latest(alternate_output_id, "alternate_output")'
  BY <1>1, <1>2 DEF HandleInv, Latest
<1>5. /\ Latest(condrv_input, "input")' /\ Latest(condrv_output, "output")'
      /\ condrv_input' = 0 => DOMAIN opened' = {} /\ condrv_output' = 0
  BY <1>1, <1>2 DEF HandleInv, Latest
<1>6. \A z \in DOMAIN opened' :
        z \in {condrv_input', condrv_output'} \/ \E o \in open_objects' : o.id = z
  BY <1>1, <1>2 DEF HandleInv
<1>7. QED
  BY <1>3, <1>4, <1>5, <1>6 DEF HandleInv

LEMMA HandleStep == ObjectsAssumption /\ HandleInv /\ [ObjectsNext]_objects_vars => HandleInv'
<1>1. ASSUME HandleInv, UNCHANGED object_vars PROVE HandleInv'
  BY <1>1 DEF HandleInv, Latest, object_vars
<1>2. QED
  BY <1>1, HandleConnect, HandleCreate, HandleClose
  DEF ObjectsNext, send_ctrl_event, handle_disconnect, objects_vars

\* io_state::kind_from_object: a call on an open handle is routed by the kind the handle was
\* opened with, although handle values are used again and the latest ids are reset.
THEOREM HandlesKeepTheirKind == ObjectsAssumption => (ObjectsSpec => []KindKept)
<1> SUFFICES ASSUME ObjectsAssumption PROVE ObjectsSpec => []KindKept
  OBVIOUS
<1>1. HandleInv => KindKept
  <2>1. SUFFICES ASSUME HandleInv, NEW id \in DOMAIN opened
                 PROVE  kind_from_object(id) = opened[id]
    BY DEF KindKept
  <2>2. id # 0
    BY <2>1 DEF HandleInv, ObjectsAssumption
  <2>3. /\ id \in {input_id, condrv_input} => opened[id] = "input"
        /\ id \in {output_id, condrv_output} => opened[id] = "output"
        /\ id = alternate_output_id => opened[id] = "alternate_output"
    BY <2>1, <2>2 DEF HandleInv, Latest
  <2> DEFINE entry == CHOOSE o \in open_objects : o.id = id
  <2>4. (\E o \in open_objects : o.id = id) => entry.kind = opened[id]
    <3>1. SUFFICES ASSUME \E o \in open_objects : o.id = id PROVE entry.kind = opened[id]
      OBVIOUS
    <3>2. entry \in open_objects /\ entry.id = id
      BY <3>1
    <3>3. QED
      BY <2>1, <3>2 DEF HandleInv
  <2>5. id \in {condrv_input, condrv_output} \/ \E o \in open_objects : o.id = id
    BY <2>1 DEF HandleInv
  <2>6. QED
    BY <2>2, <2>3, <2>4, <2>5 DEF kind_from_object
<1>2. QED
  BY <1>1, HandleInit, HandleStep, PTL DEF ObjectsSpec

-----------------------------------------------------------------------------
(* LineEditor: the inductive invariant *)

Characters == Chars \cup {" "}
Lines == {s \in Seq(Characters) : Len(s) <= MaxLine}
Cells == 0..(RowColumns - 1)
Terminals == [row : [Cells -> Characters], x : Nat]

EditorTypes ==
  /\ reading \in BOOLEAN /\ valid \in BOOLEAN /\ clean \in BOOLEAN
  /\ cooked \in Lines /\ saved \in Lines /\ at \in 0..Len(cooked)
  /\ from \in Nat /\ upto \in Nat /\ column \in Nat
  /\ commands \in Seq(Lines) /\ capacity \in Nat /\ browse \in 0..Len(commands)
  /\ terminal \in Terminals

\* Nothing is left of a line that is finished; a line starts where output ended.
LinePlaces ==
  /\ ~reading => cooked = <<>> /\ at = 0 /\ browse = NoSelection
  /\ reading \/ clean => from \in Prompts

\* Outside the history the line, while browsing the saved one, is the user's.
DraftHeld == reading => draft = IF browse = NoSelection THEN cooked ELSE saved

NoRepeats(s) == \A i \in 2..Len(s) : s[i] # s[i - 1]
HistoryInv == Len(commands) <= capacity /\ NoRepeats(commands)

\* A row that shows the line l from column f on, and nothing behind it.
Shows(row, f, l) ==
  \A c \in f..(RowColumns - 1) : row[c] = IF c < f + Len(l) THEN l[c - f + 1] ELSE " "

\* Also between two reads, when the line is empty.
RowInv ==
  valid /\ clean =>
    /\ Shows(terminal.row, from, cooked)
    /\ terminal.x = column /\ column = from + at /\ upto = from + Len(cooked)

EditorInv == EditorTypes /\ LinePlaces /\ DraftHeld /\ HistoryInv /\ RowInv

-----------------------------------------------------------------------------
(* Lemmas about lines *)

LEMMA PrefixIs ==
  ASSUME NEW S, NEW s \in Seq(S), NEW n \in 0..Len(s)
  PROVE  /\ SubSeq(s, 1, n) \in Seq(S) /\ Len(SubSeq(s, 1, n)) = n
         /\ \A i \in 1..n : SubSeq(s, 1, n)[i] = s[i]
<1>1. n \in Nat /\ 1 \in Int /\ n \in Int /\ \A i \in 1..n : s[i] \in S
  OBVIOUS
<1>2. /\ SubSeq(s, 1, n) \in Seq(S) /\ Len(SubSeq(s, 1, n)) = IF 1 <= n THEN n - 1 + 1 ELSE 0
      /\ \A i \in 1..(n - 1 + 1) : SubSeq(s, 1, n)[i] = s[1 + i - 1]
  BY <1>1, SubSeqProperties
<1>3. QED
  BY <1>1, <1>2

LEMMA SuffixIs ==
  ASSUME NEW S, NEW s \in Seq(S), NEW n \in 0..Len(s)
  PROVE  /\ SubSeq(s, n + 1, Len(s)) \in Seq(S) /\ Len(SubSeq(s, n + 1, Len(s))) = Len(s) - n
         /\ \A i \in 1..(Len(s) - n) : SubSeq(s, n + 1, Len(s))[i] = s[n + i]
<1>1. n \in Nat /\ Len(s) \in Nat /\ n + 1 \in Int /\ \A i \in (n + 1)..Len(s) : s[i] \in S
  OBVIOUS
<1>2. /\ SubSeq(s, n + 1, Len(s)) \in Seq(S)
      /\ Len(SubSeq(s, n + 1, Len(s))) = IF n + 1 <= Len(s) THEN Len(s) - (n + 1) + 1 ELSE 0
      /\ \A i \in 1..(Len(s) - (n + 1) + 1) : SubSeq(s, n + 1, Len(s))[i] = s[n + 1 + i - 1]
  BY <1>1, SubSeqProperties
<1>3. \A i \in 1..(Len(s) - n) : n + 1 + i - 1 = n + i /\ i \in 1..(Len(s) - (n + 1) + 1)
  BY <1>1
<1>4. QED
  BY <1>1, <1>2, <1>3

LEMMA ConcatIs ==
  ASSUME NEW S, NEW s \in Seq(S), NEW t \in Seq(S)
  PROVE  /\ s \o t \in Seq(S) /\ Len(s \o t) = Len(s) + Len(t)
         /\ \A i \in 1..Len(s) : (s \o t)[i] = s[i]
         /\ \A i \in 1..Len(t) : (s \o t)[Len(s) + i] = t[i]
<1>1. Len(s) \in Nat /\ Len(t) \in Nat
  OBVIOUS
<1>2. /\ s \o t \in Seq(S) /\ Len(s \o t) = Len(s) + Len(t)
      /\ \A i \in 1 .. Len(s) + Len(t) :
            (s \o t)[i] = IF i <= Len(s) THEN s[i] ELSE t[i - Len(s)]
  BY ConcatProperties
<1>3. ASSUME NEW i \in 1..Len(s) PROVE (s \o t)[i] = s[i]
  BY <1>1, <1>2
<1>4. ASSUME NEW i \in 1..Len(t) PROVE (s \o t)[Len(s) + i] = t[i]
  <2>1. Len(s) + i \in 1..Len(s) + Len(t) /\ ~(Len(s) + i <= Len(s)) /\ Len(s) + i - Len(s) = i
    BY <1>1
  <2>2. QED
    BY <1>2, <2>1
<1>5. QED
  BY <1>2, <1>3, <1>4

\* An insertion moves what is behind it by one.
LEMMA Inserted ==
  ASSUME NEW S, NEW s \in Seq(S), NEW p \in 0..Len(s), NEW c \in S
  PROVE  /\ InsertAt(s, p + 1, c) \in Seq(S) /\ Len(InsertAt(s, p + 1, c)) = Len(s) + 1
         /\ \A k \in 1..p : InsertAt(s, p + 1, c)[k] = s[k]
         /\ InsertAt(s, p + 1, c)[p + 1] = c
         /\ \A k \in 1..(Len(s) - p) : InsertAt(s, p + 1, c)[p + 1 + k] = s[p + k]
<1> DEFINE a == SubSeq(s, 1, p)
           b == SubSeq(s, p + 1, Len(s))
           one == <<c>>
<1>1. Len(s) \in Nat /\ p \in Nat
  OBVIOUS
<1>2. a \in Seq(S) /\ Len(a) = p /\ \A i \in 1..p : a[i] = s[i]
  BY PrefixIs
<1>3. b \in Seq(S) /\ Len(b) = Len(s) - p /\ \A i \in 1..(Len(s) - p) : b[i] = s[p + i]
  BY SuffixIs
<1>4. one \in Seq(S) /\ Len(one) = 1 /\ one[1] = c
  OBVIOUS
<1>5. InsertAt(s, p + 1, c) = (a \o one) \o b
  <2>1. (p + 1) - 1 = p
    BY <1>1
  <2>2. InsertAt(s, p + 1, c) = SubSeq(s, 1, (p + 1) - 1) \o <<c>> \o SubSeq(s, p + 1, Len(s))
    BY Zenon DEF InsertAt
  <2>3. QED
    BY <2>1, <2>2, Zenon
<1> HIDE DEF a, b, one
<1>6. PICK u : u = a \o one
  OBVIOUS
<1>7. /\ u \in Seq(S) /\ Len(u) = p + 1 /\ u[p + 1] = c
      /\ \A i \in 1..p : u[i] = a[i]
  <2>1. /\ u \in Seq(S) /\ Len(u) = Len(a) + Len(one)
        /\ \A i \in 1..Len(a) : u[i] = a[i]
        /\ \A i \in 1..Len(one) : u[Len(a) + i] = one[i]
    <3>1. a \in Seq(S) /\ one \in Seq(S)
      BY <1>2, <1>4
    <3>2. QED
      BY <3>1, <1>6, ConcatIs
  <2>2. QED
    BY <1>1, <1>2, <1>4, <2>1
<1>8. PICK v : v = u \o b
  OBVIOUS
<1>9. /\ v \in Seq(S) /\ Len(v) = (p + 1) + (Len(s) - p)
      /\ \A i \in 1..(p + 1) : v[i] = u[i]
      /\ \A i \in 1..(Len(s) - p) : v[(p + 1) + i] = b[i]
  <2>1. /\ v \in Seq(S) /\ Len(v) = Len(u) + Len(b)
        /\ \A i \in 1..Len(u) : v[i] = u[i]
        /\ \A i \in 1..Len(b) : v[Len(u) + i] = b[i]
    <3>1. u \in Seq(S) /\ b \in Seq(S)
      BY <1>3, <1>7
    <3>2. QED
      BY <3>1, <1>8, ConcatIs
  <2>2. QED
    BY <1>3, <1>7, <2>1, Zenon
<1>10. v = InsertAt(s, p + 1, c)
  BY <1>5, <1>6, <1>8, Zenon
<1>11. /\ (p + 1) + (Len(s) - p) = Len(s) + 1 /\ p + 1 \in 1..(p + 1)
       /\ \A k \in 1..p : k \in 1..(p + 1)
  BY <1>1
<1>12. v \in Seq(S) /\ Len(v) = Len(s) + 1 /\ v[p + 1] = c
  BY <1>7, <1>9, <1>11, Zenon
<1>13. \A k \in 1..p : v[k] = s[k]
  BY <1>2, <1>7, <1>9, <1>11, Zenon
<1>14. \A k \in 1..(Len(s) - p) : v[p + 1 + k] = s[p + k]
  BY <1>3, <1>9, Zenon
<1>15. QED
  BY <1>10, <1>12, <1>13, <1>14, Zenon

\* A removal moves what is behind it back.
LEMMA RemovedOne ==
  ASSUME NEW S, NEW s \in Seq(S), NEW p \in 0..(Len(s) - 1)
  PROVE  /\ RemoveAt(s, p + 1) \in Seq(S) /\ Len(RemoveAt(s, p + 1)) = Len(s) - 1
         /\ \A k \in 1..p : RemoveAt(s, p + 1)[k] = s[k]
         /\ \A k \in 1..(Len(s) - 1 - p) : RemoveAt(s, p + 1)[p + k] = s[p + 1 + k]
<1> DEFINE a == SubSeq(s, 1, p)
           b == SubSeq(s, (p + 1) + 1, Len(s))
<1>1. Len(s) \in Nat /\ p \in Nat /\ p \in 0..Len(s) /\ p + 1 \in 0..Len(s)
  OBVIOUS
<1>2. a \in Seq(S) /\ Len(a) = p /\ \A i \in 1..p : a[i] = s[i]
  BY <1>1, PrefixIs
<1>3. /\ b \in Seq(S) /\ Len(b) = Len(s) - (p + 1)
      /\ \A i \in 1..(Len(s) - (p + 1)) : b[i] = s[(p + 1) + i]
  BY <1>1, SuffixIs
<1>4. RemoveAt(s, p + 1) = a \o b
  <2>1. (p + 1) - 1 = p
    BY <1>1
  <2>2. RemoveAt(s, p + 1) = SubSeq(s, 1, (p + 1) - 1) \o SubSeq(s, (p + 1) + 1, Len(s))
    BY Zenon DEF RemoveAt
  <2>3. QED
    BY <2>1, <2>2, Zenon
<1> HIDE DEF a, b
<1>5. /\ a \o b \in Seq(S) /\ Len(a \o b) = p + (Len(s) - (p + 1))
      /\ \A i \in 1..p : (a \o b)[i] = a[i]
      /\ \A i \in 1..(Len(s) - (p + 1)) : (a \o b)[p + i] = b[i]
  <2>1. a \in Seq(S) /\ b \in Seq(S)
    BY <1>2, <1>3
  <2>2. /\ a \o b \in Seq(S) /\ Len(a \o b) = Len(a) + Len(b)
        /\ \A i \in 1..Len(a) : (a \o b)[i] = a[i]
        /\ \A i \in 1..Len(b) : (a \o b)[Len(a) + i] = b[i]
    BY <2>1, ConcatIs
  <2>3. Len(a) = p /\ Len(b) = Len(s) - (p + 1)
    BY <1>2, <1>3
  <2>4. QED
    BY <2>2, <2>3, Zenon
<1>6. Len(s) - (p + 1) = Len(s) - 1 - p /\ p + (Len(s) - 1 - p) = Len(s) - 1
  BY <1>1
<1>7. \A k \in 1..(Len(s) - 1 - p) :
        k \in 1..(Len(s) - (p + 1)) /\ p + 1 + k = (p + 1) + k
  BY <1>1
<1>8. \A k \in 1..p : (a \o b)[k] = s[k]
  BY <1>2, <1>5, Zenon
<1>9. \A k \in 1..(Len(s) - 1 - p) : (a \o b)[p + k] = s[p + 1 + k]
  BY <1>3, <1>5, <1>7, Zenon
<1>10. Len(a \o b) = Len(s) - 1
  BY <1>5, <1>6, Zenon
<1>11. QED
  BY <1>4, <1>5, <1>8, <1>9, <1>10, Zenon

-----------------------------------------------------------------------------
(* Lemmas about the row *)

LEMMA ColumnsType == RowColumns \in Nat /\ MaxLine \in Nat
BY LineEditorAssumption, Zenon

LEMMA PutIs ==
  ASSUME NEW t \in Terminals, NEW s \in Seq(Characters)
  PROVE  /\ Put(t, s) \in Terminals /\ Put(t, s).x = t.x + Len(s)
         /\ \A c \in Cells : Put(t, s).row[c] =
              IF c \in t.x..(t.x + Len(s) - 1) THEN s[c - t.x + 1] ELSE t.row[c]
<1>1. t.x \in Nat /\ t.row \in [Cells -> Characters] /\ Len(s) \in Nat
  BY DEF Terminals
<1> DEFINE r == [c \in Cells |-> IF c \in t.x..(t.x + Len(s) - 1) THEN s[c - t.x + 1] ELSE t.row[c]]
<1>2. r \in [Cells -> Characters]
  <2>1. ASSUME NEW c \in Cells
        PROVE  (IF c \in t.x..(t.x + Len(s) - 1) THEN s[c - t.x + 1] ELSE t.row[c]) \in Characters
    <3>1. CASE c \in t.x..(t.x + Len(s) - 1)
      <4>1. c - t.x + 1 \in 1..Len(s)
        BY <1>1, <3>1
      <4>2. QED
        BY <3>1, <4>1
    <3>2. CASE c \notin t.x..(t.x + Len(s) - 1)
      BY <1>1, <3>2
    <3>3. QED
      BY <3>1, <3>2
  <2>2. QED
    BY <2>1
<1>3. Put(t, s) = [row |-> r, x |-> t.x + Len(s)]
  BY DEF Put, Cells
<1>4. \A c \in Cells : r[c] = IF c \in t.x..(t.x + Len(s) - 1) THEN s[c - t.x + 1] ELSE t.row[c]
  OBVIOUS
<1>5. t.x + Len(s) \in Nat
  BY <1>1
<1> HIDE DEF r
<1>6. QED
  BY <1>2, <1>3, <1>4, <1>5 DEF Terminals

LEMMA ToColumnIs ==
  ASSUME NEW t \in Terminals, NEW x \in Nat
  PROVE  ToColumn(t, x) \in Terminals /\ ToColumn(t, x).row = t.row /\ ToColumn(t, x).x = x
BY DEF Terminals, ToColumn

LEMMA LeftIs ==
  ASSUME NEW t \in Terminals
  PROVE  /\ Left(t) \in Terminals /\ Left(t).row = t.row
         /\ t.x > 0 => Left(t).x = t.x - 1
BY DEF Terminals, Left

LEMMA RowSet ==
  ASSUME NEW t \in Terminals, NEW r \in [Cells -> Characters]
  PROVE  /\ [t EXCEPT !.row = r] = [row |-> r, x |-> t.x]
         /\ [row |-> r, x |-> t.x] \in Terminals
BY DEF Terminals

LEMMA NextCell ==
  ASSUME NEW c \in Cells, c # RowColumns - 1
  PROVE  c + 1 \in Cells
<1>1. RowColumns \in Nat
  BY LineEditorAssumption, Zenon
<1>2. QED
  BY <1>1 DEF Cells

LEMMA DeleteCharIs ==
  ASSUME NEW t \in Terminals
  PROVE  /\ DeleteChar(t) \in Terminals /\ DeleteChar(t).x = t.x
         /\ \A c \in Cells : DeleteChar(t).row[c] =
              IF c < t.x THEN t.row[c] ELSE IF c = RowColumns - 1 THEN " " ELSE t.row[c + 1]
<1>1. t.x \in Nat /\ t.row \in [Cells -> Characters] /\ RowColumns \in Nat /\ " " \in Characters
  BY LineEditorAssumption DEF Terminals, Characters
<1> DEFINE r == [c \in Cells |->
              IF c < t.x THEN t.row[c] ELSE IF c = RowColumns - 1 THEN " " ELSE t.row[c + 1]]
<1>2. r \in [Cells -> Characters]
  <2>1. ASSUME NEW c \in Cells, c # RowColumns - 1 PROVE t.row[c + 1] \in Characters
    <3>1. c + 1 \in Cells
      BY <2>1, NextCell, Zenon
    <3>2. QED
      BY <1>1, <3>1
  <2>2. QED
    BY <1>1, <2>1
<1>3. DeleteChar(t) = [row |-> r, x |-> t.x] /\ [row |-> r, x |-> t.x] \in Terminals
  <2>1. DeleteChar(t) = [t EXCEPT !.row = r]
    BY Zenon DEF DeleteChar, Cells
  <2>2. QED
    BY <1>2, <2>1, RowSet, Zenon
<1>4. \A c \in Cells : r[c] =
        IF c < t.x THEN t.row[c] ELSE IF c = RowColumns - 1 THEN " " ELSE t.row[c + 1]
  OBVIOUS
<1> HIDE DEF r
<1>5. DeleteChar(t) \in Terminals
  BY <1>3, Zenon
<1>6. DeleteChar(t).x = t.x
  BY <1>3
<1>7. DeleteChar(t).row = r
  BY <1>3
<1>8. QED
  BY <1>4, <1>5, <1>6, <1>7, Zenon

LEMMA EraseRightIs ==
  ASSUME NEW t \in Terminals
  PROVE  /\ EraseRight(t) \in Terminals /\ EraseRight(t).x = t.x
         /\ \A c \in Cells : EraseRight(t).row[c] = IF c < t.x THEN t.row[c] ELSE " "
<1>1. t.x \in Nat /\ t.row \in [Cells -> Characters] /\ " " \in Characters
  BY DEF Terminals, Characters
<1> DEFINE r == [c \in Cells |-> IF c < t.x THEN t.row[c] ELSE " "]
<1>2. r \in [Cells -> Characters]
  BY <1>1
<1>3. EraseRight(t) = [row |-> r, x |-> t.x] /\ [row |-> r, x |-> t.x] \in Terminals
  <2>1. EraseRight(t) = [t EXCEPT !.row = r]
    BY Zenon DEF EraseRight, Cells
  <2>2. QED
    BY <1>2, <2>1, RowSet, Zenon
<1>4. \A c \in Cells : r[c] = IF c < t.x THEN t.row[c] ELSE " "
  OBVIOUS
<1> HIDE DEF r
<1>5. EraseRight(t) \in Terminals
  BY <1>3, Zenon
<1>6. EraseRight(t).x = t.x
  BY <1>3
<1>7. EraseRight(t).row = r
  BY <1>3
<1>8. QED
  BY <1>4, <1>5, <1>6, <1>7, Zenon

LEMMA NewRowIs ==
  ASSUME NEW x \in Nat
  PROVE  /\ NewRow(x) \in Terminals /\ NewRow(x).x = x
         /\ \A c \in Cells : NewRow(x).row[c] = " "
BY DEF NewRow, Blank, Terminals, Cells, Characters

\* Shown up to its character q, and nothing behind its end.
ShowsBut(row, f, l, q) ==
  \A c \in f..(RowColumns - 1) : c < f + q \/ c >= f + Len(l) =>
    row[c] = IF c < f + Len(l) THEN l[c - f + 1] ELSE " "

\* repaint_suffix shows the rest of the line.
LEMMA SuffixPainted ==
  ASSUME NEW t \in Terminals, NEW f \in Nat, NEW l \in Seq(Characters), NEW q \in 0..Len(l),
         t.x = f + q, ShowsBut(t.row, f, l, q)
  PROVE  /\ Put(t, Suffix(l, q)) \in Terminals /\ Shows(Put(t, Suffix(l, q)).row, f, l)
         /\ Put(t, Suffix(l, q)).x = f + Len(l)
<1>1. RowColumns \in Nat /\ Len(l) \in Nat /\ q \in Nat /\ q <= Len(l)
  BY ColumnsType
<1>2. PICK s \in Seq(Characters) : /\ s = Suffix(l, q) /\ Len(s) = Len(l) - q
                                   /\ \A i \in 1..(Len(l) - q) : s[i] = l[q + i]
  <2>1. Suffix(l, q) = SubSeq(l, q + 1, Len(l))
    BY Zenon DEF Suffix
  <2>2. /\ SubSeq(l, q + 1, Len(l)) \in Seq(Characters)
        /\ Len(SubSeq(l, q + 1, Len(l))) = Len(l) - q
        /\ \A i \in 1..(Len(l) - q) : SubSeq(l, q + 1, Len(l))[i] = l[q + i]
    BY SuffixIs
  <2>3. QED
    BY <2>1, <2>2, Zenon
<1>2a. Len(s) = Len(l) - q
  BY <1>2, Zenon
<1>3. PICK u \in Terminals :
        /\ u = Put(t, s) /\ u.x = t.x + Len(s)
        /\ \A c \in Cells : u.row[c] = IF c \in t.x..(t.x + Len(s) - 1) THEN s[c - t.x + 1]
                                       ELSE t.row[c]
  BY PutIs
<1>4. ASSUME NEW c \in f..(RowColumns - 1)
      PROVE  u.row[c] = IF c < f + Len(l) THEN l[c - f + 1] ELSE " "
  <2>1. c \in Cells /\ c \in Nat
    BY <1>1 DEF Cells
  <2>2. CASE c < f + q \/ c >= f + Len(l)
    <3>1. t.row[c] = IF c < f + Len(l) THEN l[c - f + 1] ELSE " "
      BY <2>2 DEF ShowsBut
    <3>2. c \notin t.x..(t.x + Len(s) - 1)
      BY <1>1, <1>2a, <2>1, <2>2
    <3>3. QED
      BY <1>3, <2>1, <3>1, <3>2
  <2>3. CASE ~(c < f + q \/ c >= f + Len(l))
    <3>1. PICK i \in 1..(Len(l) - q) : i = c - t.x + 1
      BY <1>1, <2>1, <2>3
    <3>2. c \in t.x..(t.x + Len(s) - 1) /\ q + i = c - f + 1 /\ c < f + Len(l)
      BY <1>1, <1>2a, <2>1, <2>3, <3>1
    <3>3. u.row[c] = s[i]
      BY <1>3, <2>1, <3>1, <3>2
    <3>4. QED
      BY <1>2, <3>1, <3>2, <3>3
  <2>4. QED
    BY <2>2, <2>3
<1>5. u.x = f + Len(l)
  BY <1>1, <1>2a, <1>3
<1>6. QED
  BY <1>2, <1>3, <1>4, <1>5 DEF Shows

LEMMA AllShown ==
  ASSUME NEW r, NEW f \in Nat, NEW l \in Seq(Characters), ShowsBut(r, f, l, Len(l))
  PROVE  Shows(r, f, l)
<1>1. RowColumns \in Nat /\ Len(l) \in Nat
  BY ColumnsType
<1>2. ASSUME NEW c \in f..(RowColumns - 1)
      PROVE  r[c] = IF c < f + Len(l) THEN l[c - f + 1] ELSE " "
  <2>1. c < f + Len(l) \/ c >= f + Len(l)
    BY <1>1
  <2>2. QED
    BY <2>1 DEF ShowsBut
<1>3. QED
  BY <1>2 DEF Shows

\* A character typed into the line: everything up to it is shown.
LEMMA InsertionShown ==
  ASSUME NEW t \in Terminals, NEW f \in Nat, NEW l \in Seq(Characters), NEW p \in 0..Len(l),
         NEW ch \in Characters, f + Len(l) < RowColumns, Shows(t.row, f, l), t.x = f + p
  PROVE  /\ Put(t, <<ch>>) \in Terminals /\ Put(t, <<ch>>).x = f + (p + 1)
         /\ ShowsBut(Put(t, <<ch>>).row, f, InsertAt(l, p + 1, ch), p + 1)
<1>1. RowColumns \in Nat /\ Len(l) \in Nat /\ p \in Nat /\ p <= Len(l)
  BY ColumnsType
<1>2. PICK n \in Seq(Characters) :
        /\ n = InsertAt(l, p + 1, ch) /\ Len(n) = Len(l) + 1
        /\ \A k \in 1..p : n[k] = l[k]
        /\ n[p + 1] = ch
  <2>1. /\ InsertAt(l, p + 1, ch) \in Seq(Characters)
        /\ Len(InsertAt(l, p + 1, ch)) = Len(l) + 1
        /\ \A k \in 1..p : InsertAt(l, p + 1, ch)[k] = l[k]
        /\ InsertAt(l, p + 1, ch)[p + 1] = ch
    <3>1. l \in Seq(Characters) /\ p \in 0..Len(l) /\ ch \in Characters
      OBVIOUS
    <3>2. InsertAt(l, p + 1, ch) \in Seq(Characters)
      BY <3>1, Inserted
    <3>3. Len(InsertAt(l, p + 1, ch)) = Len(l) + 1
      BY <3>1, Inserted
    <3>4. \A k \in 1..p : InsertAt(l, p + 1, ch)[k] = l[k]
      BY <3>1, Inserted
    <3>5. InsertAt(l, p + 1, ch)[p + 1] = ch
      BY <3>1, Inserted
    <3>6. QED
      BY <3>2, <3>3, <3>4, <3>5
  <2>2. QED
    BY <2>1, Zenon
<1>2a. Len(n) = Len(l) + 1
  BY <1>2, Zenon
<1>3. PICK one \in Seq(Characters) : one = <<ch>> /\ Len(one) = 1 /\ one[1] = ch
  <2>1. <<ch>> \in Seq(Characters) /\ Len(<<ch>>) = 1 /\ <<ch>>[1] = ch
    OBVIOUS
  <2>2. QED
    BY <2>1, Zenon
<1>4. PICK u \in Terminals :
        /\ u = Put(t, one) /\ u.x = t.x + 1
        /\ \A c \in Cells : u.row[c] = IF c \in t.x..((t.x + 1) - 1) THEN one[c - t.x + 1]
                                       ELSE t.row[c]
  <2>1. Put(t, one).x = t.x + Len(one) /\ Put(t, one) \in Terminals
    BY PutIs
  <2>2. \A c \in Cells : Put(t, one).row[c] = IF c \in t.x..(t.x + Len(one) - 1)
                                             THEN one[c - t.x + 1] ELSE t.row[c]
    BY PutIs
  <2>3. t.x + Len(one) - 1 = (t.x + 1) - 1 /\ t.x + Len(one) = t.x + 1
    BY <1>1, <1>3
  <2>4. QED
    BY <2>1, <2>2, <2>3
<1>5. ASSUME NEW c \in f..(RowColumns - 1), c < f + (p + 1) \/ c >= f + Len(n)
      PROVE  u.row[c] = IF c < f + Len(n) THEN n[c - f + 1] ELSE " "
  <2>1. c \in Cells /\ c \in Nat
    BY <1>1 DEF Cells
  <2>2. t.row[c] = IF c < f + Len(l) THEN l[c - f + 1] ELSE " "
    BY DEF Shows
  <2>3. CASE c = f + p
    <3>1. /\ c \in t.x..((t.x + 1) - 1) /\ c - t.x + 1 = 1 /\ c - f + 1 = p + 1
          /\ c < f + Len(n)
      BY <1>1, <1>2a, <2>1, <2>3
    <3>2. QED
      BY <1>2, <1>3, <1>4, <2>1, <3>1
  <2>4. CASE c < f + p
    <3>1. /\ c \notin t.x..((t.x + 1) - 1) /\ c - f + 1 \in 1..p
          /\ c < f + Len(n) /\ c < f + Len(l)
      BY <1>1, <1>2a, <2>1, <2>4
    <3>2. QED
      BY <1>2, <1>4, <2>1, <2>2, <3>1
  <2>5. CASE c >= f + Len(n)
    <3>1. c \notin t.x..((t.x + 1) - 1) /\ ~(c < f + Len(n)) /\ ~(c < f + Len(l))
      BY <1>1, <1>2a, <2>1, <2>5
    <3>2. QED
      BY <1>4, <2>1, <2>2, <3>1
  <2>6. c = f + p \/ c < f + p \/ c >= f + Len(n)
    BY <1>1, <1>5, <2>1
  <2>7. QED
    BY <2>3, <2>4, <2>5, <2>6
<1>6. u.x = f + (p + 1)
  BY <1>1, <1>4
<1>7. QED
  BY <1>2, <1>3, <1>4, <1>5, <1>6 DEF ShowsBut

\* A character deleted from the line: the row closes the gap.
LEMMA RemovalShown ==
  ASSUME NEW t \in Terminals, NEW f \in Nat, NEW l \in Seq(Characters),
         NEW p \in 0..(Len(l) - 1), f + Len(l) <= RowColumns, Shows(t.row, f, l), t.x = f + p
  PROVE  /\ DeleteChar(t) \in Terminals /\ DeleteChar(t).x = f + p
         /\ Shows(DeleteChar(t).row, f, RemoveAt(l, p + 1))
<1>1. RowColumns \in Nat /\ Len(l) \in Nat /\ p \in Nat /\ p < Len(l)
  BY ColumnsType
<1>2. PICK n \in Seq(Characters) :
        /\ n = RemoveAt(l, p + 1) /\ Len(n) = Len(l) - 1
        /\ \A k \in 1..p : n[k] = l[k]
        /\ \A k \in 1..(Len(l) - 1 - p) : n[p + k] = l[p + 1 + k]
  <2>1. /\ RemoveAt(l, p + 1) \in Seq(Characters)
        /\ Len(RemoveAt(l, p + 1)) = Len(l) - 1
        /\ \A k \in 1..p : RemoveAt(l, p + 1)[k] = l[k]
        /\ \A k \in 1..(Len(l) - 1 - p) : RemoveAt(l, p + 1)[p + k] = l[p + 1 + k]
    BY RemovedOne
  <2>2. QED
    BY <2>1, Zenon
<1>2a. Len(n) = Len(l) - 1
  BY <1>2, Zenon
<1>3. PICK u \in Terminals :
        /\ u = DeleteChar(t) /\ u.x = t.x
        /\ \A c \in Cells : u.row[c] =
             IF c < t.x THEN t.row[c] ELSE IF c = RowColumns - 1 THEN " " ELSE t.row[c + 1]
  BY DeleteCharIs
<1>4. ASSUME NEW c \in f..(RowColumns - 1)
      PROVE  u.row[c] = IF c < f + Len(n) THEN n[c - f + 1] ELSE " "
  <2>1. c \in Cells /\ c \in Nat
    BY <1>1 DEF Cells
  <2>2. CASE c < f + p
    <3>1. t.row[c] = l[c - f + 1]
      <4>1. c < f + Len(l)
        BY <1>1, <2>1, <2>2
      <4>2. QED
        BY <4>1 DEF Shows
    <3>2. c - f + 1 \in 1..p /\ c < f + Len(n) /\ c < t.x
      BY <1>1, <1>2a, <2>1, <2>2
    <3>3. QED
      BY <1>2, <1>3, <2>1, <3>1, <3>2
  <2>3. CASE c >= f + p /\ c < f + Len(n)
    <3>1. PICK k \in 1..(Len(l) - 1 - p) : k = c - f - p + 1
      BY <1>1, <1>2a, <2>1, <2>3
    <3>2. ~(c < t.x) /\ c # RowColumns - 1
      BY <1>1, <1>2a, <2>1, <2>3
    <3>3. PICK d \in f..(RowColumns - 1) : d = c + 1 /\ d < f + Len(l)
      BY <1>1, <1>2a, <2>1, <2>3
    <3>4. t.row[d] = l[d - f + 1] /\ d - f + 1 = p + 1 + k /\ c - f + 1 = p + k
      <4>1. t.row[d] = l[d - f + 1]
        BY <3>3 DEF Shows
      <4>2. QED
        BY <1>1, <2>1, <3>1, <3>3, <4>1
    <3>5. u.row[c] = t.row[d]
      BY <1>3, <2>1, <3>2, <3>3
    <3>6. QED
      BY <1>2, <2>3, <3>1, <3>4, <3>5
  <2>4. CASE c >= f + Len(n)
    <3>1. ~(c < t.x) /\ ~(c < f + Len(n))
      BY <1>1, <1>2a, <2>1, <2>4
    <3>2. CASE c = RowColumns - 1
      BY <1>3, <2>1, <3>1, <3>2
    <3>3. CASE c # RowColumns - 1
      <4>1. c + 1 \in f..(RowColumns - 1) /\ ~(c + 1 < f + Len(l))
        BY <1>1, <1>2a, <2>1, <2>4, <3>3
      <4>2. t.row[c + 1] = " "
        BY <4>1 DEF Shows
      <4>3. QED
        BY <1>3, <2>1, <3>1, <3>3, <4>2
    <3>4. QED
      BY <3>2, <3>3
  <2>5. c < f + p \/ (c >= f + p /\ c < f + Len(n)) \/ c >= f + Len(n)
    BY <1>1, <1>2a, <2>1
  <2>6. QED
    BY <2>2, <2>3, <2>4, <2>5
<1>5. QED
  BY <1>2, <1>3, <1>4 DEF Shows

\* repaint_full_line shows the line, whatever the row showed before.
LEMMA LineLoaded ==
  ASSUME NEW t \in Terminals, NEW f \in Nat, NEW l \in Seq(Characters)
  PROVE  LET u == Put(EraseRight(ToColumn(t, f)), l)
         IN  u \in Terminals /\ Shows(u.row, f, l) /\ u.x = f + Len(l)
<1>1. RowColumns \in Nat /\ Len(l) \in Nat
  BY ColumnsType
<1>2. PICK v \in Terminals : v = ToColumn(t, f) /\ v.x = f
  BY ToColumnIs
<1>3. PICK w \in Terminals :
        /\ w = EraseRight(v) /\ w.x = f
        /\ \A c \in Cells : w.row[c] = IF c < f THEN v.row[c] ELSE " "
  <2>1. /\ EraseRight(v) \in Terminals /\ EraseRight(v).x = v.x
        /\ \A c \in Cells : EraseRight(v).row[c] = IF c < v.x THEN v.row[c] ELSE " "
    BY EraseRightIs
  <2>2. QED
    BY <1>2, <2>1, Zenon
<1>4. PICK u \in Terminals :
        /\ u = Put(w, l) /\ u.x = f + Len(l)
        /\ \A c \in Cells : u.row[c] = IF c \in f..(f + Len(l) - 1) THEN l[c - f + 1]
                                       ELSE w.row[c]
  <2>1. Put(w, l).x = w.x + Len(l) /\ Put(w, l) \in Terminals
    BY PutIs
  <2>2. \A c \in Cells : Put(w, l).row[c] = IF c \in w.x..(w.x + Len(l) - 1)
                                           THEN l[c - w.x + 1] ELSE w.row[c]
    BY PutIs
  <2>3. QED
    BY <1>3, <2>1, <2>2
<1>5. ASSUME NEW c \in f..(RowColumns - 1)
      PROVE  u.row[c] = IF c < f + Len(l) THEN l[c - f + 1] ELSE " "
  <2>1. /\ c \in Cells /\ ~(c < f)
        /\ c \in f..(f + Len(l) - 1) <=> c < f + Len(l)
    BY <1>1 DEF Cells
  <2>2. QED
    BY <1>3, <1>4, <2>1
<1>6. QED
  BY <1>2, <1>3, <1>4, <1>5 DEF Shows

-----------------------------------------------------------------------------
(* Lemmas about the history *)

\* trim_to_capacity keeps the newest commands.
LEMMA NewestIs ==
  ASSUME NEW S, NEW s \in Seq(S), NEW n \in Nat, NoRepeats(s)
  PROVE  Newest(s, n) \in Seq(S) /\ Len(Newest(s, n)) <= n /\ NoRepeats(Newest(s, n))
<1>1. Len(s) \in Nat
  OBVIOUS
<1>2. CASE Len(s) <= n
  <2>1. Newest(s, n) = s
    BY <1>1, <1>2 DEF Newest
  <2>2. QED
    BY <1>2, <2>1
<1>3. CASE Len(s) > n
  <2>1. PICK m \in 0..Len(s) : m = Len(s) - n
    BY <1>1, <1>3
  <2>2. Newest(s, n) = SubSeq(s, m + 1, Len(s))
    BY <1>1, <1>3, <2>1 DEF Newest
  <2>3. PICK u \in Seq(S) : /\ u = SubSeq(s, m + 1, Len(s)) /\ Len(u) = Len(s) - m
                            /\ \A i \in 1..(Len(s) - m) : u[i] = s[m + i]
    <3>1. /\ SubSeq(s, m + 1, Len(s)) \in Seq(S)
          /\ Len(SubSeq(s, m + 1, Len(s))) = Len(s) - m
          /\ \A i \in 1..(Len(s) - m) : SubSeq(s, m + 1, Len(s))[i] = s[m + i]
      BY SuffixIs
    <3>2. QED
      BY <3>1, Zenon
  <2>4. ASSUME NEW i \in 2..Len(u) PROVE u[i] # u[i - 1]
    <3>1. i \in 2..(Len(s) - m)
      BY <2>3, Zenon
    <3>2. \A l \in Nat : m \in 0..l /\ i \in 2..(l - m) =>
             /\ i \in 1..(l - m) /\ i - 1 \in 1..(l - m) /\ m + i \in 2..l
             /\ m + (i - 1) = (m + i) - 1
      OBVIOUS
    <3>3. /\ i \in 1..(Len(s) - m) /\ i - 1 \in 1..(Len(s) - m) /\ m + i \in 2..Len(s)
          /\ m + (i - 1) = (m + i) - 1
      BY <1>1, <2>1, <3>1, <3>2, Zenon
    <3>4. s[m + i] # s[(m + i) - 1]
      BY <3>3, Zenon DEF NoRepeats
    <3>5. u[i] = s[m + i] /\ u[i - 1] = s[(m + i) - 1]
      <4>1. u[i] = s[m + i] /\ u[i - 1] = s[m + (i - 1)]
        BY <2>3, <3>3, Zenon
      <4>2. QED
        BY <3>3, <4>1, Zenon
    <3>6. QED
      BY <3>4, <3>5, Zenon
  <2>5. Len(u) <= n
    BY <1>1, <2>1, <2>3
  <2>6. QED
    BY <2>2, <2>3, <2>4, <2>5 DEF NoRepeats
<1>4. QED
  BY <1>1, <1>2, <1>3

\* command_history_state::push: a line is not remembered twice in a row.
LEMMA PushedIs ==
  ASSUME NEW text \in Lines, commands \in Seq(Lines), capacity \in Nat, HistoryInv
  PROVE  /\ Pushed(text) \in Seq(Lines) /\ Len(Pushed(text)) <= capacity
         /\ NoRepeats(Pushed(text))
<1>1. CASE text = <<>> \/ (commands # <<>> /\ Last(commands) = text)
  BY <1>1 DEF Pushed, HistoryInv
<1>2. CASE ~(text = <<>> \/ (commands # <<>> /\ Last(commands) = text))
  <2>1. Len(commands) \in Nat
    OBVIOUS
  <2>2. PICK u \in Seq(Lines) :
          /\ u = Append(commands, text) /\ Len(u) = Len(commands) + 1
          /\ \A i \in 1..Len(commands) : u[i] = commands[i]
          /\ u[Len(commands) + 1] = text
    <3>1. /\ Append(commands, text) \in Seq(Lines)
          /\ Len(Append(commands, text)) = Len(commands) + 1
          /\ \A i \in 1..Len(commands) : Append(commands, text)[i] = commands[i]
          /\ Append(commands, text)[Len(commands) + 1] = text
      BY AppendProperties
    <3>2. QED
      BY <3>1, Zenon
  <2>3. ASSUME NEW i \in 2..Len(u) PROVE u[i] # u[i - 1]
    <3>1. CASE i <= Len(commands)
      <4>1. i \in 1..Len(commands) /\ i - 1 \in 1..Len(commands) /\ i \in 2..Len(commands)
        BY <2>1, <3>1
      <4>2. QED
        BY <2>2, <4>1 DEF HistoryInv, NoRepeats
    <3>2. CASE i > Len(commands)
      <4>1. i = Len(commands) + 1 /\ i - 1 = Len(commands) /\ Len(commands) \in 1..Len(commands)
        BY <2>1, <2>2, <3>2
      <4>2. commands # <<>>
        BY <2>1, <4>1
      <4>3. commands[Len(commands)] # text
        BY <1>2, <4>2, Zenon DEF Last
      <4>4. QED
        BY <2>2, <4>1, <4>3
    <3>3. QED
      BY <2>1, <2>2, <3>1, <3>2
  <2>4. NoRepeats(u)
    BY <2>3 DEF NoRepeats
  <2>5. /\ Newest(u, capacity) \in Seq(Lines) /\ Len(Newest(u, capacity)) <= capacity
        /\ NoRepeats(Newest(u, capacity))
    BY <2>4, NewestIs
  <2>6. Pushed(text) = Newest(u, capacity)
    BY <1>2, <2>2, Zenon DEF Pushed
  <2>7. QED
    BY <2>5, <2>6, Zenon
<1>3. QED
  BY <1>1, <1>2, Zenon

LEMMA LeastNumber ==
  ASSUME NEW I, I \subseteq Nat, I # {}
  PROVE  \E n \in I : \A i \in I : n <= i
<1> DEFINE R == OpToRel(<, Nat)
<1>1. IsWellFoundedOn(R, Nat)
  BY NatLessThanWellFounded, Zenon
<1>2. \A m, n \in Nat : m < n => <<m, n>> \in R
  BY Zenon DEF OpToRel
<1> HIDE DEF R
<1>3. PICK n \in I : \A i \in I : <<i, n>> \notin R
  BY <1>1, WFMin
<1>4. \A i \in I : ~(i < n)
  BY <1>2, <1>3, Zenon
<1>5. \A i \in I : n <= i
  BY <1>4
<1>6. QED
  BY <1>5

\* expand_alias makes text of text.
LEMMA ExpansionIsText ==
  ASSUME NEW text \in Seq(Characters)
  PROVE  expand_alias(text) \in Seq(Characters)
<1> DEFINE I == {i \in 1..Len(text) : text[i] = " "}
           space == IF I # {} THEN Min(I) ELSE 0
           end == IF space = 0 THEN Len(text) ELSE space - 1
           word == SubSeq(text, 1, end)
<1>1. Len(text) \in Nat
  OBVIOUS
<1>a. I \subseteq 1..Len(text) /\ I \subseteq Nat
  <2>1. I \subseteq 1..Len(text)
    BY Zenon
  <2>2. 1..Len(text) \subseteq Nat
    BY <1>1
  <2>3. QED
    BY <2>1, <2>2, Zenon
<1>b. expand_alias(text) = IF word \in DOMAIN Aliases
                           THEN Aliases[word] \o SubSeq(text, end + 1, Len(text)) ELSE text
  BY Zenon DEF expand_alias, SelectInSeq
<1> HIDE DEF I
<1>2. space \in 0..Len(text)
  <2>1. CASE I # {}
    <3>1. \E n \in I : \A i \in I : n <= i
      BY <1>a, <2>1, LeastNumber
    <3>2. Min(I) \in I
      BY <3>1, Zenon DEF Min
    <3>3. Min(I) \in 1..Len(text)
      BY <1>a, <3>2
    <3>4. QED
      BY <1>1, <2>1, <3>3
  <2>2. CASE I = {}
    BY <1>1, <2>2
  <2>3. QED
    BY <2>1, <2>2
<1>3. end \in 0..Len(text)
  BY <1>1, <1>2
<1> HIDE DEF space, end, word
<1>5. SubSeq(text, end + 1, Len(text)) \in Seq(Characters)
  BY <1>3, SuffixIs
<1>6. \A w \in DOMAIN Aliases : Aliases[w] \in Seq(Characters)
  BY LineEditorAssumption, Zenon DEF Characters
<1>7. CASE word \in DOMAIN Aliases
  <2>1. Aliases[word] \in Seq(Characters)
    BY <1>6, <1>7
  <2>2. Aliases[word] \o SubSeq(text, end + 1, Len(text)) \in Seq(Characters)
    BY <1>5, <2>1, ConcatIs
  <2>3. QED
    BY <1>b, <1>7, <2>2, Zenon
<1>8. CASE word \notin DOMAIN Aliases
  BY <1>b, <1>8, Zenon
<1>9. QED
  BY <1>7, <1>8

-----------------------------------------------------------------------------
(* The actions *)

LEMMA Typed ==
  ASSUME EditorInv
  PROVE  /\ cooked \in Seq(Characters) /\ Len(cooked) \in Nat /\ Len(cooked) <= MaxLine
         /\ at \in Nat /\ at <= Len(cooked) /\ from \in Nat /\ upto \in Nat /\ column \in Nat
         /\ terminal \in Terminals /\ <<>> \in Lines
<1>1. <<>> \in Seq(Characters) /\ Len(<<>>) = 0 /\ MaxLine \in Nat
  BY ColumnsType
<1>2. cooked \in Lines /\ at \in 0..Len(cooked) /\ from \in Nat /\ upto \in Nat
      /\ column \in Nat /\ terminal \in Terminals
  BY Zenon DEF EditorInv, EditorTypes
<1>3. cooked \in Seq(Characters) /\ Len(cooked) <= MaxLine
  BY <1>2 DEF Lines
<1>4. Len(cooked) \in Nat
  BY <1>3
<1>5. <<>> \in Lines
  BY <1>1 DEF Lines
<1>6. QED
  BY <1>2, <1>3, <1>4, <1>5

\* A line fits behind the prompt.
LEMMA LineFits ==
  ASSUME EditorInv, reading \/ clean
  PROVE  from + MaxLine < RowColumns
<1>1. from \in Prompts
  BY Zenon DEF EditorInv, LinePlaces
<1>2. QED
  BY <1>1, LineEditorAssumption, Zenon

\* What every change of the text does besides.
LEMMA EditKeeps ==
  ASSUME EditorInv, reading, EditFrame, break_browse, draft' = cooked', cooked' \in Lines,
         at' \in 0..Len(cooked'), upto' \in Nat, column' \in Nat, terminal' \in Terminals, RowInv'
  PROVE  EditorInv'
<1>1. UNCHANGED <<reading, from, valid, commands, capacity, clean>>
  BY Zenon DEF EditFrame
<1>2. browse' = NoSelection /\ saved' \in Lines
  BY Typed DEF break_browse, reset_browse, EditorInv, EditorTypes
<1>3. browse' \in 0..Len(commands')
  <2>1. Len(commands) \in Nat
    BY DEF EditorInv, EditorTypes
  <2>2. QED
    BY <1>1, <1>2, <2>1 DEF NoSelection
<1>4. EditorTypes'
  BY <1>1, <1>2, <1>3, Zenon DEF EditorInv, EditorTypes
<1>5. LinePlaces'
  BY <1>1, Zenon DEF EditorInv, LinePlaces
<1>6. DraftHeld' /\ HistoryInv'
  BY <1>1, <1>2, Zenon DEF EditorInv, DraftHeld, HistoryInv, NoRepeats
<1>7. QED
  BY <1>4, <1>5, <1>6, Zenon DEF EditorInv

LEMMA ShownBut ==
  ASSUME NEW r, NEW f, NEW l, NEW q, Shows(r, f, l)
  PROVE  ShowsBut(r, f, l, q)
BY Zenon DEF Shows, ShowsBut

LEMMA InsertStep ==
  ASSUME EditorInv, NEW c \in Chars, edit_insert(c)
  PROVE  EditorInv'
<1>1. /\ cooked \in Seq(Characters) /\ Len(cooked) \in Nat /\ at \in Nat /\ at <= Len(cooked)
      /\ from \in Nat /\ upto \in Nat /\ column \in Nat /\ terminal \in Terminals
      /\ at \in 0..Len(cooked) /\ MaxLine \in Nat
  BY Typed, ColumnsType
<1>2. /\ reading /\ EditFrame /\ break_browse /\ draft' = cooked' /\ Len(cooked) < MaxLine
      /\ at' = at + 1 /\ upto' = IF valid THEN Widest(upto + 1, column + 1) ELSE upto + 1
  BY DEF edit_insert
<1>3. c \in Characters
  BY DEF Characters
<1>4. PICK n \in Seq(Characters) : n = InsertAt(cooked, at + 1, c) /\ Len(n) = Len(cooked) + 1
  <2>1. cooked \in Seq(Characters) /\ at \in 0..Len(cooked) /\ c \in Characters
    BY <1>1, <1>3, Zenon
  <2>2. InsertAt(cooked, at + 1, c) \in Seq(Characters)
    BY <2>1, Inserted
  <2>3. Len(InsertAt(cooked, at + 1, c)) = Len(cooked) + 1
    BY <2>1, Inserted
  <2>4. QED
    BY <2>2, <2>3, Zenon
<1>5. cooked' = n
  BY <1>4 DEF edit_insert
<1>6. cooked' \in Lines /\ at' \in 0..Len(cooked')
  BY <1>1, <1>2, <1>4, <1>5 DEF Lines
<1>7. upto' \in Nat
  BY <1>1, <1>2 DEF Widest
<1>8. PICK u \in Terminals : u = Put(terminal, <<c>>)
  <2>1. <<c>> \in Seq(Characters)
    BY <1>3
  <2>2. QED
    BY <1>1, <2>1, PutIs
<1>9. PICK w \in Terminals : w = Put(u, Suffix(n, at + 1))
  <2>1. at + 1 \in 0..Len(n)
    BY <1>1, <1>4
  <2>2. Suffix(n, at + 1) \in Seq(Characters)
    BY <2>1, SuffixIs DEF Suffix
  <2>3. QED
    BY <2>2, PutIs
<1>10. CASE ~valid
  <2>1. terminal' = terminal /\ column' = column
    BY <1>10 DEF edit_insert
  <2>2. RowInv'
    BY <1>2, <1>10 DEF RowInv, EditFrame
  <2>3. QED
    BY <1>1, <1>2, <1>6, <1>7, <2>1, <2>2, EditKeeps
<1>11. CASE valid
  <2>1. /\ column' = column + 1
        /\ terminal' = IF at = Len(cooked) THEN u ELSE ToColumn(w, column + 1)
    BY <1>2, <1>5, <1>8, <1>9, <1>11 DEF edit_insert
  <2>2. column' \in Nat
    BY <1>1, <2>1
  <2>3. ToColumn(w, column + 1) \in Terminals /\ ToColumn(w, column + 1).row = w.row
        /\ ToColumn(w, column + 1).x = column + 1
    <3>1. column + 1 \in Nat
      BY <1>1
    <3>2. QED
      BY <3>1, ToColumnIs
  <2>4. terminal' \in Terminals
    BY <2>1, <2>3
  <2>5. ASSUME clean
        PROVE  /\ Shows(terminal'.row, from, n)
               /\ terminal'.x = column' /\ column' = from + at' /\ upto' = from + Len(n)
    <3>1. /\ Shows(terminal.row, from, cooked)
          /\ terminal.x = column /\ column = from + at /\ upto = from + Len(cooked)
      BY <1>11, <2>5 DEF EditorInv, RowInv
    <3>2. from + Len(cooked) < RowColumns /\ from + Len(n) <= RowColumns
      BY <1>1, <1>2, <1>4, <2>5, LineFits, ColumnsType
    <3>3. u.x = from + (at + 1) /\ ShowsBut(u.row, from, n, at + 1)
      BY <1>1, <1>3, <1>4, <1>8, <3>1, <3>2, InsertionShown
    <3>4. Shows(w.row, from, n)
      <4>1. at + 1 \in 0..Len(n)
        BY <1>1, <1>4
      <4>2. QED
        BY <1>1, <1>9, <3>3, <4>1, SuffixPainted
    <3>5. at = Len(cooked) => Shows(u.row, from, n)
      BY <1>1, <1>4, <3>3, AllShown
    <3>6. Shows(terminal'.row, from, n)
      BY <2>1, <2>3, <3>4, <3>5, Zenon
    <3>7. terminal'.x = column'
      BY <1>1, <2>1, <2>3, <3>1, <3>3
    <3>8. column' = from + at' /\ upto' = from + Len(n)
      <4>1. column' = column + 1 /\ upto' = Widest(upto + 1, column + 1)
        BY <1>2, <1>11, <2>1
      <4>2. Widest(upto + 1, column + 1) = upto + 1
        BY <1>1, <3>1 DEF Widest
      <4>3. QED
        BY <1>1, <1>2, <1>4, <3>1, <4>1, <4>2
    <3>9. QED
      BY <3>6, <3>7, <3>8
  <2>6. RowInv'
    BY <1>2, <1>5, <2>5, Zenon DEF RowInv, EditFrame
  <2>7. QED
    BY <1>2, <1>6, <1>7, <2>2, <2>4, <2>6, EditKeeps
<1>12. QED
  BY <1>10, <1>11

\* Backspace and Delete at an end of the line.
LEMMA NothingStep ==
  ASSUME EditorInv, NEW empty, NothingToErase(empty)
  PROVE  EditorInv'
<1>1. /\ reading /\ break_browse /\ draft' = cooked /\ EditFrame
      /\ cooked' = cooked /\ at' = at /\ upto' = upto /\ terminal' = terminal /\ column' = column
  BY Zenon DEF NothingToErase
<1>2. /\ cooked \in Lines /\ at \in 0..Len(cooked) /\ upto \in Nat /\ column \in Nat
      /\ terminal \in Terminals
  BY Zenon DEF EditorInv, EditorTypes
<1>3. RowInv'
  BY <1>1, Zenon DEF EditorInv, RowInv, EditFrame
<1>4. QED
  BY <1>1, <1>2, <1>3, EditKeeps, Zenon

LEMMA BackspaceStep ==
  ASSUME EditorInv, reading, at > 0, break_browse,
         cooked' = RemoveAt(cooked, at), at' = at - 1, retract_bounds,
         IF ~valid THEN UNCHANGED <<terminal, column>>
         ELSE LET t == DeleteChar(Left(terminal)) IN
              /\ column' = IF column > from THEN column - 1 ELSE column
              /\ terminal' = IF at = Len(cooked) THEN t
                             ELSE ToColumn(Put(t, Suffix(cooked', at')), column'),
         draft' = cooked', EditFrame
  PROVE  EditorInv'
<1>1. /\ cooked \in Seq(Characters) /\ Len(cooked) \in Nat /\ at \in Nat /\ at <= Len(cooked)
      /\ from \in Nat /\ upto \in Nat /\ column \in Nat /\ terminal \in Terminals
      /\ Len(cooked) <= MaxLine /\ MaxLine \in Nat
  BY Typed, ColumnsType
<1>2. PICK p \in 0..(Len(cooked) - 1) : at = p + 1 /\ p = at - 1
  BY <1>1
<1>3. PICK n \in Seq(Characters) : n = RemoveAt(cooked, p + 1) /\ Len(n) = Len(cooked) - 1
  BY <1>1, RemovedOne
<1>4. cooked' = n /\ at' = p /\ p \in 0..Len(n)
  BY <1>1, <1>2, <1>3
<1>5. cooked' \in Lines /\ at' \in 0..Len(cooked')
  BY <1>1, <1>3, <1>4 DEF Lines
<1>6. upto' \in Nat
  BY <1>1 DEF retract_bounds
<1>7. PICK u \in Terminals : u = DeleteChar(Left(terminal))
  BY <1>1, LeftIs, DeleteCharIs
<1>8. PICK w \in Terminals : w = Put(u, Suffix(n, p))
  <2>1. Suffix(n, p) \in Seq(Characters)
    BY <1>4, SuffixIs DEF Suffix
  <2>2. QED
    BY <2>1, PutIs
<1>9. CASE ~valid
  <2>1. terminal' = terminal /\ column' = column
    BY <1>9
  <2>2. RowInv'
    BY <1>9 DEF RowInv, EditFrame
  <2>3. QED
    BY <1>1, <1>5, <1>6, <2>1, <2>2, EditKeeps
<1>10. CASE valid
  <2>1. /\ column' = IF column > from THEN column - 1 ELSE column
        /\ terminal' = IF at = Len(cooked) THEN u ELSE ToColumn(w, column')
    BY <1>4, <1>7, <1>8, <1>10
  <2>2. column' \in Nat
    BY <1>1, <2>1
  <2>3. ToColumn(w, column') \in Terminals /\ ToColumn(w, column').row = w.row
        /\ ToColumn(w, column').x = column'
    BY <2>2, ToColumnIs
  <2>4. terminal' \in Terminals
    BY <2>1, <2>3
  <2>5. ASSUME clean
        PROVE  /\ Shows(terminal'.row, from, n)
               /\ terminal'.x = column' /\ column' = from + p /\ upto' = from + Len(n)
    <3>1. /\ Shows(terminal.row, from, cooked)
          /\ terminal.x = column /\ column = from + at /\ upto = from + Len(cooked)
      BY <1>10, <2>5 DEF EditorInv, RowInv
    <3>2. from + Len(cooked) <= RowColumns
      BY <1>1, <2>5, LineFits, ColumnsType
    <3>3. PICK v \in Terminals : v = Left(terminal) /\ v.row = terminal.row /\ v.x = from + p
      BY <1>1, <1>2, <3>1, LeftIs
    <3>4. u.x = from + p /\ Shows(u.row, from, n)
      BY <1>1, <1>3, <1>7, <3>1, <3>2, <3>3, RemovalShown
    <3>5. Shows(w.row, from, n)
      BY <1>1, <1>4, <1>8, <3>4, ShownBut, SuffixPainted
    <3>6. Shows(terminal'.row, from, n)
      BY <2>1, <2>3, <3>4, <3>5, Zenon
    <3>7. column' = from + p /\ upto' = from + Len(n)
      BY <1>1, <1>2, <1>3, <2>1, <3>1 DEF retract_bounds
    <3>8. terminal'.x = column'
      BY <2>1, <2>3, <3>4, <3>7, Zenon
    <3>9. QED
      BY <3>6, <3>7, <3>8
  <2>6. RowInv'
    BY <1>4, <2>5, Zenon DEF RowInv, EditFrame
  <2>7. QED
    BY <1>5, <1>6, <2>2, <2>4, <2>6, EditKeeps
<1>11. QED
  BY <1>9, <1>10

LEMMA DeleteStep ==
  ASSUME EditorInv, reading, at < Len(cooked), break_browse,
         cooked' = RemoveAt(cooked, at + 1), retract_bounds, terminal' = DeleteChar(terminal),
         draft' = cooked', UNCHANGED <<at, column>>, EditFrame
  PROVE  EditorInv'
<1>1. /\ cooked \in Seq(Characters) /\ Len(cooked) \in Nat /\ at \in Nat /\ at <= Len(cooked)
      /\ from \in Nat /\ upto \in Nat /\ column \in Nat /\ terminal \in Terminals
      /\ Len(cooked) <= MaxLine /\ MaxLine \in Nat
  BY Typed, ColumnsType
<1>2. at \in 0..(Len(cooked) - 1)
  BY <1>1
<1>3. PICK n \in Seq(Characters) : n = RemoveAt(cooked, at + 1) /\ Len(n) = Len(cooked) - 1
  BY <1>1, <1>2, RemovedOne
<1>4. cooked' \in Lines /\ at' \in 0..Len(cooked')
  BY <1>1, <1>2, <1>3 DEF Lines
<1>5. upto' \in Nat /\ column' \in Nat
  BY <1>1 DEF retract_bounds
<1>6. terminal' \in Terminals
  BY <1>1, DeleteCharIs
<1>7. ASSUME valid, clean
      PROVE  /\ Shows(terminal'.row, from, n)
             /\ terminal'.x = column /\ column = from + at /\ upto' = from + Len(n)
  <2>1. /\ Shows(terminal.row, from, cooked)
        /\ terminal.x = column /\ column = from + at /\ upto = from + Len(cooked)
    BY <1>7 DEF EditorInv, RowInv
  <2>2. from + Len(cooked) <= RowColumns
    BY <1>1, <1>7, LineFits, ColumnsType
  <2>3. terminal'.x = from + at /\ Shows(terminal'.row, from, n)
    BY <1>1, <1>2, <1>3, <2>1, <2>2, RemovalShown
  <2>4. upto' = from + Len(n)
    BY <1>1, <1>2, <1>3, <2>1 DEF retract_bounds
  <2>5. QED
    BY <2>1, <2>3, <2>4
<1>8. RowInv'
  BY <1>3, <1>7, Zenon DEF RowInv, EditFrame
<1>9. QED
  BY <1>4, <1>5, <1>6, <1>8, EditKeeps, Zenon

LEMMA MoveStep ==
  ASSUME EditorInv, NEW pos \in 0..Len(cooked), NEW col \in Nat, MoveTo(pos, col),
         valid /\ clean => col = from + pos
  PROVE  EditorInv'
<1>1. /\ reading /\ at' = pos
      /\ IF valid THEN terminal' = ToColumn(terminal, col) /\ column' = col
                  ELSE UNCHANGED <<terminal, column>>
      /\ cooked' = cooked /\ upto' = upto /\ browse' = browse /\ saved' = saved /\ draft' = draft
      /\ UNCHANGED <<reading, from, valid, commands, capacity, clean>>
  BY Zenon DEF MoveTo, EditFrame
<1>2. terminal \in Terminals /\ column \in Nat
  BY Typed
<1>3. PICK u \in Terminals : u = ToColumn(terminal, col) /\ u.row = terminal.row /\ u.x = col
  BY <1>2, ToColumnIs
<1>4. terminal' \in Terminals /\ column' \in Nat
  BY <1>1, <1>2, <1>3
<1>5. EditorTypes'
  BY <1>1, <1>4, Zenon DEF EditorInv, EditorTypes
<1>6. LinePlaces' /\ DraftHeld' /\ HistoryInv'
  BY <1>1, Zenon DEF EditorInv, LinePlaces, DraftHeld, HistoryInv, NoRepeats
<1>7. RowInv'
  BY <1>1, <1>3, Zenon DEF EditorInv, RowInv
<1>8. QED
  BY <1>5, <1>6, <1>7, Zenon DEF EditorInv

LEMMA MovesStep ==
  ASSUME EditorInv, edit_move_left \/ edit_move_right \/ edit_home \/ edit_end
  PROVE  EditorInv'
<1>1. /\ Len(cooked) \in Nat /\ at \in Nat /\ at <= Len(cooked) /\ from \in Nat /\ upto \in Nat
  BY Typed
<1>2. valid /\ clean => upto = from + Len(cooked)
  BY Zenon DEF EditorInv, RowInv
<1>3. CASE edit_move_left
  <2>1. MoveTo(at - 1, from + (at - 1)) /\ at - 1 \in 0..Len(cooked) /\ from + (at - 1) \in Nat
    BY <1>1, <1>3 DEF edit_move_left, column_for_offset
  <2>2. QED
    BY <2>1, MoveStep, Zenon
<1>4. CASE edit_move_right
  <2>1. MoveTo(at + 1, from + (at + 1)) /\ at + 1 \in 0..Len(cooked) /\ from + (at + 1) \in Nat
    BY <1>1, <1>4 DEF edit_move_right, column_for_offset
  <2>2. QED
    BY <2>1, MoveStep, Zenon
<1>5. CASE edit_home
  <2>1. MoveTo(0, from) /\ 0 \in 0..Len(cooked) /\ from = from + 0
    BY <1>1, <1>5 DEF edit_home
  <2>2. QED
    BY <1>1, <2>1, MoveStep, Zenon
<1>6. CASE edit_end
  <2>1. MoveTo(Len(cooked), upto) /\ Len(cooked) \in 0..Len(cooked)
    BY <1>1, <1>6 DEF edit_end
  <2>2. QED
    BY <1>1, <1>2, <2>1, MoveStep, Zenon
<1>7. QED
  BY <1>3, <1>4, <1>5, <1>6

\* load_history_line, with whatever it does to the browsing.
LEMMA LoadStep ==
  ASSUME EditorInv, NEW text \in Lines, reading, Load(text),
         UNCHANGED <<reading, from, valid, commands, capacity, draft, clean>>,
         saved' \in Lines, browse' \in 0..Len(commands), DraftHeld'
  PROVE  EditorInv'
<1>1. text \in Seq(Characters) /\ Len(text) \in Nat /\ Len(text) <= MaxLine
  <2>1. text \in Seq(Characters) /\ Len(text) <= MaxLine
    BY DEF Lines
  <2>2. QED
    BY <2>1
<1>2. from \in Nat /\ column \in Nat /\ terminal \in Terminals /\ MaxLine \in Nat
  BY Typed, ColumnsType
<1>3. /\ cooked' = text /\ at' = Len(text) /\ upto' = from + Len(text)
      /\ IF valid THEN /\ terminal' = Put(EraseRight(ToColumn(terminal, from)), text)
                       /\ column' = from + Len(text)
         ELSE terminal' = terminal /\ column' = column
  BY DEF Load, LineRepainted
<1>4. PICK u \in Terminals : /\ u = Put(EraseRight(ToColumn(terminal, from)), text)
                             /\ Shows(u.row, from, text) /\ u.x = from + Len(text)
  BY <1>1, <1>2, LineLoaded
<1>5. /\ terminal' \in Terminals /\ column' \in Nat /\ upto' \in Nat /\ cooked' \in Lines
      /\ at' \in 0..Len(cooked')
  BY <1>1, <1>2, <1>3, <1>4
<1>6. EditorTypes'
  BY <1>5, Zenon DEF EditorInv, EditorTypes
<1>7. LinePlaces' /\ HistoryInv'
  BY Zenon DEF EditorInv, LinePlaces, HistoryInv, NoRepeats
<1>8. RowInv'
  BY <1>3, <1>4, Zenon DEF RowInv
<1>9. QED
  BY <1>6, <1>7, <1>8, Zenon DEF EditorInv

LEMMA BrowseStep ==
  ASSUME EditorInv, history_up \/ history_down
  PROVE  EditorInv'
<1>1. /\ cooked \in Lines /\ saved \in Lines /\ commands \in Seq(Lines)
      /\ browse \in 0..Len(commands) /\ Len(commands) \in Nat
  <2>1. /\ cooked \in Lines /\ saved \in Lines /\ commands \in Seq(Lines)
        /\ browse \in 0..Len(commands)
    BY Zenon DEF EditorInv, EditorTypes
  <2>2. QED
    BY <2>1
<1>2. reading /\ UNCHANGED <<reading, from, valid, commands, capacity, draft, clean>>
  BY Zenon DEF history_up, history_down
<1>3. draft = IF browse = NoSelection THEN cooked ELSE saved
  BY <1>2, Zenon DEF EditorInv, DraftHeld
<1>4. CASE history_up
  <2>1. Len(commands) > 0
    BY <1>1, <1>4 DEF history_up
  <2>2. browse' \in 1..Len(commands)
    BY <1>1, <1>4, <2>1 DEF history_up, Widest, NoSelection
  <2>3. Load(commands[browse']) /\ commands[browse'] \in Lines
    BY <1>1, <1>4, <2>2 DEF history_up
  <2>4. saved' = (IF browse = NoSelection THEN cooked ELSE saved) /\ browse' # NoSelection
    BY <1>4, <2>2 DEF history_up, NoSelection
  <2>5. DraftHeld' /\ saved' \in Lines
    BY <1>1, <1>2, <1>3, <2>4, Zenon DEF DraftHeld
  <2>6. browse' \in 0..Len(commands)
    BY <1>1, <2>2
  <2>7. QED
    BY <1>2, <2>3, <2>5, <2>6, LoadStep, Zenon
<1>5. CASE history_down /\ browse < Len(commands)
  <2>1. /\ browse # NoSelection /\ browse' = browse + 1 /\ Load(commands[browse'])
        /\ saved' = saved
    BY <1>5 DEF history_down
  <2>2. browse' \in 1..Len(commands) /\ browse' \in 0..Len(commands) /\ browse' # NoSelection
    BY <1>1, <1>5, <2>1 DEF NoSelection
  <2>3. commands[browse'] \in Lines
    BY <1>1, <2>2
  <2>4. DraftHeld' /\ saved' \in Lines
    BY <1>1, <1>2, <1>3, <2>1, <2>2, Zenon DEF DraftHeld
  <2>5. QED
    BY <1>2, <2>1, <2>2, <2>3, <2>4, LoadStep, Zenon
<1>6. CASE history_down /\ ~(browse < Len(commands))
  <2>1. browse # NoSelection /\ Load(saved) /\ browse' = NoSelection /\ saved' = <<>>
    BY <1>6 DEF history_down, reset_browse
  <2>2. cooked' = saved
    BY <2>1 DEF Load
  <2>3. browse' \in 0..Len(commands) /\ saved' \in Lines
    BY <1>1, <2>1, Typed DEF NoSelection
  <2>4. DraftHeld'
    BY <1>2, <1>3, <2>1, <2>2, Zenon DEF DraftHeld
  <2>5. QED
    BY <1>1, <1>2, <2>1, <2>3, <2>4, LoadStep, Zenon
<1>7. QED
  BY <1>4, <1>5, <1>6

\* The line's end, and what leaves the row alone.
LEMMA ReadStep ==
  ASSUME EditorInv, Begin \/ Submit \/ Abort
  PROVE  EditorInv'
<1>1. /\ cooked \in Seq(Characters) /\ terminal \in Terminals /\ <<>> \in Lines
      /\ Len(<<>>) = 0 /\ 0 \in 0..0 /\ from \in Nat /\ upto \in Nat /\ column \in Nat
  BY Typed
<1>2. /\ cooked' = <<>> /\ at' = 0 /\ draft' = <<>> /\ browse' = NoSelection /\ saved' = <<>>
      /\ UNCHANGED <<from, upto, valid, capacity>>
  BY DEF Begin, Submit, Abort, reset_browse
<1>3. at' \in 0..Len(cooked') /\ cooked' \in Lines /\ saved' \in Lines
  BY <1>1, <1>2
<1>4. /\ commands \in Seq(Lines) /\ capacity \in Nat /\ Len(commands) <= capacity
      /\ NoRepeats(commands) /\ reading \in BOOLEAN /\ valid \in BOOLEAN /\ clean \in BOOLEAN
  BY Zenon DEF EditorInv, EditorTypes, HistoryInv
<1>5. /\ commands' \in Seq(Lines) /\ Len(commands') <= capacity' /\ NoRepeats(commands')
      /\ terminal' \in Terminals /\ column' \in Nat
      /\ reading' \in BOOLEAN /\ clean' \in BOOLEAN
  <2>1. CASE Begin \/ Abort
    BY <1>1, <1>2, <1>4, <2>1, Zenon DEF Begin, Abort
  <2>2. CASE Submit
    <3>1. expand_alias(cooked) \in Lines
      <4>1. Len(expand_alias(cooked)) <= MaxLine
        BY <2>2, Zenon DEF Submit
      <4>2. expand_alias(cooked) \in Seq(Characters)
        BY <1>1, ExpansionIsText
      <4>3. QED
        BY <4>1, <4>2 DEF Lines
    <3>2. commands' = Pushed(expand_alias(cooked)) /\ reading' = FALSE /\ clean' = FALSE
      BY <2>2, Zenon DEF Submit
    <3>3. HistoryInv
      BY DEF EditorInv
    <3>4. commands' \in Seq(Lines) /\ Len(commands') <= capacity' /\ NoRepeats(commands')
      BY <1>2, <1>4, <3>1, <3>2, <3>3, PushedIs
    <3>5. NewRow(0) \in Terminals
      BY NewRowIs
    <3>6. terminal' \in Terminals /\ column' \in Nat
      BY <1>1, <2>2, <3>5 DEF Submit
    <3>7. QED
      BY <3>2, <3>4, <3>6, Zenon
  <2>3. QED
    BY <2>1, <2>2
<1>6. browse' \in 0..Len(commands')
  BY <1>2, <1>5 DEF NoSelection
<1>7. EditorTypes'
  BY <1>1, <1>2, <1>3, <1>4, <1>5, <1>6, Zenon DEF EditorTypes
<1>8. LinePlaces'
  <2>1. reading' \/ clean' => from \in Prompts
    BY Zenon DEF Begin, Submit, Abort, EditorInv, LinePlaces
  <2>2. QED
    BY <1>2, <2>1, Zenon DEF LinePlaces
<1>9. DraftHeld' /\ HistoryInv'
  BY <1>2, <1>5, Zenon DEF DraftHeld, HistoryInv, NoRepeats
<1>10. RowInv'
  <2>1. CASE Submit \/ Abort
    BY <2>1, Zenon DEF Submit, Abort, RowInv
  <2>2. CASE Begin
    <3>1. UNCHANGED <<from, upto, column, valid, terminal, clean>> /\ ~reading
      BY <2>2, Zenon DEF Begin
    <3>2. cooked = <<>> /\ at = 0
      BY <3>1, Zenon DEF EditorInv, LinePlaces
    <3>3. UNCHANGED <<cooked, at>>
      BY <1>2, <3>2, Zenon
    <3>4. RowInv
      BY Zenon DEF EditorInv
    <3>5. QED
      BY <3>1, <3>3, <3>4, Zenon DEF RowInv, Shows
  <2>3. QED
    BY <2>1, <2>2
<1>11. QED
  BY <1>7, <1>8, <1>9, <1>10, Zenon DEF EditorInv

LEMMA OutputStep ==
  ASSUME EditorInv, Output
  PROVE  EditorInv'
<1>1. PICK x \in Prompts, known \in BOOLEAN :
        /\ terminal' = NewRow(x) /\ from' = x /\ upto' = x
        /\ valid' = known /\ column' = IF known THEN x ELSE column
  BY Zenon DEF Output
<1>2. /\ clean' = ~reading
      /\ UNCHANGED <<reading, cooked, at, commands, capacity, browse, saved, draft>>
  BY Zenon DEF Output
<1>3. x \in Nat /\ RowColumns \in Nat
  BY LineEditorAssumption, Zenon
<1>4. PICK u \in Terminals : u = NewRow(x) /\ u.x = x /\ \A c \in Cells : u.row[c] = " "
  BY <1>3, NewRowIs
<1>5. /\ terminal' \in Terminals /\ from' \in Nat /\ upto' \in Nat /\ column' \in Nat
      /\ clean' \in BOOLEAN
  BY <1>1, <1>2, <1>3, <1>4, Typed DEF EditorInv, EditorTypes
<1>6. EditorTypes'
  BY <1>1, <1>2, <1>5, Zenon DEF EditorInv, EditorTypes
<1>7. LinePlaces' /\ DraftHeld' /\ HistoryInv'
  BY <1>1, <1>2, Zenon DEF EditorInv, LinePlaces, DraftHeld, HistoryInv, NoRepeats
<1>8. ASSUME valid', clean'
      PROVE  /\ Shows(terminal'.row, from', cooked') /\ terminal'.x = column'
             /\ column' = from' + at' /\ upto' = from' + Len(cooked')
  <2>1. ~reading /\ cooked = <<>> /\ at = 0
    BY <1>2, <1>8, Zenon DEF EditorInv, LinePlaces
  <2>2. column' = x /\ terminal'.x = x /\ terminal' = u /\ from' = x /\ upto' = x
        /\ cooked' = <<>> /\ at' = 0 /\ Len(<<>>) = 0
    BY <1>1, <1>2, <1>4, <1>8, <2>1
  <2>3. ASSUME NEW c \in x..(RowColumns - 1) PROVE u.row[c] = " " /\ ~(c < x + 0)
    <3>1. c \in Cells /\ ~(c < x + 0)
      BY <1>3 DEF Cells
    <3>2. QED
      BY <1>4, <3>1
  <2>4. Shows(u.row, x, <<>>)
    BY <2>2, <2>3, Zenon DEF Shows
  <2>5. x + 0 = x
    BY <1>3
  <2>6. QED
    BY <2>2, <2>4, <2>5, Zenon
<1>9. QED
  BY <1>6, <1>7, <1>8, Zenon DEF EditorInv, RowInv

LEMMA CallStep ==
  ASSUME EditorInv, api_set_history_capacity \/ api_clear_history
  PROVE  EditorInv'
<1>1. UNCHANGED <<reading, cooked, at, from, upto, column, valid, terminal, clean>>
  BY Zenon DEF api_set_history_capacity, api_clear_history
<1>2. /\ commands \in Seq(Lines) /\ NoRepeats(commands) /\ browse \in 0..Len(commands)
      /\ capacity \in Nat /\ saved \in Lines /\ <<>> \in Lines
  BY Typed, Zenon DEF EditorInv, EditorTypes, HistoryInv
<1>3. /\ commands' \in Seq(Lines) /\ Len(commands') <= capacity' /\ NoRepeats(commands')
      /\ capacity' \in Nat
  <2>1. CASE api_set_history_capacity
    <3>1. commands' = Newest(commands, capacity') /\ capacity' \in Nat
      BY <2>1, LineEditorAssumption, Zenon DEF api_set_history_capacity
    <3>2. QED
      BY <1>2, <3>1, NewestIs
  <2>2. CASE api_clear_history
    <3>1. commands' = <<>> /\ capacity' = capacity
      BY <2>2, Zenon DEF api_clear_history
    <3>2. QED
      BY <1>2, <3>1 DEF NoRepeats
  <2>3. QED
    BY <2>1, <2>2
<1>4. /\ browse' \in 0..Len(commands') /\ saved' \in Lines
      /\ \/ browse' = NoSelection /\ draft' = cooked
         \/ browse' = browse /\ saved' = saved /\ draft' = draft
  <2>1. Len(commands') \in Nat
    BY <1>3
  <2>2. CASE browse' = NoSelection /\ saved' = <<>> /\ draft' = cooked
    BY <1>2, <2>1, <2>2 DEF NoSelection
  <2>3. CASE ~(browse > Len(commands')) /\ browse' = browse /\ saved' = saved /\ draft' = draft
    BY <1>2, <2>1, <2>3
  <2>4. QED
    BY <2>2, <2>3, Zenon DEF api_set_history_capacity, api_clear_history, reset_browse
<1>5. EditorTypes'
  BY <1>1, <1>3, <1>4, Zenon DEF EditorInv, EditorTypes
<1>6. LinePlaces'
  BY <1>1, <1>4, Zenon DEF EditorInv, LinePlaces
<1>7. DraftHeld' /\ HistoryInv'
  BY <1>1, <1>3, <1>4, Zenon DEF EditorInv, DraftHeld, HistoryInv, NoRepeats
<1>8. RowInv'
  BY <1>1, Zenon DEF EditorInv, RowInv
<1>9. QED
  BY <1>5, <1>6, <1>7, <1>8, Zenon DEF EditorInv

LEMMA EditorStarts == EditorInit => EditorInv
<1> SUFFICES ASSUME EditorInit PROVE EditorInv
  OBVIOUS
<1>1. /\ <<>> \in Lines /\ Len(<<>>) = 0 /\ 0 \in 0..0 /\ 0 \in Nat /\ <<>> \in Seq(Lines)
  BY ColumnsType DEF Lines
<1>2. /\ Blank \in [Cells -> Characters]
  BY DEF Blank, Cells, Characters
<1>3. terminal \in Terminals
  BY <1>1, <1>2 DEF EditorInit, Terminals
<1>4. capacity \in Nat
  BY LineEditorAssumption, Zenon DEF EditorInit
<1>5. /\ reading = FALSE /\ cooked = <<>> /\ at = 0 /\ from = 0 /\ upto = 0 /\ column = 0
      /\ valid = FALSE /\ commands = <<>> /\ browse = NoSelection /\ saved = <<>>
      /\ clean = FALSE
  BY Zenon DEF EditorInit
<1>6. EditorTypes
  BY <1>1, <1>3, <1>4, <1>5 DEF EditorTypes, NoSelection
<1>7. LinePlaces /\ DraftHeld /\ RowInv
  BY <1>5, Zenon DEF LinePlaces, DraftHeld, RowInv
<1>8. HistoryInv
  BY <1>1, <1>4, <1>5 DEF HistoryInv, NoRepeats
<1>9. QED
  BY <1>6, <1>7, <1>8, Zenon DEF EditorInv

LEMMA EditorStays == EditorInv /\ [EditorNext]_editor_vars => EditorInv'
<1> SUFFICES ASSUME EditorInv, [EditorNext]_editor_vars PROVE EditorInv'
  OBVIOUS
<1>1. CASE \E c \in Chars : edit_insert(c)
  BY <1>1, InsertStep, Zenon
<1>2. CASE edit_backspace
  BY <1>2, NothingStep, BackspaceStep, Zenon DEF edit_backspace
<1>3. CASE edit_delete
  BY <1>3, NothingStep, DeleteStep, Zenon DEF edit_delete
<1>4. CASE edit_move_left \/ edit_move_right \/ edit_home \/ edit_end
  BY <1>4, MovesStep, Zenon
<1>5. CASE history_up \/ history_down
  BY <1>5, BrowseStep, Zenon
<1>6. CASE Begin \/ Submit \/ Abort
  BY <1>6, ReadStep, Zenon
<1>7. CASE Output
  BY <1>7, OutputStep, Zenon
<1>8. CASE api_set_history_capacity \/ api_clear_history
  BY <1>8, CallStep, Zenon
<1>9. CASE UNCHANGED editor_vars
  <2>1. EditorTypes' /\ LinePlaces'
    BY <1>9 DEF EditorInv, EditorTypes, LinePlaces, editor_vars
  <2>2. DraftHeld' /\ HistoryInv' /\ RowInv'
    BY <1>9 DEF EditorInv, DraftHeld, HistoryInv, NoRepeats, RowInv, editor_vars
  <2>3. QED
    BY <2>1, <2>2, Zenon DEF EditorInv
<1>10. QED
  BY <1>1, <1>2, <1>3, <1>4, <1>5, <1>6, <1>7, <1>8, <1>9, Zenon DEF EditorNext

\* pipe_bridge's line editor (edit_*, browse_up, browse_down, repaint_full_line): for any
\* characters, prompts, aliases and row, while the bridge knows where the terminal's cursor is
\* the row shows the edited line and the cursor stands at the edit position.
THEOREM LineStaysShown == EditorSpec => []LineShown
<1>1. EditorInv => LineShown
  <2> SUFFICES ASSUME EditorInv, reading, valid, clean
               PROVE  /\ \A k \in 1..Len(cooked) : terminal.row[from + k - 1] = cooked[k]
                      /\ \A c \in (from + Len(cooked))..(RowColumns - 1) : terminal.row[c] = " "
                      /\ terminal.x = column /\ column = from + at /\ upto = from + Len(cooked)
    BY Zenon DEF LineShown
  <2>1. /\ Shows(terminal.row, from, cooked)
        /\ terminal.x = column /\ column = from + at /\ upto = from + Len(cooked)
    BY Zenon DEF EditorInv, RowInv
  <2>2. from + Len(cooked) < RowColumns /\ from \in Nat /\ Len(cooked) \in Nat /\ RowColumns \in Nat
    BY LineFits, Typed, ColumnsType
  <2>3. ASSUME NEW k \in 1..Len(cooked) PROVE terminal.row[from + k - 1] = cooked[k]
    <3>1. (from + k) - 1 \in from..(RowColumns - 1) /\ (from + k) - 1 < from + Len(cooked)
          /\ (((from + k) - 1) - from) + 1 = k
      BY <2>2
    <3>2. terminal.row[(from + k) - 1] = cooked[k]
      BY <2>1, <3>1, Zenon DEF Shows
    <3>3. from + k - 1 = (from + k) - 1
      BY <2>2
    <3>4. QED
      BY <3>2, <3>3, Zenon
  <2>4. ASSUME NEW c \in (from + Len(cooked))..(RowColumns - 1) PROVE terminal.row[c] = " "
    <3>1. c \in from..(RowColumns - 1) /\ ~(c < from + Len(cooked))
      BY <2>2
    <3>2. QED
      BY <2>1, <3>1, Zenon DEF Shows
  <2>5. QED
    BY <2>1, <2>3, <2>4
<1>2. QED
  BY <1>1, EditorStarts, EditorStays, PTL DEF EditorSpec

\* command_history_state (browse_up, browse_down, break_browse, push, trim_to_capacity): the
\* line typed before the browsing comes back, the browse index names a remembered command, and
\* the history holds no more than its capacity and no command twice in a row.
THEOREM DraftComesBack == EditorSpec => []DraftKept
<1>1. EditorInv => DraftKept
  BY Zenon DEF EditorInv, EditorTypes, DraftHeld, HistoryInv, NoRepeats, DraftKept
<1>2. QED
  BY <1>1, EditorStarts, EditorStays, PTL DEF EditorSpec

-----------------------------------------------------------------------------
(* Aliases: the inductive invariant *)

\* What an exe set last stands in the exe's own table.
OwnInv ==
  /\ DOMAIN own = KeysOf(Exes) \X KeysOf(Sources)
  /\ \A e \in KeysOf(Exes), s \in KeysOf(Sources) :
       own[<<e, s>>] # "none" =>
         /\ e \in DOMAIN aliases_by_exe /\ s \in DOMAIN aliases_by_exe[e]
         /\ aliases_by_exe[e][s] = own[<<e, s>>]

LEMMA AliasesStart == AliasesInit => OwnInv
BY DEF AliasesInit, OwnInv

LEMMA AliasAdded ==
  ASSUME OwnInv, NEW exe \in Exes, NEW source \in Sources, NEW target \in Targets,
         AddAlias(exe, source, target)
  PROVE  OwnInv'
<1> DEFINE x == Key(exe)
           y == Key(source)
           table == IF x \in DOMAIN aliases_by_exe THEN aliases_by_exe[x] ELSE NoTable
<1>1. x \in KeysOf(Exes) /\ y \in KeysOf(Sources)
  BY DEF KeysOf
<1>2. /\ aliases_by_exe' = WithEntry(aliases_by_exe, x, WithEntry(table, y, target))
      /\ own' = [own EXCEPT ![<<x, y>>] = target]
  BY Zenon DEF AddAlias, insert_or_assign_alias
<1>3. /\ DOMAIN own' = DOMAIN own
      /\ \A p \in DOMAIN own : own'[p] = IF p = <<x, y>> THEN target ELSE own[p]
  BY <1>2
<1>4. /\ DOMAIN aliases_by_exe' = DOMAIN aliases_by_exe \cup {x}
      /\ \A e \in DOMAIN aliases_by_exe' :
           aliases_by_exe'[e] = IF e = x THEN WithEntry(table, y, target) ELSE aliases_by_exe[e]
  BY <1>2 DEF WithEntry
<1>5. /\ DOMAIN WithEntry(table, y, target) = DOMAIN table \cup {y}
      /\ \A s \in DOMAIN table \cup {y} :
           WithEntry(table, y, target)[s] = IF s = y THEN target ELSE table[s]
  BY DEF WithEntry
<1> HIDE DEF x, y
<1>6. ASSUME NEW e \in KeysOf(Exes), NEW s \in KeysOf(Sources), own'[<<e, s>>] # "none"
      PROVE  /\ e \in DOMAIN aliases_by_exe' /\ s \in DOMAIN aliases_by_exe'[e]
             /\ aliases_by_exe'[e][s] = own'[<<e, s>>]
  <2>1. <<e, s>> \in DOMAIN own
    BY DEF OwnInv
  <2>2. CASE e = x /\ s = y
    BY <1>3, <1>4, <1>5, <2>1, <2>2
  <2>3. CASE e = x /\ s # y
    <3>1. own'[<<e, s>>] = own[<<e, s>>]
      BY <1>3, <2>1, <2>3
    <3>2. /\ e \in DOMAIN aliases_by_exe /\ s \in DOMAIN aliases_by_exe[e]
          /\ aliases_by_exe[e][s] = own[<<e, s>>]
      BY <1>6, <3>1 DEF OwnInv
    <3>3. s \in DOMAIN table /\ table[s] = own[<<e, s>>]
      BY <2>3, <3>2
    <3>4. QED
      BY <1>4, <1>5, <2>3, <3>1, <3>3
  <2>4. CASE e # x
    <3>1. own'[<<e, s>>] = own[<<e, s>>]
      BY <1>3, <2>1, <2>4
    <3>2. /\ e \in DOMAIN aliases_by_exe /\ s \in DOMAIN aliases_by_exe[e]
          /\ aliases_by_exe[e][s] = own[<<e, s>>]
      BY <1>6, <3>1 DEF OwnInv
    <3>3. QED
      BY <1>4, <2>4, <3>1, <3>2
  <2>5. QED
    BY <2>2, <2>3, <2>4
<1>7. DOMAIN own' = KeysOf(Exes) \X KeysOf(Sources)
  BY <1>3 DEF OwnInv
<1>8. QED
  BY <1>6, <1>7, Zenon DEF OwnInv

LEMMA AliasErased ==
  ASSUME OwnInv, NEW exe \in Exes, NEW source \in Sources, EraseAlias(exe, source)
  PROVE  OwnInv'
<1> DEFINE x == Key(exe)
           y == Key(source)
<1>1. x \in KeysOf(Exes) /\ y \in KeysOf(Sources)
  BY DEF KeysOf
<1>2. /\ aliases_by_exe' = IF x \in DOMAIN aliases_by_exe
                           THEN [aliases_by_exe EXCEPT ![x] = WithoutEntry(@, y)]
                           ELSE aliases_by_exe
      /\ own' = [own EXCEPT ![<<x, y>>] = "none"]
  BY Zenon DEF EraseAlias, erase_alias
<1>3. /\ DOMAIN own' = DOMAIN own
      /\ \A p \in DOMAIN own : own'[p] = IF p = <<x, y>> THEN "none" ELSE own[p]
  BY <1>2
<1>4. /\ DOMAIN aliases_by_exe' = DOMAIN aliases_by_exe
      /\ \A e \in DOMAIN aliases_by_exe :
           aliases_by_exe'[e] = IF e = x THEN WithoutEntry(aliases_by_exe[e], y)
                                ELSE aliases_by_exe[e]
  BY <1>2
<1> HIDE DEF x, y
<1>5. ASSUME NEW e \in KeysOf(Exes), NEW s \in KeysOf(Sources), own'[<<e, s>>] # "none"
      PROVE  /\ e \in DOMAIN aliases_by_exe' /\ s \in DOMAIN aliases_by_exe'[e]
             /\ aliases_by_exe'[e][s] = own'[<<e, s>>]
  <2>1. <<e, s>> \in DOMAIN own
    BY DEF OwnInv
  <2>2. ~(e = x /\ s = y) /\ own'[<<e, s>>] = own[<<e, s>>]
    BY <1>3, <1>5, <2>1
  <2>3. /\ e \in DOMAIN aliases_by_exe /\ s \in DOMAIN aliases_by_exe[e]
        /\ aliases_by_exe[e][s] = own[<<e, s>>]
    BY <1>5, <2>2 DEF OwnInv
  <2>4. CASE e = x
    <3>1. aliases_by_exe'[e] = WithoutEntry(aliases_by_exe[e], y) /\ s # y
      BY <1>4, <2>2, <2>3, <2>4
    <3>2. /\ s \in DOMAIN WithoutEntry(aliases_by_exe[e], y)
          /\ WithoutEntry(aliases_by_exe[e], y)[s] = aliases_by_exe[e][s]
      BY <2>3, <3>1 DEF WithoutEntry
    <3>3. QED
      BY <1>4, <2>2, <2>3, <3>1, <3>2
  <2>5. CASE e # x
    BY <1>4, <2>2, <2>3, <2>5
  <2>6. QED
    BY <2>4, <2>5
<1>6. DOMAIN own' = KeysOf(Exes) \X KeysOf(Sources)
  BY <1>3 DEF OwnInv
<1>7. QED
  BY <1>5, <1>6, Zenon DEF OwnInv

LEMMA AliasesStay == OwnInv /\ [AliasesNext]_aliases_vars => OwnInv'
<1> SUFFICES ASSUME OwnInv, [AliasesNext]_aliases_vars PROVE OwnInv'
  OBVIOUS
<1>1. CASE \E exe \in Exes, source \in Sources :
             \/ EraseAlias(exe, source)
             \/ \E target \in Targets : AddAlias(exe, source, target)
  BY <1>1, AliasAdded, AliasErased, Zenon
<1>2. CASE UNCHANGED <<aliases_by_exe, own>>
  BY <1>2, Zenon DEF OwnInv
<1>3. AliasesNext =>
        \/ \E exe \in Exes, source \in Sources :
             \/ EraseAlias(exe, source)
             \/ \E target \in Targets : AddAlias(exe, source, target)
        \/ UNCHANGED <<aliases_by_exe, own>>
  BY Zenon DEF AliasesNext, get_alias, Remember, expunge_history, GetLength, GetListing
<1>4. UNCHANGED aliases_vars => UNCHANGED <<aliases_by_exe, own>>
  BY Zenon DEF aliases_vars
<1>5. QED
  BY <1>1, <1>2, <1>3, <1>4, Zenon

\* api_l3_add_alias, find_alias_value: for any exes, names and spellings, an exe finds the
\* target it set last until it erases it, whatever the other exes add and erase in the table
\* that all share.
THEOREM ExesKeepTheirAliases == AliasesSpec => []AliasKept
<1>1. OwnInv => AliasKept
  <2>1. SUFFICES ASSUME OwnInv, NEW e \in Exes, NEW s \in Sources,
                        own[<<Key(e), Key(s)>>] # "none"
                 PROVE  find_alias_value(Key(e), Key(s)) = own[<<Key(e), Key(s)>>]
    BY Zenon DEF AliasKept
  <2>2. Key(e) \in KeysOf(Exes) /\ Key(s) \in KeysOf(Sources)
    BY DEF KeysOf
  <2>3. /\ Key(e) \in DOMAIN aliases_by_exe /\ Key(s) \in DOMAIN aliases_by_exe[Key(e)]
        /\ aliases_by_exe[Key(e)][Key(s)] = own[<<Key(e), Key(s)>>]
    BY <2>1, <2>2, Zenon DEF OwnInv
  <2>4. QED
    BY <2>3 DEF find_alias_value
<1>2. QED
  BY <1>1, AliasesStart, AliasesStay, PTL DEF AliasesSpec

-----------------------------------------------------------------------------
(* Settings: the inductive invariant *)

Fields == {"input_mode", "output_mode", "input_code_page", "output_code_page", "cursor",
           "title", "original_title", "font", "display_mode", "history"}

Text == Seq({"t", "e"})

SettingsTypes ==
  /\ DOMAIN state = Fields /\ DOMAIN told = Fields \cup {"font_size"}
  /\ state.title \in Text /\ state.original_title \in Text
  /\ state.history \in [size : Nat, no_dup : BOOLEAN]

\* Clients were told what the console has.
ToldInv ==
  /\ \A f \in Fields : told[f] = state[f]
  /\ told.font_size = state.font.size
  /\ history_capacity = state.history.size

\* What the latest call answered of a title.
TitleTold(title) ==
  /\ title.used <= title.room /\ IsPrefix(title.text, told[title.of])
  /\ title.length \in 1..title.room => title.text = told[title.of]

AnswerInv ==
  /\ \A setting \in DOMAIN answered.reads \cap DOMAIN told :
       answered.reads[setting] = told[setting]
  /\ "language" \in DOMAIN answered.reads =>
       answered.reads.language = Language(told.output_code_page)
  /\ "a title" \in DOMAIN answered.reads => TitleTold(answered.reads["a title"])

SettingsInv == SettingsTypes /\ ToldInv /\ AnswerInv

-----------------------------------------------------------------------------
(* Settings: lemmas about titles *)

LEMMA Widths ==
  ASSUME NEW text \in Text
  PROVE  /\ WideUnits(text) \in Nat /\ Len(text) <= WideUnits(text)
         /\ \A page : EncodedBytes(text, page) \in Nat
<1>1. Len(text) \in Nat /\ DOMAIN text = 1..Len(text)
  BY DEF Text
<1>2. IsFiniteSet(1..Len(text))
  BY <1>1, FS_Interval
<1>3. Pairs(text) \subseteq 1..Len(text)
  BY <1>1 DEF Pairs
<1>4. Cardinality(Pairs(text)) \in Nat
  BY <1>2, <1>3, FS_Subset, FS_CardinalityType
<1>5. WideUnits(text) \in Nat /\ Len(text) <= WideUnits(text)
  BY <1>1, <1>4 DEF WideUnits
<1>6. ASSUME NEW page PROVE EncodedBytes(text, page) \in Nat
  BY <1>1, <1>4 DEF EncodedBytes
<1>7. QED
  BY <1>5, <1>6

LEMMA EmptyText ==
  /\ <<>> \in Text /\ WideUnits(<<>>) = 0 /\ \A page : EncodedBytes(<<>>, page) = 0
<1>1. <<>> \in Text /\ Len(<<>>) = 0 /\ Pairs(<<>>) = {}
  BY DEF Text, Pairs
<1>2. Cardinality({}) = 0
  BY FS_EmptySet
<1>3. WideUnits(<<>>) = 0
  BY <1>1, <1>2 DEF WideUnits
<1>4. ASSUME NEW page PROVE EncodedBytes(<<>>, page) = 0
  <2>1. Cardinality(Pairs(<<>>)) = 0 /\ Len(<<>>) = 0
    BY <1>1, <1>2, Zenon
  <2>2. 0 + 3 * 0 = 0 /\ 0 + 1 * 0 = 0
    OBVIOUS
  <2>3. QED
    BY <2>1, <2>2, Zenon DEF EncodedBytes
<1>5. QED
  BY <1>1, <1>3, <1>4

LEMMA LargestNumber ==
  ASSUME NEW m \in Nat, NEW I, I \subseteq 0..m, I # {}
  PROVE  \E n \in I : \A i \in I : i <= n
<1> DEFINE J == {j \in 0..m : m - j \in I}
<1>1. J \subseteq Nat
  OBVIOUS
<1>2. J # {}
  <2>1. PICK i \in I : TRUE
    OBVIOUS
  <2>2. m - i \in 0..m /\ m - (m - i) = i
    BY <2>1
  <2>3. QED
    BY <2>1, <2>2
<1>3. PICK j \in J : \A k \in J : j <= k
  BY <1>1, <1>2, LeastNumber, Zenon
<1>4. m - j \in I /\ j \in 0..m
  OBVIOUS
<1>5. ASSUME NEW i \in I PROVE i <= m - j
  <2>1. m - i \in J /\ i \in 0..m
    <3>1. i \in 0..m
      OBVIOUS
    <3>2. m - i \in 0..m /\ m - (m - i) = i
      BY <3>1
    <3>3. QED
      BY <3>1, <3>2
  <2>2. j <= m - i
    BY <1>3, <2>1
  <2>3. QED
    BY <1>4, <2>1, <2>2
<1>6. QED
  BY <1>4, <1>5

\* The longest beginning that fits, which is all of a text that fits.
LEMMA PrefixFits ==
  ASSUME NEW text \in Text, NEW units \in Nat
  PROVE  /\ Prefix(text, units) \in Text /\ WideUnits(Prefix(text, units)) <= units
         /\ IsPrefix(Prefix(text, units), text)
         /\ WideUnits(text) <= units => Prefix(text, units) = text
<1> DEFINE fits == {n \in 0..Len(text) : WideUnits(SubSeq(text, 1, n)) <= units}
           n == CHOOSE n \in fits : \A k \in fits : k <= n
<1>1. Len(text) \in Nat /\ text \in Seq({"t", "e"})
  BY DEF Text
<1>2. fits # {}
  <2>1. SubSeq(text, 1, 0) = <<>>
    BY <1>1
  <2>2. WideUnits(SubSeq(text, 1, 0)) <= units
    <3>1. WideUnits(<<>>) = 0 /\ 0 <= units
      BY EmptyText
    <3>2. QED
      BY <2>1, <3>1, Zenon
  <2>3. 0 \in 0..Len(text)
    BY <1>1
  <2>4. 0 \in fits
    BY <2>2, <2>3, Zenon
  <2>5. QED
    BY <2>4, Zenon
<1>3. fits \subseteq 0..Len(text)
  BY Zenon
<1>4. Prefix(text, units) = SubSeq(text, 1, n)
  BY Zenon DEF Prefix
<1>5. /\ \A k \in fits : WideUnits(SubSeq(text, 1, k)) <= units
      /\ \A k \in 0..Len(text) : WideUnits(SubSeq(text, 1, k)) <= units => k \in fits
  BY Zenon
<1> HIDE DEF fits
<1>6. \E k \in fits : \A i \in fits : i <= k
  BY <1>1, <1>2, <1>3, LargestNumber, Zenon
<1>7. n \in fits /\ \A k \in fits : k <= n
  BY <1>6, Zenon
<1> HIDE DEF n
<1>8. n \in 0..Len(text) /\ WideUnits(SubSeq(text, 1, n)) <= units
  BY <1>3, <1>5, <1>7, Zenon
<1>9. SubSeq(text, 1, n) \in Seq({"t", "e"}) /\ Len(SubSeq(text, 1, n)) = n
  BY <1>1, <1>8, PrefixIs
<1>10. IsPrefix(SubSeq(text, 1, n), text)
  <2>1. SubSeq(SubSeq(text, 1, n), 1, n) = SubSeq(text, 1, n)
    BY <1>1, <1>8, <1>9
  <2>2. n <= Len(text)
    BY <1>8
  <2>3. QED
    BY <1>9, <2>1, <2>2 DEF IsPrefix
<1>11. WideUnits(text) <= units => SubSeq(text, 1, n) = text
  <2>1. SubSeq(text, 1, Len(text)) = text
    BY <1>1
  <2>2. Len(text) \in 0..Len(text)
    BY <1>1
  <2>3. WideUnits(text) <= units => Len(text) \in fits
    BY <1>5, <2>1, <2>2, Zenon
  <2>4. WideUnits(text) <= units => n = Len(text)
    BY <1>1, <1>7, <1>8, <2>3
  <2>5. QED
    BY <2>1, <2>4, Zenon
<1>12. QED
  BY <1>4, <1>8, <1>9, <1>10, <1>11, Zenon DEF Text

-----------------------------------------------------------------------------
(* Settings: the actions *)

\* A call that reads nothing.
LEMMA Silent ==
  ASSUME answered'.reads = <<>>
  PROVE  AnswerInv'
<1>1. DOMAIN answered'.reads = {}
  <2>1. DOMAIN (<<>>) = {}
    OBVIOUS
  <2>2. QED
    BY <2>1
<1>2. QED
  BY <1>1, Zenon DEF AnswerInv

LEMMA SameSettings ==
  ASSUME SettingsInv, UNCHANGED <<state, history_capacity, told>>, AnswerInv'
  PROVE  SettingsInv'
<1>1. SettingsTypes' /\ ToldInv'
  BY Zenon DEF SettingsInv, SettingsTypes, ToldInv
<1>2. QED
  BY <1>1, Zenon DEF SettingsInv

LEMMA AnswerStep ==
  ASSUME SettingsInv, NEW setting, NEW value, Answers(setting, value),
         setting \in DOMAIN told => value = told[setting],
         setting = "language" => value = Language(told.output_code_page),
         setting = "a title" => TitleTold(value)
  PROVE  SettingsInv'
<1>1. /\ DOMAIN answered'.reads = {setting} /\ answered'.reads[setting] = value
      /\ UNCHANGED <<state, history_capacity, told, changes>>
  BY DEF Answers, Ok, One
<1>2. \A s \in DOMAIN answered'.reads \cap DOMAIN told' : answered'.reads[s] = told'[s]
  BY <1>1, Zenon
<1>3. "language" \in DOMAIN answered'.reads =>
        answered'.reads.language = Language(told'.output_code_page)
  BY <1>1, Zenon
<1>4. "a title" \in DOMAIN answered'.reads => TitleTold(answered.reads["a title"])'
  <2>1. told' = told
    BY <1>1
  <2>2. "a title" \in DOMAIN answered'.reads => answered'.reads["a title"] = value
    BY <1>1, Zenon
  <2>3. "a title" \in DOMAIN answered'.reads => setting = "a title"
    BY <1>1, Zenon
  <2>4. QED
    BY <1>1, <2>1, <2>2, <2>3, Zenon DEF TitleTold
<1>5. AnswerInv'
  BY <1>2, <1>3, <1>4, Zenon DEF AnswerInv
<1>6. QED
  BY <1>1, <1>5, SameSettings, Zenon

\* A call that sets what the client was told.
LEMMA SetStep ==
  ASSUME SettingsInv, NEW told_now, NEW new, Sets(told_now, new), answered'.reads = <<>>,
         DOMAIN new = Fields,
         \A f \in Fields : new[f] = IF f \in DOMAIN told_now THEN told_now[f] ELSE state[f],
         new["font"].size = IF "font_size" \in DOMAIN told_now THEN told_now["font_size"]
                            ELSE told["font_size"],
         new["title"] \in Text, new["original_title"] \in Text,
         new["history"] \in [size : Nat, no_dup : BOOLEAN],
         history_capacity' = new["history"].size
  PROVE  SettingsInv'
<1>1. /\ DOMAIN state = Fields /\ DOMAIN told = Fields \cup {"font_size"}
      /\ \A f \in Fields : told[f] = state[f]
  BY Zenon DEF SettingsInv, SettingsTypes, ToldInv
<1>2. /\ state' = new
      /\ told' = [s \in DOMAIN told |-> IF s \in DOMAIN told_now THEN told_now[s] ELSE told[s]]
  BY Zenon DEF Sets
<1>3. /\ DOMAIN told' = DOMAIN told
      /\ \A s \in DOMAIN told :
           told'[s] = IF s \in DOMAIN told_now THEN told_now[s] ELSE told[s]
  BY <1>2
<1>4. \A f \in Fields : told'[f] = state'[f]
  BY <1>1, <1>2, <1>3
<1>5. told'["font_size"] = state'["font"].size
  BY <1>1, <1>2, <1>3
<1>6. SettingsTypes'
  BY <1>1, <1>2, <1>3, Zenon DEF SettingsTypes
<1>7. ToldInv'
  BY <1>2, <1>4, <1>5, Zenon DEF ToldInv
<1>8. QED
  BY <1>6, <1>7, Silent, Zenon DEF SettingsInv

\* One setting that no other depends on.
LEMMA OneSet ==
  ASSUME SettingsInv, NEW g \in Fields \ {"title", "original_title", "font", "history"},
         NEW value, NEW told_now, Sets(told_now, [state EXCEPT ![g] = value]),
         DOMAIN told_now = {g}, told_now[g] = value,
         answered'.reads = <<>>, UNCHANGED history_capacity
  PROVE  SettingsInv'
<1> DEFINE new == [state EXCEPT ![g] = value]
<1>1. /\ DOMAIN state = Fields /\ state["title"] \in Text /\ state["original_title"] \in Text
      /\ state["history"] \in [size : Nat, no_dup : BOOLEAN]
      /\ told["font_size"] = state["font"].size /\ history_capacity = state["history"].size
  BY Zenon DEF SettingsInv, SettingsTypes, ToldInv
<1>2. DOMAIN new = Fields /\ \A f \in Fields : new[f] = IF f = g THEN value ELSE state[f]
  BY <1>1
<1>3. Sets(told_now, new)
  OBVIOUS
<1> HIDE DEF new
<1>4. /\ new["title"] = state["title"] /\ new["original_title"] = state["original_title"]
      /\ new["font"] = state["font"] /\ new["history"] = state["history"]
  BY <1>2 DEF Fields
<1>5. \A f \in Fields : new[f] = IF f \in DOMAIN told_now THEN told_now[f] ELSE state[f]
  BY <1>2
<1>6. "font_size" \notin DOMAIN told_now
  BY DEF Fields
<1>7. QED
  BY <1>1, <1>2, <1>3, <1>4, <1>5, <1>6, SetStep

\* A title that a client or a program set; the original one changes with it or not.
LEMMA TitleSet ==
  ASSUME SettingsInv, NEW title \in WindowTitles, SettingsAssumption,
         NEW told_now, NEW new, Sets(told_now, new),
         answered'.reads = <<>>, UNCHANGED history_capacity,
         \/ new = [state EXCEPT !.title = title] /\ told_now = [title |-> title]
         \/ /\ new = [state EXCEPT !.title = title, !.original_title = title]
            /\ told_now = [title |-> title, original_title |-> title]
  PROVE  SettingsInv'
<1>1. /\ DOMAIN state = Fields /\ state["title"] \in Text /\ state["original_title"] \in Text
      /\ state["history"] \in [size : Nat, no_dup : BOOLEAN]
      /\ told["font_size"] = state["font"].size /\ history_capacity = state["history"].size
  BY Zenon DEF SettingsInv, SettingsTypes, ToldInv
<1>2. title \in Text
  BY DEF SettingsAssumption, Text
<1>3. /\ DOMAIN new = Fields
      /\ \A f \in Fields : new[f] = IF f \in DOMAIN told_now THEN told_now[f] ELSE state[f]
      /\ "font_size" \notin DOMAIN told_now
      /\ new["title"] \in Text /\ new["original_title"] \in Text
      /\ new["font"] = state["font"] /\ new["history"] = state["history"]
  <2>1. CASE new = [state EXCEPT !.title = title] /\ told_now = [title |-> title]
    BY <1>1, <1>2, <2>1 DEF Fields
  <2>2. CASE /\ new = [state EXCEPT !.title = title, !.original_title = title]
             /\ told_now = [title |-> title, original_title |-> title]
    BY <1>1, <1>2, <2>2 DEF Fields
  <2>3. QED
    BY <2>1, <2>2
<1>4. QED
  BY <1>1, <1>3, SetStep

LEMMA ModeStep ==
  ASSUME SettingsInv, api_set_input_mode \/ api_set_output_mode \/ api_get_mode
  PROVE  SettingsInv'
<1>1. ASSUME NEW status, answered' = Failed(status) PROVE answered'.reads = <<>>
  BY <1>1 DEF Failed
<1>2. answered' = Done => answered'.reads = <<>>
  BY DEF Done
<1>3. CASE api_set_input_mode
  <2>1. PICK mode \in InputModes :
          /\ Sets([input_mode |-> mode \ {"insert"}],
                  [state EXCEPT !.input_mode = mode \ private_input_modes])
          /\ answered' = IF "undefined" \in mode \/ ("echo" \in mode /\ "line" \notin mode)
                         THEN Failed("invalid_parameter") ELSE Done
          /\ UNCHANGED history_capacity
    BY <1>3, Zenon DEF api_set_input_mode
  <2>2. answered'.reads = <<>>
    BY <1>1, <1>2, <2>1, Zenon
  <2>3. Sets([input_mode |-> mode \ {"insert"}], [state EXCEPT !["input_mode"] = mode \ {"insert"}])
    BY <2>1, Zenon DEF private_input_modes
  <2> DEFINE now == [input_mode |-> mode \ {"insert"}]
  <2>4. DOMAIN now = {"input_mode"} /\ now["input_mode"] = mode \ {"insert"}
    OBVIOUS
  <2>5. "input_mode" \in Fields \ {"title", "original_title", "font", "history"}
    BY DEF Fields
  <2>6. QED
    BY <2>1, <2>2, <2>3, <2>4, <2>5, OneSet, Zenon
<1>4. CASE api_set_output_mode
  <2>1. PICK mode \in OutputModes \cup {{"undefined"}} :
          IF "undefined" \in mode THEN Fails
          ELSE /\ Sets([output_mode |-> mode], [state EXCEPT !["output_mode"] = mode])
               /\ answered' = Done /\ UNCHANGED history_capacity
    BY <1>4, Zenon DEF api_set_output_mode
  <2> DEFINE now == [output_mode |-> mode]
  <2>2. DOMAIN now = {"output_mode"} /\ now["output_mode"] = mode
    OBVIOUS
  <2>3. "output_mode" \in Fields \ {"title", "original_title", "font", "history"}
    BY DEF Fields
  <2>4. CASE Fails
    BY <1>1, <2>4, Silent, SameSettings, Zenon DEF Fails
  <2>5. QED
    BY <1>2, <2>1, <2>2, <2>3, <2>4, OneSet, Zenon
<1>5. CASE api_get_mode
  <2>1. \/ Answers("input_mode", state["input_mode"])
        \/ Answers("output_mode", state["output_mode"])
    BY <1>5, Zenon DEF api_get_mode
  <2>2. /\ told["input_mode"] = state["input_mode"] /\ told["output_mode"] = state["output_mode"]
    BY DEF SettingsInv, ToldInv, Fields
  <2>3. /\ "input_mode" # "language" /\ "input_mode" # "a title"
        /\ "output_mode" # "language" /\ "output_mode" # "a title"
    OBVIOUS
  <2>4. QED
    BY <2>1, <2>2, <2>3, AnswerStep, Zenon
<1>6. QED
  BY <1>3, <1>4, <1>5

LEMMA PageStep ==
  ASSUME SettingsInv, api_set_cp \/ api_get_cp \/ api_get_langid
  PROVE  SettingsInv'
<1>1. /\ Failed("invalid_parameter").reads = <<>> /\ Failed("not_supported").reads = <<>>
      /\ Done.reads = <<>>
  BY DEF Failed, Done
<1>2. ASSUME NEW output \in BOOLEAN
      PROVE  /\ Page(output) \in Fields \ {"title", "original_title", "font", "history"}
             /\ Page(output) \notin {"language", "a title"}
             /\ told[Page(output)] = state[Page(output)]
  BY DEF Page, Fields, SettingsInv, ToldInv
<1>3. CASE api_set_cp
  <2>1. PICK output \in BOOLEAN, page \in CodePages \cup {"invalid"} :
          IF page = "invalid" THEN Fails
          ELSE /\ Sets(One(Page(output), page), [state EXCEPT ![Page(output)] = page])
               /\ answered' = Done /\ UNCHANGED history_capacity
    BY <1>3, Zenon DEF api_set_cp
  <2>2. DOMAIN One(Page(output), page) = {Page(output)}
        /\ One(Page(output), page)[Page(output)] = page
    BY DEF One
  <2>3. CASE Fails
    BY <1>1, <2>3, Silent, SameSettings, Zenon DEF Fails
  <2>4. QED
    BY <1>1, <1>2, <2>1, <2>2, <2>3, OneSet, Zenon
<1>4. CASE api_get_cp
  BY <1>2, <1>4, AnswerStep, Zenon DEF api_get_cp
<1>5. CASE api_get_langid
  <2>1. "language" \notin DOMAIN told
    BY DEF SettingsInv, SettingsTypes, Fields
  <2>2. told["output_code_page"] = state["output_code_page"]
    BY DEF SettingsInv, ToldInv, Fields
  <2>3. "language" # "a title"
    OBVIOUS
  <2>4. CASE answered' = Failed("not_supported")
             /\ UNCHANGED <<state, history_capacity, told, changes>>
    BY <1>1, <2>4, Silent, SameSettings, Zenon
  <2>5. CASE Answers("language", Language(state.output_code_page))
    BY <2>1, <2>2, <2>3, <2>5, AnswerStep, Zenon
  <2>6. QED
    BY <1>5, <2>4, <2>5, Zenon DEF api_get_langid
<1>6. QED
  BY <1>3, <1>4, <1>5

LEMMA CursorStep ==
  ASSUME SettingsInv, SetCursorInfo \/ api_get_cursor
  PROVE  SettingsInv'
<1>1. "cursor" \in Fields \ {"title", "original_title", "font", "history"}
  BY DEF Fields
<1>2. Failed("invalid_parameter").reads = <<>> /\ Done.reads = <<>>
  BY DEF Failed, Done
<1>3. CASE SetCursorInfo
  <2>1. PICK cursor :
          \/ Fails
          \/ /\ Sets([cursor |-> cursor], [state EXCEPT !["cursor"] = cursor])
             /\ answered' = Done /\ UNCHANGED history_capacity
    BY <1>3, Zenon DEF SetCursorInfo
  <2> DEFINE now == [cursor |-> cursor]
  <2>2. DOMAIN now = {"cursor"} /\ now["cursor"] = cursor
    OBVIOUS
  <2>3. CASE Fails
    BY <1>2, <2>3, Silent, SameSettings, Zenon DEF Fails
  <2>4. QED
    BY <1>1, <1>2, <2>1, <2>2, <2>3, OneSet, Zenon
<1>4. CASE api_get_cursor
  <2>1. told["cursor"] = state["cursor"] /\ "cursor" # "language" /\ "cursor" # "a title"
    BY DEF SettingsInv, ToldInv, Fields
  <2>2. QED
    BY <1>4, <2>1, AnswerStep, Zenon DEF api_get_cursor
<1>5. QED
  BY <1>3, <1>4

LEMMA TitleStep ==
  ASSUME SettingsInv, SettingsAssumption, SetTitle
  PROVE  SettingsInv'
<1>1. PICK title \in WindowTitles :
        /\ Sets(IF told.title = <<>> THEN [title |-> title, original_title |-> title]
                ELSE [title |-> title], Retitled(title))
        /\ answered' = Done /\ UNCHANGED history_capacity
  BY Zenon DEF SetTitle
<1>2. answered'.reads = <<>>
  BY <1>1 DEF Done
<1>3. told["title"] = state["title"] /\ DOMAIN state = Fields
  BY DEF SettingsInv, SettingsTypes, ToldInv, Fields
<1>4. Retitled(title) = [state EXCEPT !.title = title, !.original_title =
                           IF state["title"] = <<>> THEN title ELSE state["original_title"]]
  BY <1>3 DEF Retitled, Fields
<1>5. CASE told["title"] = <<>>
  <2>1. Retitled(title) = [state EXCEPT !.title = title, !.original_title = title]
    BY <1>3, <1>4, <1>5, Zenon
  <2>2. Sets([title |-> title, original_title |-> title], Retitled(title))
    BY <1>1, <1>5, Zenon
  <2>3. QED
    BY <1>1, <1>2, <2>1, <2>2, TitleSet, Zenon
<1>6. CASE told["title"] # <<>>
  <2>1. Retitled(title) = [state EXCEPT !.title = title]
    BY <1>3, <1>4, <1>6 DEF Fields
  <2>2. Sets([title |-> title], Retitled(title))
    BY <1>1, <1>6, Zenon
  <2>3. QED
    BY <1>1, <1>2, <2>1, <2>2, TitleSet, Zenon
<1>7. QED
  BY <1>5, <1>6

LEMMA ProgramStep ==
  ASSUME SettingsInv, SettingsAssumption, ProgramSets
  PROVE  SettingsInv'
<1>1. answered'.reads = <<>> /\ UNCHANGED history_capacity
  BY DEF ProgramSets, Done
<1>2. CASE \E title \in WindowTitles :
             Sets([title |-> title], [state EXCEPT !.title = title])
  BY <1>1, <1>2, TitleSet, Zenon
<1>3. CASE \E visible \in BOOLEAN :
             Sets([cursor |-> [told.cursor EXCEPT !.visible = visible]],
                  [state EXCEPT !.cursor.visible = visible])
  <2>1. PICK visible \in BOOLEAN :
          Sets([cursor |-> [told.cursor EXCEPT !.visible = visible]],
               [state EXCEPT !.cursor.visible = visible])
    BY <1>3, Zenon
  <2> DEFINE cursor == [state["cursor"] EXCEPT !.visible = visible]
             now == [cursor |-> cursor]
  <2>2. told["cursor"] = state["cursor"] /\ "cursor" \in DOMAIN state
    BY DEF SettingsInv, SettingsTypes, ToldInv, Fields
  <2>3. [state EXCEPT !.cursor.visible = visible] = [state EXCEPT !["cursor"] = cursor]
    BY <2>2, Zenon
  <2>4. Sets(now, [state EXCEPT !["cursor"] = cursor])
    BY <2>1, <2>2, <2>3, Zenon
  <2>5. "cursor" \in Fields \ {"title", "original_title", "font", "history"}
    BY DEF Fields
  <2> HIDE DEF cursor
  <2>6. DOMAIN now = {"cursor"} /\ now["cursor"] = cursor
    OBVIOUS
  <2>7. QED
    BY <1>1, <2>4, <2>5, <2>6, OneSet, Zenon
<1>4. QED
  BY <1>2, <1>3, Zenon DEF ProgramSets

LEMMA TitleReadStep ==
  ASSUME SettingsInv, SettingsAssumption, api_get_title
  PROVE  SettingsInv'
<1>1. PICK of \in {"title", "original_title"}, unicode \in BOOLEAN, room \in TitleRooms :
        LET text == state[of]
            encoded == EncodedBytes(text, state.input_code_page)
            copied == IF unicode THEN Prefix(text, room \div 2)
                      ELSE IF room >= encoded THEN text ELSE <<>>
            length == IF unicode THEN 2 * WideUnits(text)
                      ELSE IF room >= encoded THEN encoded ELSE 0
            used == IF unicode THEN 2 * WideUnits(copied)
                    ELSE EncodedBytes(copied, state.input_code_page)
        IN Answers("a title", [of |-> of, text |-> copied, length |-> length, used |-> used,
                               room |-> room])
  BY Zenon DEF api_get_title
<1> DEFINE text == state[of]
           encoded == EncodedBytes(text, state.input_code_page)
           copied == IF unicode THEN Prefix(text, room \div 2)
                     ELSE IF room >= encoded THEN text ELSE <<>>
           length == IF unicode THEN 2 * WideUnits(text)
                     ELSE IF room >= encoded THEN encoded ELSE 0
           used == IF unicode THEN 2 * WideUnits(copied)
                   ELSE EncodedBytes(copied, state.input_code_page)
           title == [of |-> of, text |-> copied, length |-> length, used |-> used, room |-> room]
<1>2. Answers("a title", title)
  BY <1>1, Zenon
<1>3. text \in Text /\ told[of] = text /\ room \in Nat
  BY DEF SettingsInv, SettingsTypes, ToldInv, Fields, SettingsAssumption
<1>4. /\ WideUnits(text) \in Nat /\ Len(text) <= WideUnits(text) /\ encoded \in Nat
      /\ EncodedBytes(<<>>, state.input_code_page) = 0 /\ Len(text) \in Nat
  BY <1>3, Widths, EmptyText DEF Text
<1> HIDE DEF text, encoded
<1>5. used <= room /\ IsPrefix(copied, text) /\ (length \in 1..room => copied = text)
  <2>1. CASE unicode
    <3>1. room \div 2 \in Nat /\ 2 * (room \div 2) <= room
      BY <1>3
    <3>2. PICK p \in Text :
            /\ p = Prefix(text, room \div 2) /\ WideUnits(p) <= room \div 2
            /\ IsPrefix(p, text) /\ (WideUnits(text) <= room \div 2 => p = text)
      <4>1. /\ Prefix(text, room \div 2) \in Text
            /\ WideUnits(Prefix(text, room \div 2)) <= room \div 2
            /\ IsPrefix(Prefix(text, room \div 2), text)
            /\ WideUnits(text) <= room \div 2 => Prefix(text, room \div 2) = text
        BY <1>3, <3>1, PrefixFits
      <4>2. QED
        BY <4>1, Zenon
    <3>3. WideUnits(p) \in Nat
      BY Widths
    <3>4. 2 * WideUnits(p) <= room
      BY <1>3, <3>1, <3>2, <3>3
    <3>5. 2 * WideUnits(text) \in 1..room => WideUnits(text) <= room \div 2
      BY <1>3, <1>4, <3>1
    <3>6. copied = p /\ length = 2 * WideUnits(text) /\ used = 2 * WideUnits(p)
      BY <2>1, <3>2, Zenon
    <3>7. QED
      BY <3>2, <3>4, <3>5, <3>6, Zenon
  <2>2. CASE ~unicode /\ room >= encoded
    <3>1. copied = text /\ used = encoded
      BY <2>2, Zenon DEF encoded
    <3>2. SubSeq(text, 1, Len(text)) = text
      BY <1>3 DEF Text
    <3>3. IsPrefix(text, text)
      BY <1>4, <3>2 DEF IsPrefix
    <3>4. encoded <= room
      BY <1>3, <1>4, <2>2
    <3>5. QED
      BY <3>1, <3>3, <3>4, Zenon
  <2>3. CASE ~unicode /\ ~(room >= encoded)
    <3>1. copied = <<>> /\ used = 0 /\ length = 0
      BY <1>4, <2>3, Zenon
    <3>2. IsPrefix(<<>>, text)
      <4>1. SubSeq(<<>>, 1, 0) = <<>> /\ SubSeq(text, 1, 0) = <<>> /\ Len(<<>>) = 0
        BY <1>3 DEF Text
      <4>2. 0 <= Len(text)
        BY <1>4
      <4>3. QED
        BY <4>1, <4>2, Zenon DEF IsPrefix
    <3>3. 0 <= room /\ 0 \notin 1..room
      BY <1>3
    <3>4. QED
      BY <3>1, <3>2, <3>3, Zenon
  <2>4. QED
    BY <2>1, <2>2, <2>3, Zenon
<1> HIDE DEF copied, length, used
<1>6. TitleTold(title)
  BY <1>3, <1>5 DEF TitleTold
<1>7. "a title" \notin DOMAIN told /\ "a title" # "language"
  BY DEF SettingsInv, SettingsTypes, Fields
<1> HIDE DEF title
<1>8. QED
  BY <1>2, <1>6, <1>7, AnswerStep, Zenon

\* A call that fails.
LEMMA Refusal ==
  ASSUME SettingsInv, Fails
  PROVE  SettingsInv'
<1>1. answered'.reads = <<>>
  BY DEF Fails, Failed
<1>2. UNCHANGED <<state, history_capacity, told>>
  BY DEF Fails
<1>3. QED
  BY <1>1, <1>2, Silent, SameSettings, Zenon

LEMMA FontStep ==
  ASSUME SettingsInv,
         api_l3_get_font_size \/ api_l3_get_current_font \/ api_l3_set_current_font
  PROVE  SettingsInv'
<1>1. /\ DOMAIN state = Fields /\ state["title"] \in Text /\ state["original_title"] \in Text
      /\ state["history"] \in [size : Nat, no_dup : BOOLEAN]
      /\ told["font_size"] = state["font"].size /\ told["font"] = state["font"]
      /\ history_capacity = state["history"].size
  BY Zenon DEF SettingsInv, SettingsTypes, ToldInv, Fields
<1>2. /\ "font" # "language" /\ "font" # "a title"
      /\ "font_size" # "language" /\ "font_size" # "a title"
  OBVIOUS
<1>3. CASE api_l3_get_font_size
  <2>1. Fails \/ Answers("font_size", state["font"].size)
    BY <1>3, Zenon DEF api_l3_get_font_size
  <2>2. CASE Fails
    BY <2>2, Refusal, Zenon
  <2>3. QED
    BY <1>1, <1>2, <2>1, <2>2, AnswerStep, Zenon
<1>4. CASE api_l3_get_current_font
  <2>1. Answers("font", state["font"])
    BY <1>4, Zenon DEF api_l3_get_current_font
  <2>2. QED
    BY <1>1, <1>2, <2>1, AnswerStep, Zenon
<1>5. CASE api_l3_set_current_font
  <2>1. PICK font \in Fonts :
          /\ Sets([font |-> font, font_size |-> font.size], [state EXCEPT !["font"] = font])
          /\ answered' = Done /\ UNCHANGED history_capacity
    BY <1>5, Zenon DEF api_l3_set_current_font
  <2> DEFINE now == [font |-> font, font_size |-> font.size]
             new == [state EXCEPT !["font"] = font]
  <2>2. Sets(now, new)
    BY <2>1, Zenon
  <2>3. /\ DOMAIN now = {"font", "font_size"} /\ now["font"] = font
        /\ now["font_size"] = font.size
    OBVIOUS
  <2>4. DOMAIN new = Fields /\ \A f \in Fields : new[f] = IF f = "font" THEN font ELSE state[f]
    BY <1>1
  <2> HIDE DEF now, new
  <2>5. \A f \in Fields : new[f] = IF f \in DOMAIN now THEN now[f] ELSE state[f]
    BY <2>3, <2>4 DEF Fields
  <2>6. /\ new["title"] = state["title"] /\ new["original_title"] = state["original_title"]
        /\ new["font"] = font /\ new["history"] = state["history"]
    BY <2>4 DEF Fields
  <2>7. new["font"].size =
          IF "font_size" \in DOMAIN now THEN now["font_size"] ELSE told["font_size"]
    BY <2>3, <2>6
  <2>8. answered'.reads = <<>> /\ history_capacity' = new["history"].size
    BY <1>1, <2>1, <2>6 DEF Done
  <2>9. QED
    BY <1>1, <2>2, <2>4, <2>5, <2>6, <2>7, <2>8, SetStep, Zenon
<1>6. QED
  BY <1>3, <1>4, <1>5

LEMMA DisplayStep ==
  ASSUME SettingsInv, api_l3_set_display_mode \/ api_l3_get_display_mode
  PROVE  SettingsInv'
<1>1. CASE api_l3_set_display_mode
  <2>1. \/ Fails
        \/ \E mode : /\ Sets([display_mode |-> mode], [state EXCEPT !["display_mode"] = mode])
                     /\ answered' = Done /\ UNCHANGED history_capacity
    BY <1>1, Zenon DEF api_l3_set_display_mode
  <2>2. CASE Fails
    BY <2>2, Refusal, Zenon
  <2>3. ASSUME NEW mode, answered' = Done, UNCHANGED history_capacity,
               Sets([display_mode |-> mode], [state EXCEPT !["display_mode"] = mode])
        PROVE  SettingsInv'
    <3> DEFINE now == [display_mode |-> mode]
    <3>1. DOMAIN now = {"display_mode"} /\ now["display_mode"] = mode
      OBVIOUS
    <3>2. "display_mode" \in Fields \ {"title", "original_title", "font", "history"}
      BY DEF Fields
    <3>3. answered'.reads = <<>>
      BY <2>3 DEF Done
    <3>4. QED
      BY <2>3, <3>1, <3>2, <3>3, OneSet, Zenon
  <2>4. QED
    BY <2>1, <2>2, <2>3, Zenon
<1>2. CASE api_l3_get_display_mode
  <2>1. Answers("display_mode", state["display_mode"])
    BY <1>2, Zenon DEF api_l3_get_display_mode
  <2>2. told["display_mode"] = state["display_mode"]
    BY DEF SettingsInv, ToldInv, Fields
  <2>3. "display_mode" # "language" /\ "display_mode" # "a title"
    OBVIOUS
  <2>4. QED
    BY <2>1, <2>2, <2>3, AnswerStep, Zenon
<1>3. QED
  BY <1>1, <1>2

\* The number of commands a history keeps: the console's, the client's and
\* that of the command history.
LEMMA HistorySet ==
  ASSUME SettingsInv, NEW info \in [size : Nat, no_dup : BOOLEAN], NEW told_now, NEW new,
         Sets(told_now, new), DOMAIN new = Fields,
         \A f \in Fields : new[f] = IF f = "history" THEN info ELSE state[f],
         DOMAIN told_now = {"history"}, told_now["history"] = info,
         answered'.reads = <<>>, history_capacity' = info.size
  PROVE  SettingsInv'
<1>1. /\ DOMAIN state = Fields /\ state["title"] \in Text /\ state["original_title"] \in Text
      /\ told["font_size"] = state["font"].size
  BY Zenon DEF SettingsInv, SettingsTypes, ToldInv
<1>2. \A f \in Fields : new[f] = IF f \in DOMAIN told_now THEN told_now[f] ELSE state[f]
  OBVIOUS
<1>3. /\ new["title"] = state["title"] /\ new["original_title"] = state["original_title"]
      /\ new["font"] = state["font"] /\ new["history"] = info
  BY DEF Fields
<1>4. "font_size" \notin DOMAIN told_now
  OBVIOUS
<1>5. new["font"].size =
        IF "font_size" \in DOMAIN told_now THEN told_now["font_size"] ELSE told["font_size"]
  BY <1>1, <1>3, <1>4
<1>6. /\ DOMAIN new = Fields /\ new["title"] \in Text /\ new["original_title"] \in Text
      /\ new["history"] \in [size : Nat, no_dup : BOOLEAN]
      /\ history_capacity' = new["history"].size
  BY <1>1, <1>3
<1>7. QED
  BY <1>2, <1>5, <1>6, SetStep

LEMMA HistoryStep ==
  ASSUME SettingsAssumption, SettingsInv,
         \/ api_l3_set_num_commands \/ api_l3_set_history_info \/ api_l3_get_history_info
  PROVE  SettingsInv'
<1>1. /\ DOMAIN state = Fields /\ told["history"] = state["history"]
      /\ state["history"] \in [size : Nat, no_dup : BOOLEAN]
  BY Zenon DEF SettingsInv, SettingsTypes, ToldInv, Fields
<1>2. Lengths \subseteq Nat
  BY DEF SettingsAssumption
<1>3. CASE api_l3_set_num_commands
  <2>1. PICK kept \in Lengths :
          /\ Sets([history |-> [told["history"] EXCEPT !.size = kept]],
                  [state EXCEPT !["history"].size = kept])
          /\ history_capacity' = kept /\ answered' = Done
    BY <1>3, Zenon DEF api_l3_set_num_commands, resize_history
  <2> DEFINE info == [state["history"] EXCEPT !.size = kept]
             now == [history |-> info]
             new == [state EXCEPT !["history"] = info]
  <2>2. Sets(now, new)
    <3>1. [state EXCEPT !["history"].size = kept] = new
      BY <1>1
    <3>2. QED
      BY <1>1, <2>1, <3>1, Zenon
  <2>3. info \in [size : Nat, no_dup : BOOLEAN] /\ info.size = kept
    BY <1>1, <1>2
  <2>4. DOMAIN now = {"history"} /\ now["history"] = info
    OBVIOUS
  <2>5. answered'.reads = <<>>
    BY <2>1 DEF Done
  <2>6. DOMAIN new = Fields /\ \A f \in Fields : new[f] = IF f = "history" THEN info ELSE state[f]
    BY <1>1
  <2> HIDE DEF info, now, new
  <2>7. QED
    BY <2>1, <2>2, <2>3, <2>4, <2>5, <2>6, HistorySet
<1>4. CASE api_l3_set_history_info
  <2>1. PICK info \in [size : Lengths, no_dup : BOOLEAN] :
          \/ Fails
          \/ /\ Sets([history |-> info], [state EXCEPT !["history"] = info])
             /\ history_capacity' = info.size /\ answered' = Done
    BY <1>4, Zenon DEF api_l3_set_history_info, resize_history
  <2>2. CASE Fails
    BY <2>2, Refusal, Zenon
  <2>3. info \in [size : Nat, no_dup : BOOLEAN]
    BY <1>2
  <2> DEFINE now == [history |-> info]
  <2>4. DOMAIN now = {"history"} /\ now["history"] = info
    OBVIOUS
  <2>5. answered' = Done => answered'.reads = <<>>
    BY DEF Done
  <2> DEFINE new == [state EXCEPT !["history"] = info]
  <2>6. DOMAIN new = Fields /\ \A f \in Fields : new[f] = IF f = "history" THEN info ELSE state[f]
    BY <1>1
  <2>7. Fails \/ (Sets(now, new) /\ history_capacity' = info.size /\ answered' = Done)
    BY <2>1, Zenon
  <2> HIDE DEF now, new
  <2>8. QED
    BY <2>2, <2>3, <2>4, <2>5, <2>6, <2>7, HistorySet
<1>5. CASE api_l3_get_history_info
  <2>1. Answers("history", state["history"])
    BY <1>5, Zenon DEF api_l3_get_history_info
  <2>2. "history" # "language" /\ "history" # "a title"
    OBVIOUS
  <2>3. QED
    BY <1>1, <2>1, <2>2, AnswerStep, Zenon
<1>6. QED
  BY <1>3, <1>4, <1>5

LEMMA RefusedStep ==
  ASSUME SettingsInv, Refused
  PROVE  SettingsInv'
<1>1. \E status : /\ answered' = Failed(status)
                  /\ UNCHANGED <<state, history_capacity, told>>
  BY Zenon DEF Refused
<1>2. answered'.reads = <<>>
  BY <1>1 DEF Failed
<1>3. QED
  BY <1>1, <1>2, Silent, SameSettings, Zenon

LEMMA SettingsStart == SettingsInit => SettingsInv
<1> SUFFICES ASSUME SettingsInit PROVE SettingsInv
  OBVIOUS
<1>1. /\ DOMAIN Defaults = Fields /\ Defaults["title"] = <<>> /\ Defaults["original_title"] = <<>>
      /\ Defaults["history"] = [size |-> 50, no_dup |-> FALSE]
  BY DEF Defaults, Fields
<1>2. state = Defaults /\ history_capacity = state["history"].size
  BY Zenon DEF SettingsInit
<1>3. /\ DOMAIN told = Fields \cup {"font_size"}
      /\ \A f \in Fields : told[f] = state[f]
      /\ told["font_size"] = state["font"].size
  <2>1. told = [s \in Fields \cup {"font_size"} |->
                 IF s = "font_size" THEN state["font"].size ELSE state[s]]
    BY <1>1, <1>2, Zenon DEF SettingsInit
  <2>2. "font_size" \notin Fields
    BY DEF Fields
  <2>3. QED
    BY <2>1, <2>2
<1>4. [size |-> 50, no_dup |-> FALSE] \in [size : Nat, no_dup : BOOLEAN]
  OBVIOUS
<1>5. SettingsTypes
  BY <1>1, <1>2, <1>3, <1>4, EmptyText, Zenon DEF SettingsTypes
<1>6. AnswerInv
  <2>1. DOMAIN answered.reads = {}
    <3>1. answered.reads = <<>>
      BY DEF SettingsInit, Done
    <3>2. DOMAIN (<<>>) = {}
      OBVIOUS
    <3>3. QED
      BY <3>1, <3>2
  <2>2. QED
    BY <2>1, Zenon DEF AnswerInv
<1>7. QED
  BY <1>2, <1>3, <1>5, <1>6, Zenon DEF SettingsInv, ToldInv

LEMMA SettingsStep ==
  SettingsAssumption /\ SettingsInv /\ [SettingsNext]_settings_vars => SettingsInv'
<1> SUFFICES ASSUME SettingsAssumption, SettingsInv, [SettingsNext]_settings_vars
             PROVE  SettingsInv'
  OBVIOUS
<1>1. CASE Refused
  BY <1>1, RefusedStep
<1>2. CASE api_set_input_mode \/ api_set_output_mode \/ api_get_mode
  BY <1>2, ModeStep
<1>3. CASE api_set_cp \/ api_get_cp \/ api_get_langid
  BY <1>3, PageStep
<1>4. CASE SetCursorInfo \/ api_get_cursor
  BY <1>4, CursorStep
<1>5. CASE SetTitle
  BY <1>5, TitleStep
<1>6. CASE ProgramSets
  BY <1>6, ProgramStep
<1>7. CASE api_get_title
  BY <1>7, TitleReadStep
<1>8. CASE api_l3_get_font_size \/ api_l3_get_current_font \/ api_l3_set_current_font
  BY <1>8, FontStep
<1>9. CASE api_l3_set_display_mode \/ api_l3_get_display_mode
  BY <1>9, DisplayStep
<1>10. CASE api_l3_set_num_commands \/ api_l3_set_history_info \/ api_l3_get_history_info
  BY <1>10, HistoryStep
<1>11. CASE UNCHANGED settings_vars
  <2>1. UNCHANGED <<state, history_capacity, told, answered>>
    BY <1>11 DEF settings_vars
  <2>2. AnswerInv'
    BY <2>1, Zenon DEF SettingsInv, AnswerInv, TitleTold
  <2>3. QED
    BY <2>1, <2>2, SameSettings, Zenon
<1>12. QED
  BY <1>1, <1>2, <1>3, <1>4, <1>5, <1>6, <1>7, <1>8, <1>9, <1>10, <1>11, Zenon
     DEF SettingsNext

\* ReadsBack: what a client reads of the console's settings is what was last
\* set, by whichever call or sequence; a title fills no more than its
\* reader's buffer and is whole when its length says that it fits; the
\* command history keeps as many commands as clients are told.
THEOREM ClientsReadBack == SettingsAssumption => (SettingsSpec => []ReadsBack)
<1> SUFFICES ASSUME SettingsAssumption PROVE SettingsSpec => []ReadsBack
  OBVIOUS
<1>1. SettingsInit => SettingsInv
  BY SettingsStart
<1>2. SettingsInv /\ [SettingsNext]_settings_vars => SettingsInv'
  BY SettingsStep
<1>3. SettingsInv => ReadsBack
  <2> SUFFICES ASSUME SettingsInv PROVE ReadsBack
    OBVIOUS
  <2>1. history_capacity = told.history.size
    BY Zenon DEF SettingsInv, ToldInv, Fields
  <2>2. QED
    BY <2>1, Zenon DEF SettingsInv, AnswerInv, TitleTold, ReadsBack
<1>4. QED
  BY <1>1, <1>2, <1>3, PTL DEF SettingsSpec

-----------------------------------------------------------------------------
(* Launch: the inductive invariant *)

\* Tokens; the options' names are listed, as provers do not take a literal for a STRING.
Words == STRING \cup Known \cup Measures \cup {"pty", "--", "number"}
AnyToken == [t : Words, n : Int]

\* What libconpty's line asks for, option by option.
Wanted(a) ==
  [Unset EXCEPT !["--headless"] = 1, !["--inheritcursor"] = IF a.inherit THEN 1 ELSE 0,
                !["--ambiguousIsWide"] = IF a.wide THEN 1 ELSE 0,
                !["--textMeasurement"] = Measured(a.glyphs),
                !["--width"] = a.width, !["--height"] = a.height,
                !["--signal"] = a.signal, !["--server"] = a.server]

\* The options in `read' are set as asked and `left' is left of the line.
HasRead(a, read, left) ==
  /\ tokens = left /\ DOMAIN options = DOMAIN Unset
  /\ \A o \in DOMAIN Unset : options[o] = IF o \in read THEN Wanted(a)[o] ELSE Unset[o]

Server(a) == <<Word("--server"), Handle(a.server)>>
Signal(a) == <<Word("--signal"), Handle(a.signal)>> \o Server(a)
Height(a) == <<Word("--height"), Number(a.height)>> \o Signal(a)
WidthOn(a) == <<Word("--width"), Number(a.width)>> \o Height(a)
GlyphsOn(a) == GlyphWidth(a.glyphs) \o WidthOn(a)
WideOn(a) == When(a.wide, <<Word("--ambiguousIsWide")>>) \o GlyphsOn(a)
InheritOn(a) == When(a.inherit, <<Word("--inheritcursor")>>) \o WideOn(a)
WholeLine(a) == <<Word("--headless")>> \o InheritOn(a)

Read1 == {"--headless"}
Read2 == Read1 \cup {"--inheritcursor"}
Read3 == Read2 \cup {"--ambiguousIsWide"}
Read4 == Read3 \cup {"--textMeasurement"}
Read5 == Read4 \cup {"--width"}
Read6 == Read5 \cup {"--height"}
Read7 == Read6 \cup {"--signal"}
Read8 == Read7 \cup {"--server"}

LineRead(a) ==
  \/ HasRead(a, {}, WholeLine(a)) \/ HasRead(a, Read1, InheritOn(a))
  \/ HasRead(a, Read2, WideOn(a)) \/ HasRead(a, Read3, GlyphsOn(a))
  \/ HasRead(a, Read4, WidthOn(a)) \/ HasRead(a, Read5, Height(a))
  \/ HasRead(a, Read6, Signal(a)) \/ HasRead(a, Read7, Server(a))
  \/ HasRead(a, Read8, <<>>)

AskedOfConpty ==
  [width : AskedSizes \ {0}, height : AskedSizes \ {0}, signal : HandleNumbers,
   server : HandleNumbers, inherit : BOOLEAN, wide : BOOLEAN, glyphs : {0, 8, 16, 24}]

ConptyOn(a) ==
  /\ parsing \in {"parsing", "parsed", "refused"}
  /\ parsing = "refused" => ~({a.width, a.height} \subseteq SizeValues)
  /\ parsing # "refused" => command = <<>> /\ LineRead(a)
  /\ parsing = "parsed" => HasRead(a, Read8, <<>>)

ConptyInv == asked_for \in AskedOfConpty /\ ConptyOn(asked_for)

Legacy == {<<>>, <<Word("-ForceV1")>>}

WindowsInv ==
  /\ asked_for \in HandleNumbers /\ parsing # "refused" /\ DOMAIN options = DOMAIN Unset
  /\ options["-Embedding"] = 0
  /\ \/ /\ parsing = "parsing" /\ options["0x"] = 0
        /\ \E rest \in Legacy : \/ tokens = <<Word("path"), Handle(asked_for)>> \o rest
                                \/ tokens = <<Handle(asked_for)>> \o rest
     \/ options["0x"] = asked_for /\ tokens \in Legacy

ComInv ==
  /\ parsing # "refused" /\ DOMAIN options = DOMAIN Unset
  /\ \/ parsing = "parsing" /\ tokens = <<Word("-Embedding")>>
     \/ tokens = <<>> /\ options["-Embedding"] = 1

\* The options a user may begin with.
UserOptions ==
  {<<Word("--vtmode")>>, <<Word("--width"), Number(2)>>, <<Word("--feature"), Word("pty")>>}

Own(dashes, c) == IF dashes THEN <<Word("--")>> \o c ELSE c

UserInv ==
  /\ asked_for \in ClientCommands /\ parsing # "refused" /\ DOMAIN options = DOMAIN Unset
  /\ options["-Embedding"] = 0 /\ options["0x"] = 0 /\ options["--headless"] = 0
  /\ parsing = "parsed" => command = asked_for
  /\ parsing = "parsing" =>
       /\ command = <<>>
       /\ \E dashes \in BOOLEAN :
            /\ ~dashes /\ asked_for # <<>> => Head(asked_for).t \notin Known \cup {"--"}
            /\ \/ tokens = Own(dashes, asked_for)
               \/ \E o \in UserOptions : tokens = o \o Own(dashes, asked_for)

LaunchInv ==
  \/ started_by = "libconpty" /\ ConptyInv
  \/ started_by = "windows" /\ WindowsInv
  \/ started_by = "com" /\ ComInv
  \/ started_by = "user" /\ UserInv

-----------------------------------------------------------------------------
(* Launch: lemmas about the command line *)

LEMMA AheadOne ==
  ASSUME NEW S, NEW x \in S, NEW rest \in Seq(S)
  PROVE  /\ <<x>> \o rest # <<>> /\ Head(<<x>> \o rest) = x
         /\ SubSeq(<<x>> \o rest, 1 + 1, Len(<<x>> \o rest)) = rest
         /\ Tail(<<x>> \o rest) = rest /\ <<x>> \o rest \in Seq(S)
<1>1. <<x>> \in Seq(S) /\ Len(<<x>>) = 1 /\ <<x>>[1] = x
  OBVIOUS
<1> DEFINE all == <<x>> \o rest
<1>2. /\ all \in Seq(S) /\ Len(all) = 1 + Len(rest)
      /\ \A i \in 1..Len(all) : all[i] = IF i <= 1 THEN <<x>>[i] ELSE rest[i - 1]
  BY <1>1
<1>3. Len(rest) \in Nat /\ rest = [i \in 1..Len(rest) |-> rest[i]]
  OBVIOUS
<1> HIDE DEF all
<1>4. all # <<>> /\ all[1] = x
  BY <1>1, <1>2, <1>3
<1>5. SubSeq(all, 2, Len(all)) = rest
  <2>1. /\ SubSeq(all, 2, Len(all)) \in Seq(S) /\ Len(SubSeq(all, 2, Len(all))) = Len(rest)
        /\ \A i \in 1..Len(rest) : SubSeq(all, 2, Len(all))[i] = all[i + 1]
    BY <1>2, <1>3
  <2>2. \A i \in 1..Len(rest) : all[i + 1] = rest[i]
    BY <1>2, <1>3
  <2>3. QED
    BY <2>1, <2>2, SeqEqual
<1>6. Head(all) = x /\ Tail(all) = rest
  BY <1>2, <1>4, <1>5
<1>7. QED
  BY <1>2, <1>4, <1>5, <1>6 DEF all

LEMMA TokenTypes ==
  /\ \A t \in Known \cup Measures \cup {"pty", "--"} : Word(t) \in AnyToken
  /\ \A n \in Int : Number(n) \in AnyToken /\ Handle(n) \in AnyToken
<1>1. ASSUME NEW t \in Words, NEW n \in Int PROVE [t |-> t, n |-> n] \in AnyToken
  BY Zenon DEF AnyToken
<1>2. /\ Known \cup Measures \cup {"pty", "--"} \subseteq Words
      /\ "number" \in Words /\ "0x" \in Words /\ 0 \in Int
  BY DEF Words, Known
<1>3. QED
  BY <1>1, <1>2, Zenon DEF Word, Number, Handle

LEMMA LineTypes ==
  ASSUME LaunchAssumption, NEW a \in AskedOfConpty
  PROVE  /\ a.width \in Int /\ a.height \in Int /\ a.signal \in Nat \ {0} /\ a.server \in Nat \ {0}
         /\ Server(a) \in Seq(AnyToken) /\ Signal(a) \in Seq(AnyToken)
         /\ Height(a) \in Seq(AnyToken) /\ WidthOn(a) \in Seq(AnyToken)
         /\ GlyphsOn(a) \in Seq(AnyToken) /\ WideOn(a) \in Seq(AnyToken)
         /\ InheritOn(a) \in Seq(AnyToken)
<1>1. /\ a.width \in Int /\ a.height \in Int /\ a.signal \in Nat \ {0} /\ a.server \in Nat \ {0}
      /\ a.glyphs \in {0, 8, 16, 24}
  BY DEF AskedOfConpty, LaunchAssumption
<1>2. /\ Number(a.width) \in AnyToken /\ Number(a.height) \in AnyToken
      /\ Handle(a.signal) \in AnyToken /\ Handle(a.server) \in AnyToken
  BY <1>1, TokenTypes
<1>3. /\ \A t \in Known : Word(t) \in AnyToken
      /\ \A t \in Measures : Word(t) \in AnyToken
  BY TokenTypes, Zenon
<1>4. /\ Word("--server") \in AnyToken /\ Word("--signal") \in AnyToken
      /\ Word("--height") \in AnyToken /\ Word("--width") \in AnyToken
      /\ Word("--textMeasurement") \in AnyToken /\ Word("--ambiguousIsWide") \in AnyToken
      /\ Word("--inheritcursor") \in AnyToken /\ Word("graphemes") \in AnyToken
      /\ Word("wcswidth") \in AnyToken /\ Word("console") \in AnyToken
  BY <1>3 DEF Known, Flags, Measures
<1>5. Server(a) \in Seq(AnyToken)
  BY <1>2, <1>4 DEF Server
<1>6. Signal(a) \in Seq(AnyToken)
  BY <1>2, <1>4, <1>5, ConcatProperties DEF Signal
<1>7. Height(a) \in Seq(AnyToken)
  BY <1>2, <1>4, <1>6, ConcatProperties DEF Height
<1>8. WidthOn(a) \in Seq(AnyToken)
  BY <1>2, <1>4, <1>7, ConcatProperties DEF WidthOn
<1>9. GlyphsOn(a) \in Seq(AnyToken)
  <2>1. GlyphWidth(a.glyphs) \in Seq(AnyToken)
    BY <1>1, <1>4 DEF GlyphWidth
  <2>2. QED
    BY <1>8, <2>1, ConcatProperties DEF GlyphsOn
<1>10. WideOn(a) \in Seq(AnyToken)
  <2>1. When(a.wide, <<Word("--ambiguousIsWide")>>) \in Seq(AnyToken)
    BY <1>4 DEF When
  <2>2. QED
    BY <1>9, <2>1, ConcatProperties DEF WideOn
<1>11. InheritOn(a) \in Seq(AnyToken)
  <2>1. When(a.inherit, <<Word("--inheritcursor")>>) \in Seq(AnyToken)
    BY <1>4 DEF When
  <2>2. QED
    BY <1>10, <2>1, ConcatProperties DEF InheritOn
<1>12. QED
  BY <1>1, <1>5, <1>6, <1>7, <1>8, <1>9, <1>10, <1>11

-----------------------------------------------------------------------------
(* Launch: the turns of the loop *)

LEMMA WantedIs ==
  ASSUME NEW a
  PROVE  /\ DOMAIN Unset = Known \ {"path", "--feature"}
         /\ \A o \in DOMAIN Unset : Unset[o] = IF o = "--textMeasurement" THEN "console" ELSE 0
         /\ Wanted(a)["--headless"] = 1
         /\ Wanted(a)["--inheritcursor"] = IF a.inherit THEN 1 ELSE 0
         /\ Wanted(a)["--ambiguousIsWide"] = IF a.wide THEN 1 ELSE 0
         /\ Wanted(a)["--textMeasurement"] = Measured(a.glyphs)
         /\ Wanted(a)["--width"] = a.width /\ Wanted(a)["--height"] = a.height
         /\ Wanted(a)["--signal"] = a.signal /\ Wanted(a)["--server"] = a.server
         /\ Wanted(a)["-Embedding"] = 0 /\ Wanted(a)["0x"] = 0
<1>1. /\ DOMAIN Unset = Known \ {"path", "--feature"}
      /\ \A o \in DOMAIN Unset : Unset[o] = IF o = "--textMeasurement" THEN "console" ELSE 0
  BY DEF Unset
<1>2. {"--headless", "--inheritcursor", "--ambiguousIsWide", "--textMeasurement", "--width",
       "--height", "--signal", "--server", "-Embedding", "0x"} \subseteq DOMAIN Unset
  BY <1>1 DEF Known, Flags
<1>3. QED
  BY <1>1, <1>2 DEF Wanted

\* What a turn does with the token ahead.
LEMMA Turn ==
  ASSUME LaunchNext
  PROVE  /\ parsing = "parsing" /\ UNCHANGED <<started_by, asked_for>>
         /\ tokens = <<>> => NoMoreTokens
         /\ tokens # <<>> /\ Token.t \in Flags => Set(Token.t, 1, 1)
         /\ tokens # <<>> /\ Token.t = "0x" =>
              IF options["0x"] # 0 THEN Refuse ELSE Set("0x", Token.n, 1)
         /\ tokens # <<>> /\ Token.t \in {"--server", "--signal"} =>
              IF options[Token.t] # 0 \/ Value.t # "0x" THEN Refuse ELSE Set(Token.t, Value.n, 2)
         /\ tokens # <<>> /\ Token.t \in {"--width", "--height"} =>
              IF Value.t = "number" /\ Value.n \in SizeValues THEN Set(Token.t, Value.n, 2)
              ELSE Refuse
         /\ tokens # <<>> /\ Token.t = "--textMeasurement" =>
              IF Value.t \in Measures THEN Set("--textMeasurement", Value.t, 2) ELSE Refuse
         /\ tokens # <<>> /\ Token.t \in {"path", "--feature"} => IgnoredOption
         /\ tokens # <<>> /\ Token.t \notin Known => ClientCommand
<1>1. FlagOption =>
        At(Flags) /\ Set(Token.t, 1, 1)
  BY Zenon DEF FlagOption
<1>2. CondrvHandle =>
        At({"0x"}) /\ (IF options["0x"] # 0 THEN Refuse ELSE Set("0x", Token.n, 1))
  BY Zenon DEF CondrvHandle
<1>3. HandleOption =>
        /\ At({"--server", "--signal"})
        /\ IF options[Token.t] # 0 \/ Value.t # "0x" THEN Refuse ELSE Set(Token.t, Value.n, 2)
  BY Zenon DEF HandleOption
<1>4. SizeOption =>
        /\ At({"--width", "--height"})
        /\ IF Value.t = "number" /\ Value.n \in SizeValues THEN Set(Token.t, Value.n, 2)
           ELSE Refuse
  BY Zenon DEF SizeOption
<1>5. MeasurementOption =>
        /\ At({"--textMeasurement"})
        /\ IF Value.t \in Measures THEN Set("--textMeasurement", Value.t, 2) ELSE Refuse
  BY Zenon DEF MeasurementOption
<1>6. IgnoredOption => At({"path", "--feature"})
  BY Zenon DEF IgnoredOption
<1>7. ClientCommand => parsing = "parsing" /\ tokens # <<>> /\ Token.t \notin Known
  BY Zenon DEF ClientCommand
<1>8. NoMoreTokens => parsing = "parsing" /\ tokens = <<>>
  BY Zenon DEF NoMoreTokens
<1>9. /\ \A s, v, n : Set(s, v, n) => UNCHANGED <<started_by, asked_for>>
      /\ Refuse => UNCHANGED <<started_by, asked_for>>
  BY Zenon DEF Set, Refuse
<1>10. IgnoredOption => UNCHANGED <<started_by, asked_for>>
  BY <1>9 DEF IgnoredOption
<1>11. ClientCommand \/ NoMoreTokens => UNCHANGED <<started_by, asked_for>>
  BY Zenon DEF ClientCommand, NoMoreTokens
<1>12. /\ FlagOption \/ CondrvHandle \/ HandleOption \/ SizeOption \/ MeasurementOption
            => UNCHANGED <<started_by, asked_for>>
  <2> HIDE DEF Set
  <2>1. FlagOption => UNCHANGED <<started_by, asked_for>>
    BY <1>1, <1>9, Zenon
  <2>2. CondrvHandle => UNCHANGED <<started_by, asked_for>>
    BY <1>2, <1>9, Zenon
  <2>3. HandleOption => UNCHANGED <<started_by, asked_for>>
    BY <1>3, <1>9, Zenon
  <2>4. SizeOption => UNCHANGED <<started_by, asked_for>>
    BY <1>4, <1>9, Zenon
  <2>5. MeasurementOption => UNCHANGED <<started_by, asked_for>>
    BY <1>5, <1>9, Zenon
  <2>6. QED
    BY <2>1, <2>2, <2>3, <2>4, <2>5, Zenon
<1>13. \/ FlagOption \/ CondrvHandle \/ HandleOption \/ SizeOption \/ MeasurementOption
       \/ IgnoredOption \/ ClientCommand \/ NoMoreTokens
  BY Zenon DEF LaunchNext
<1>14. UNCHANGED <<started_by, asked_for>>
  BY <1>10, <1>11, <1>12, <1>13, Zenon
<1>15. parsing = "parsing"
  BY <1>1, <1>2, <1>3, <1>4, <1>5, <1>6, <1>7, <1>8, <1>13, Zenon DEF At
<1>16. /\ At(Flags) => tokens # <<>> /\ Token.t \in Flags
       /\ At({"0x"}) => tokens # <<>> /\ Token.t = "0x"
       /\ At({"--server", "--signal"}) => tokens # <<>> /\ Token.t \in {"--server", "--signal"}
       /\ At({"--width", "--height"}) => tokens # <<>> /\ Token.t \in {"--width", "--height"}
       /\ At({"--textMeasurement"}) => tokens # <<>> /\ Token.t = "--textMeasurement"
       /\ At({"path", "--feature"}) => tokens # <<>> /\ Token.t \in {"path", "--feature"}
  BY DEF At
<1>17. /\ FlagOption => tokens # <<>> /\ Token.t \in Flags
       /\ CondrvHandle => tokens # <<>> /\ Token.t = "0x"
       /\ HandleOption => tokens # <<>> /\ Token.t \in {"--server", "--signal"}
       /\ SizeOption => tokens # <<>> /\ Token.t \in {"--width", "--height"}
       /\ MeasurementOption => tokens # <<>> /\ Token.t = "--textMeasurement"
       /\ IgnoredOption => tokens # <<>> /\ Token.t \in {"path", "--feature"}
       /\ ClientCommand => tokens # <<>> /\ Token.t \notin Known
       /\ NoMoreTokens => tokens = <<>>
  BY <1>1, <1>2, <1>3, <1>4, <1>5, <1>6, <1>7, <1>8, <1>16, Zenon
<1>18. /\ Flags \subseteq Known
       /\ {"0x", "--server", "--signal", "--width", "--height",
           "--textMeasurement", "path", "--feature"} \subseteq Known
       /\ "0x" \notin Flags /\ "--server" \notin Flags /\ "--signal" \notin Flags
       /\ "--width" \notin Flags /\ "--height" \notin Flags /\ "--textMeasurement" \notin Flags
       /\ "path" \notin Flags /\ "--feature" \notin Flags
  BY DEF Known, Flags
<1>19. tokens = <<>> => NoMoreTokens
  BY <1>13, <1>17, Zenon
<1>20. tokens # <<>> /\ Token.t \in Flags => Set(Token.t, 1, 1)
  <2>1. tokens # <<>> /\ Token.t \in Flags => FlagOption
    BY <1>13, <1>17, <1>18
  <2>2. QED
    BY <1>1, <2>1, Zenon
<1>21. tokens # <<>> /\ Token.t = "0x" =>
         IF options["0x"] # 0 THEN Refuse ELSE Set("0x", Token.n, 1)
  <2>1. tokens # <<>> /\ Token.t = "0x" => CondrvHandle
    BY <1>13, <1>17, <1>18
  <2>2. QED
    BY <1>2, <2>1, Zenon
<1>22. tokens # <<>> /\ Token.t \in {"--server", "--signal"} =>
         IF options[Token.t] # 0 \/ Value.t # "0x" THEN Refuse ELSE Set(Token.t, Value.n, 2)
  <2>1. tokens # <<>> /\ Token.t \in {"--server", "--signal"} => HandleOption
    BY <1>13, <1>17, <1>18
  <2>2. QED
    BY <1>3, <2>1, Zenon
<1>23. tokens # <<>> /\ Token.t \in {"--width", "--height"} =>
         IF Value.t = "number" /\ Value.n \in SizeValues THEN Set(Token.t, Value.n, 2) ELSE Refuse
  <2>1. tokens # <<>> /\ Token.t \in {"--width", "--height"} => SizeOption
    BY <1>13, <1>17, <1>18
  <2>2. QED
    BY <1>4, <2>1, Zenon
<1>24. tokens # <<>> /\ Token.t = "--textMeasurement" =>
         IF Value.t \in Measures THEN Set("--textMeasurement", Value.t, 2) ELSE Refuse
  <2>1. tokens # <<>> /\ Token.t = "--textMeasurement" => MeasurementOption
    BY <1>13, <1>17, <1>18
  <2>2. QED
    BY <1>5, <2>1, Zenon
<1>25. tokens # <<>> /\ Token.t \in {"path", "--feature"} => IgnoredOption
  BY <1>13, <1>17, <1>18
<1>26. tokens # <<>> /\ Token.t \notin Known => ClientCommand
  BY <1>13, <1>17, <1>18
<1>27. QED
  BY <1>14, <1>15, <1>19, <1>20, <1>21, <1>22, <1>23, <1>24, <1>25, <1>26

LEMMA OptionRead ==
  ASSUME NEW a, NEW read, NEW left, HasRead(a, read, left), NEW o \in DOMAIN Unset,
         NEW v, v = Wanted(a)[o], NEW n, Set(o, v, n),
         NEW rest, SubSeq(left, n + 1, Len(left)) = rest
  PROVE  HasRead(a, read \cup {o}, rest)' /\ UNCHANGED <<command, parsing>>
<1>1. /\ tokens = left /\ DOMAIN options = DOMAIN Unset
      /\ \A p \in DOMAIN Unset : options[p] = IF p \in read THEN Wanted(a)[p] ELSE Unset[p]
  BY Zenon DEF HasRead
<1>2. /\ options' = [options EXCEPT ![o] = v]
      /\ tokens' = SubSeq(tokens, n + 1, Len(tokens)) /\ UNCHANGED <<command, parsing>>
  BY Zenon DEF Set
<1>3. tokens' = rest
  BY <1>1, <1>2, Zenon
<1>4. /\ DOMAIN options' = DOMAIN Unset
      /\ \A p \in DOMAIN Unset :
           options'[p] = IF p \in read \cup {o} THEN Wanted(a)[p] ELSE Unset[p]
  BY <1>1, <1>2
<1>5. QED
  BY <1>2, <1>3, <1>4, Zenon DEF HasRead

\* An option that stays as it is.
LEMMA OptionPassed ==
  ASSUME NEW a, NEW read, NEW left, HasRead(a, read, left), NEW o, Wanted(a)[o] = Unset[o]
  PROVE  HasRead(a, read \cup {o}, left)
<1>1. \A p \in DOMAIN Unset : options[p] = IF p \in read \cup {o} THEN Wanted(a)[p] ELSE Unset[p]
  BY DEF HasRead
<1>2. QED
  BY <1>1, Zenon DEF HasRead

\* The turns that end the line or stop at a size no console has.
LEMMA ConptyRefused ==
  ASSUME NEW a, Refuse, ~({a.width, a.height} \subseteq SizeValues)
  PROVE  ConptyOn(a)'
BY DEF Refuse, ConptyOn

LEMMA ConptyReads ==
  ASSUME NEW a, parsing = "parsing", command = <<>>, UNCHANGED <<command, parsing>>,
         LineRead(a)'
  PROVE  ConptyOn(a)'
BY DEF ConptyOn

LEMMA ConptyEnds ==
  ASSUME NEW a, LaunchNext, command = <<>>, HasRead(a, Read8, <<>>)
  PROVE  ConptyOn(a)'
<1>1. tokens = <<>>
  BY Zenon DEF HasRead
<1>2. NoMoreTokens
  BY <1>1, Turn, Zenon
<1>3. /\ parsing' = "parsed" /\ command' = <<>> /\ UNCHANGED <<options, tokens>>
  BY <1>2, Zenon DEF NoMoreTokens
<1>4. HasRead(a, Read8, <<>>)'
  BY <1>3, Zenon DEF HasRead
<1>5. "parsed" # "refused" /\ "parsed" # "parsing"
  OBVIOUS
<1>6. QED
  BY <1>3, <1>4, <1>5, Zenon DEF ConptyOn, LineRead

LEMMA AheadIs ==
  ASSUME NEW x \in AnyToken, NEW rest \in Seq(AnyToken), tokens = <<x>> \o rest
  PROVE  tokens # <<>> /\ Token = x /\ SubSeq(tokens, 1 + 1, Len(tokens)) = rest
<1>1. <<x>> \o rest # <<>>
  BY AheadOne
<1>2. Head(<<x>> \o rest) = x
  BY AheadOne
<1>3. SubSeq(<<x>> \o rest, 1 + 1, Len(<<x>> \o rest)) = rest
  BY AheadOne
<1>4. QED
  BY <1>1, <1>2, <1>3, Zenon DEF Token

LEMMA PairAhead ==
  ASSUME NEW x \in AnyToken, NEW y \in AnyToken, NEW rest \in Seq(AnyToken),
         tokens = <<x, y>> \o rest
  PROVE  /\ tokens # <<>> /\ Token = x /\ Value = y
         /\ SubSeq(tokens, 2 + 1, Len(tokens)) = rest
         /\ SubSeq(tokens, 1 + 1, Len(tokens)) = <<y>> \o rest
<1>1. <<x, y>> \in Seq(AnyToken) /\ Len(<<x, y>>) = 2 /\ <<x, y>>[1] = x /\ <<x, y>>[2] = y
  OBVIOUS
<1>2. /\ tokens \in Seq(AnyToken) /\ Len(tokens) = 2 + Len(rest)
      /\ \A i \in 1..Len(tokens) : tokens[i] = IF i <= 2 THEN <<x, y>>[i] ELSE rest[i - 2]
  BY <1>1
<1>3. Len(rest) \in Nat
  OBVIOUS
<1>4. <<y>> \o rest \in Seq(AnyToken) /\ Len(<<y>> \o rest) = 1 + Len(rest)
      /\ \A i \in 1..(1 + Len(rest)) : (<<y>> \o rest)[i] = IF i <= 1 THEN y ELSE rest[i - 1]
  OBVIOUS
<1>5. tokens # <<>> /\ tokens[1] = x /\ Len(tokens) > 1 /\ tokens[2] = y
  BY <1>1, <1>2, <1>3
<1>6. SubSeq(tokens, 2, Len(tokens)) = <<y>> \o rest
  <2>1. /\ SubSeq(tokens, 2, Len(tokens)) \in Seq(AnyToken)
        /\ Len(SubSeq(tokens, 2, Len(tokens))) = 1 + Len(rest)
        /\ \A i \in 1..(1 + Len(rest)) : SubSeq(tokens, 2, Len(tokens))[i] = tokens[i + 1]
    BY <1>2, <1>3
  <2>2. \A i \in 1..(1 + Len(rest)) : tokens[i + 1] = IF i <= 1 THEN y ELSE rest[i - 1]
    BY <1>1, <1>2, <1>3
  <2>3. QED
    BY <1>4, <2>1, <2>2, SeqEqual
<1>7. SubSeq(tokens, 3, Len(tokens)) = rest
  <2>1. /\ SubSeq(tokens, 3, Len(tokens)) \in Seq(AnyToken)
        /\ Len(SubSeq(tokens, 3, Len(tokens))) = Len(rest)
        /\ \A i \in 1..Len(rest) : SubSeq(tokens, 3, Len(tokens))[i] = tokens[i + 2]
    BY <1>2, <1>3
  <2>2. \A i \in 1..Len(rest) : tokens[i + 2] = rest[i]
    BY <1>2, <1>3
  <2>3. QED
    BY <2>1, <2>2, SeqEqual
<1>8. Head(tokens) = x
  BY <1>2, <1>5
<1>9. Token = x /\ Value = y
  BY <1>5, <1>8, Zenon DEF Token, Value
<1>10. QED
  BY <1>5, <1>6, <1>7, <1>9

LEMMA TokenIs ==
  /\ \A t : Word(t).t = t /\ \A n : Number(n).t = "number" /\ Number(n).n = n
  /\ \A n : Handle(n).t = "0x" /\ Handle(n).n = n
BY DEF Word, Number, Handle

LEMMA ReadServer ==
  ASSUME LaunchAssumption, NEW a \in AskedOfConpty, LaunchNext, command = <<>>,
         HasRead(a, Read7, Server(a))
  PROVE  ConptyOn(a)'
<1>1. /\ Word("--server") \in AnyToken /\ Handle(a.server) \in AnyToken
      /\ <<>> \in Seq(AnyToken)
  <2>1. "--server" \in Known
    BY DEF Known
  <2>2. QED
    BY <2>1, TokenTypes, LineTypes
<1>2. tokens = <<Word("--server"), Handle(a.server)>> \o <<>>
  BY <1>1 DEF HasRead, Server
<1>3. /\ tokens # <<>> /\ Token = Word("--server") /\ Value = Handle(a.server)
      /\ SubSeq(tokens, 2 + 1, Len(tokens)) = <<>>
  BY <1>1, <1>2, PairAhead, Zenon
<1>4. /\ Token.t = "--server" /\ Value.t = "0x" /\ Value.n = a.server
  BY <1>3, TokenIs
<1>5. options["--server"] = 0 /\ "--server" \in DOMAIN Unset
  BY WantedIs DEF HasRead, Known, Read1, Read2, Read3, Read4, Read5, Read6, Read7
<1>6. Set("--server", a.server, 2) /\ parsing = "parsing"
  BY <1>3, <1>4, <1>5, Turn
<1>7. Wanted(a)["--server"] = a.server /\ tokens = Server(a)
  BY WantedIs, Zenon DEF HasRead
<1>8. HasRead(a, Read7 \cup {"--server"}, <<>>)' /\ UNCHANGED <<command, parsing>>
  BY <1>3, <1>5, <1>6, <1>7, OptionRead, Zenon
<1>9. QED
  BY <1>6, <1>8, ConptyReads, Zenon DEF LineRead, Read8

LEMMA ReadSignal ==
  ASSUME LaunchAssumption, NEW a \in AskedOfConpty, LaunchNext, command = <<>>,
         HasRead(a, Read6, Signal(a))
  PROVE  ConptyOn(a)'
<1>1. /\ Word("--signal") \in AnyToken /\ Handle(a.signal) \in AnyToken
      /\ Server(a) \in Seq(AnyToken)
  <2>1. "--signal" \in Known
    BY DEF Known
  <2>2. QED
    BY <2>1, TokenTypes, LineTypes
<1>2. tokens = <<Word("--signal"), Handle(a.signal)>> \o Server(a)
  BY Zenon DEF HasRead, Signal
<1>3. /\ tokens # <<>> /\ Token = Word("--signal") /\ Value = Handle(a.signal)
      /\ SubSeq(tokens, 2 + 1, Len(tokens)) = Server(a)
  BY <1>1, <1>2, PairAhead, Zenon
<1>4. /\ Token.t = "--signal" /\ Value.t = "0x" /\ Value.n = a.signal
  BY <1>3, TokenIs
<1>5. options["--signal"] = 0 /\ "--signal" \in DOMAIN Unset
  BY WantedIs DEF HasRead, Known, Read1, Read2, Read3, Read4, Read5, Read6
<1>6. Set("--signal", a.signal, 2) /\ parsing = "parsing"
  BY <1>3, <1>4, <1>5, Turn
<1>7. Wanted(a)["--signal"] = a.signal /\ tokens = Signal(a)
  BY WantedIs, Zenon DEF HasRead
<1>8. HasRead(a, Read6 \cup {"--signal"}, Server(a))' /\ UNCHANGED <<command, parsing>>
  BY <1>3, <1>5, <1>6, <1>7, OptionRead, Zenon
<1>9. QED
  BY <1>6, <1>8, ConptyReads, Zenon DEF LineRead, Read7

LEMMA ReadHeight ==
  ASSUME LaunchAssumption, NEW a \in AskedOfConpty, LaunchNext, command = <<>>,
         HasRead(a, Read5, Height(a))
  PROVE  ConptyOn(a)'
<1>1. /\ Word("--height") \in AnyToken /\ Number(a.height) \in AnyToken
      /\ Signal(a) \in Seq(AnyToken)
  <2>1. "--height" \in Known
    BY DEF Known
  <2>2. QED
    BY <2>1, TokenTypes, LineTypes
<1>2. tokens = <<Word("--height"), Number(a.height)>> \o Signal(a)
  BY Zenon DEF HasRead, Height
<1>3. /\ tokens # <<>> /\ Token = Word("--height") /\ Value = Number(a.height)
      /\ SubSeq(tokens, 2 + 1, Len(tokens)) = Signal(a)
  BY <1>1, <1>2, PairAhead, Zenon
<1>4. /\ Token.t = "--height" /\ Value.t = "number" /\ Value.n = a.height
  BY <1>3, TokenIs
<1>5. "--height" \in DOMAIN Unset
  BY WantedIs DEF Known
<1>6. /\ IF a.height \in SizeValues THEN Set("--height", a.height, 2) ELSE Refuse
      /\ parsing = "parsing"
  BY <1>3, <1>4, Turn
<1>7. Wanted(a)["--height"] = a.height /\ tokens = Height(a)
  BY WantedIs, Zenon DEF HasRead
<1>8. CASE a.height \in SizeValues
  <2>1. HasRead(a, Read5 \cup {"--height"}, Signal(a))' /\ UNCHANGED <<command, parsing>>
    BY <1>3, <1>5, <1>6, <1>7, <1>8, OptionRead, Zenon
  <2>2. QED
    BY <1>6, <2>1, ConptyReads, Zenon DEF LineRead, Read6
<1>9. CASE a.height \notin SizeValues
  BY <1>6, <1>9, ConptyRefused, Zenon
<1>10. QED
  BY <1>8, <1>9

LEMMA ReadWidth ==
  ASSUME LaunchAssumption, NEW a \in AskedOfConpty, LaunchNext, command = <<>>,
         HasRead(a, Read4, WidthOn(a))
  PROVE  ConptyOn(a)'
<1>1. /\ Word("--width") \in AnyToken /\ Number(a.width) \in AnyToken
      /\ Height(a) \in Seq(AnyToken)
  <2>1. "--width" \in Known
    BY DEF Known
  <2>2. QED
    BY <2>1, TokenTypes, LineTypes
<1>2. tokens = <<Word("--width"), Number(a.width)>> \o Height(a)
  BY Zenon DEF HasRead, WidthOn
<1>3. /\ tokens # <<>> /\ Token = Word("--width") /\ Value = Number(a.width)
      /\ SubSeq(tokens, 2 + 1, Len(tokens)) = Height(a)
  BY <1>1, <1>2, PairAhead, Zenon
<1>4. /\ Token.t = "--width" /\ Value.t = "number" /\ Value.n = a.width
  BY <1>3, TokenIs
<1>5. "--width" \in DOMAIN Unset
  BY WantedIs DEF Known
<1>6. /\ IF a.width \in SizeValues THEN Set("--width", a.width, 2) ELSE Refuse
      /\ parsing = "parsing"
  BY <1>3, <1>4, Turn
<1>7. Wanted(a)["--width"] = a.width /\ tokens = WidthOn(a)
  BY WantedIs, Zenon DEF HasRead
<1>8. CASE a.width \in SizeValues
  <2>1. HasRead(a, Read4 \cup {"--width"}, Height(a))' /\ UNCHANGED <<command, parsing>>
    BY <1>3, <1>5, <1>6, <1>7, <1>8, OptionRead, Zenon
  <2>2. QED
    BY <1>6, <2>1, ConptyReads, Zenon DEF LineRead, Read5
<1>9. CASE a.width \notin SizeValues
  BY <1>6, <1>9, ConptyRefused, Zenon
<1>10. QED
  BY <1>8, <1>9

LEMMA ReadGlyphs ==
  ASSUME LaunchAssumption, NEW a \in AskedOfConpty, LaunchNext, command = <<>>,
         HasRead(a, Read3, GlyphsOn(a))
  PROVE  ConptyOn(a)'
<1>1. a.glyphs \in {0, 8, 16, 24} /\ WidthOn(a) \in Seq(AnyToken)
  BY LineTypes DEF AskedOfConpty
<1>2. CASE a.glyphs = 0
  <2>1. GlyphWidth(a.glyphs) = <<>> /\ Measured(a.glyphs) = "console"
    BY <1>2 DEF GlyphWidth, Measured
  <2>2. GlyphsOn(a) = WidthOn(a)
    BY <1>1, <2>1 DEF GlyphsOn
  <2>3. Wanted(a)["--textMeasurement"] = Unset["--textMeasurement"]
    BY <2>1, WantedIs DEF Known
  <2>4. HasRead(a, Read4, WidthOn(a))
    BY <2>2, <2>3, OptionPassed, Zenon DEF Read4
  <2>5. QED
    BY <2>4, ReadWidth
<1>3. CASE a.glyphs # 0
  <2>1. /\ GlyphWidth(a.glyphs) = <<Word("--textMeasurement"), Word(Measured(a.glyphs))>>
        /\ Measured(a.glyphs) \in Measures
    BY <1>1, <1>3 DEF GlyphWidth, Measured, Measures
  <2>2. tokens = <<Word("--textMeasurement"), Word(Measured(a.glyphs))>> \o WidthOn(a)
    BY <2>1, Zenon DEF HasRead, GlyphsOn
  <2>3. "--textMeasurement" \in Known /\ "--textMeasurement" \in DOMAIN Unset
    BY WantedIs DEF Known
  <2>4. Word("--textMeasurement") \in AnyToken /\ Word(Measured(a.glyphs)) \in AnyToken
    BY <2>1, <2>3, TokenTypes
  <2>5. /\ tokens # <<>> /\ Token = Word("--textMeasurement")
        /\ Value = Word(Measured(a.glyphs))
        /\ SubSeq(tokens, 2 + 1, Len(tokens)) = WidthOn(a)
    BY <1>1, <2>2, <2>4, PairAhead, Zenon
  <2>6. Token.t = "--textMeasurement" /\ Value.t = Measured(a.glyphs)
    BY <2>5, TokenIs
  <2>7. Set("--textMeasurement", Measured(a.glyphs), 2) /\ parsing = "parsing"
    BY <2>1, <2>5, <2>6, Turn, Zenon
  <2>8. Wanted(a)["--textMeasurement"] = Measured(a.glyphs) /\ tokens = GlyphsOn(a)
    BY WantedIs, Zenon DEF HasRead
  <2>9. /\ HasRead(a, Read3 \cup {"--textMeasurement"}, WidthOn(a))'
        /\ UNCHANGED <<command, parsing>>
    BY <2>3, <2>5, <2>7, <2>8, OptionRead, Zenon
  <2>10. QED
    BY <2>7, <2>9, ConptyReads, Zenon DEF LineRead, Read4
<1>4. QED
  BY <1>2, <1>3

LEMMA ReadWide ==
  ASSUME LaunchAssumption, NEW a \in AskedOfConpty, LaunchNext, command = <<>>,
         HasRead(a, Read2, WideOn(a))
  PROVE  ConptyOn(a)'
<1>1. a.wide \in BOOLEAN /\ GlyphsOn(a) \in Seq(AnyToken)
  BY LineTypes DEF AskedOfConpty
<1>2. /\ "--ambiguousIsWide" \in Flags /\ "--ambiguousIsWide" \in Known
      /\ "--ambiguousIsWide" \in DOMAIN Unset
  BY WantedIs DEF Known, Flags
<1>3. CASE ~a.wide
  <2>1. WideOn(a) = GlyphsOn(a)
    BY <1>1, <1>3 DEF WideOn, When
  <2>2. Wanted(a)["--ambiguousIsWide"] = Unset["--ambiguousIsWide"]
    BY <1>2, <1>3, WantedIs
  <2>3. HasRead(a, Read3, GlyphsOn(a))
    BY <2>1, <2>2, OptionPassed, Zenon DEF Read3
  <2>4. QED
    BY <2>3, ReadGlyphs
<1>4. CASE a.wide
  <2>1. tokens = <<Word("--ambiguousIsWide")>> \o GlyphsOn(a) /\ tokens = WideOn(a)
    BY <1>4, Zenon DEF HasRead, WideOn, When
  <2>2. Word("--ambiguousIsWide") \in AnyToken
    BY <1>2, TokenTypes
  <2>3. /\ tokens # <<>> /\ Token = Word("--ambiguousIsWide")
        /\ SubSeq(tokens, 1 + 1, Len(tokens)) = GlyphsOn(a)
    BY <1>1, <2>1, <2>2, AheadIs, Zenon
  <2>4. Token.t = "--ambiguousIsWide"
    BY <2>3, TokenIs
  <2>5. Set("--ambiguousIsWide", 1, 1) /\ parsing = "parsing"
    BY <1>2, <2>3, <2>4, Turn, Zenon
  <2>6. Wanted(a)["--ambiguousIsWide"] = 1
    BY <1>4, WantedIs
  <2>7. /\ HasRead(a, Read2 \cup {"--ambiguousIsWide"}, GlyphsOn(a))'
        /\ UNCHANGED <<command, parsing>>
    BY <1>2, <2>1, <2>3, <2>5, <2>6, OptionRead, Zenon
  <2>8. QED
    BY <2>5, <2>7, ConptyReads, Zenon DEF LineRead, Read3
<1>5. QED
  BY <1>1, <1>3, <1>4

LEMMA ReadInherit ==
  ASSUME LaunchAssumption, NEW a \in AskedOfConpty, LaunchNext, command = <<>>,
         HasRead(a, Read1, InheritOn(a))
  PROVE  ConptyOn(a)'
<1>1. a.inherit \in BOOLEAN /\ WideOn(a) \in Seq(AnyToken)
  BY LineTypes DEF AskedOfConpty
<1>2. /\ "--inheritcursor" \in Flags /\ "--inheritcursor" \in Known
      /\ "--inheritcursor" \in DOMAIN Unset
  BY WantedIs DEF Known, Flags
<1>3. CASE ~a.inherit
  <2>1. InheritOn(a) = WideOn(a)
    BY <1>1, <1>3 DEF InheritOn, When
  <2>2. Wanted(a)["--inheritcursor"] = Unset["--inheritcursor"]
    BY <1>2, <1>3, WantedIs
  <2>3. HasRead(a, Read2, WideOn(a))
    BY <2>1, <2>2, OptionPassed, Zenon DEF Read2
  <2>4. QED
    BY <2>3, ReadWide
<1>4. CASE a.inherit
  <2>1. tokens = <<Word("--inheritcursor")>> \o WideOn(a) /\ tokens = InheritOn(a)
    BY <1>4, Zenon DEF HasRead, InheritOn, When
  <2>2. Word("--inheritcursor") \in AnyToken
    BY <1>2, TokenTypes
  <2>3. /\ tokens # <<>> /\ Token = Word("--inheritcursor")
        /\ SubSeq(tokens, 1 + 1, Len(tokens)) = WideOn(a)
    BY <1>1, <2>1, <2>2, AheadIs, Zenon
  <2>4. Token.t = "--inheritcursor"
    BY <2>3, TokenIs
  <2>5. Set("--inheritcursor", 1, 1) /\ parsing = "parsing"
    BY <1>2, <2>3, <2>4, Turn, Zenon
  <2>6. Wanted(a)["--inheritcursor"] = 1
    BY <1>4, WantedIs
  <2>7. /\ HasRead(a, Read1 \cup {"--inheritcursor"}, WideOn(a))'
        /\ UNCHANGED <<command, parsing>>
    BY <1>2, <2>1, <2>3, <2>5, <2>6, OptionRead, Zenon
  <2>8. QED
    BY <2>5, <2>7, ConptyReads, Zenon DEF LineRead, Read2
<1>5. QED
  BY <1>1, <1>3, <1>4

LEMMA ReadHeadless ==
  ASSUME LaunchAssumption, NEW a \in AskedOfConpty, LaunchNext, command = <<>>,
         HasRead(a, {}, WholeLine(a))
  PROVE  ConptyOn(a)'
<1>1. InheritOn(a) \in Seq(AnyToken)
  BY LineTypes
<1>2. "--headless" \in Flags /\ "--headless" \in Known /\ "--headless" \in DOMAIN Unset
  BY WantedIs DEF Known, Flags
<1>3. tokens = <<Word("--headless")>> \o InheritOn(a) /\ tokens = WholeLine(a)
  BY Zenon DEF HasRead, WholeLine
<1>4. Word("--headless") \in AnyToken
  BY <1>2, TokenTypes
<1>5. /\ tokens # <<>> /\ Token = Word("--headless")
      /\ SubSeq(tokens, 1 + 1, Len(tokens)) = InheritOn(a)
  BY <1>1, <1>3, <1>4, AheadIs, Zenon
<1>6. Token.t = "--headless"
  BY <1>5, TokenIs
<1>7. Set("--headless", 1, 1) /\ parsing = "parsing"
  BY <1>2, <1>5, <1>6, Turn, Zenon
<1>8. Wanted(a)["--headless"] = 1 /\ {} \cup {"--headless"} = Read1
  BY WantedIs DEF Read1
<1>9. HasRead(a, {} \cup {"--headless"}, InheritOn(a))' /\ UNCHANGED <<command, parsing>>
  BY <1>2, <1>3, <1>5, <1>7, <1>8, OptionRead, Zenon
<1>10. HasRead(a, Read1, InheritOn(a))'
  BY <1>8, <1>9, Zenon
<1>11. QED
  BY <1>7, <1>9, <1>10, ConptyReads, Zenon DEF LineRead

LEMMA ConptyTurn ==
  ASSUME LaunchAssumption, ConptyInv, LaunchNext
  PROVE  ConptyInv'
<1>1. PICK a \in AskedOfConpty : a = asked_for /\ ConptyOn(a)
  BY Zenon DEF ConptyInv
<1>2. parsing = "parsing" /\ asked_for' = asked_for
  BY Turn, Zenon
<1>3. command = <<>> /\ LineRead(a)
  BY <1>1, <1>2 DEF ConptyOn
<1>4. ConptyOn(a)'
  BY <1>3, ReadHeadless, ReadInherit, ReadWide, ReadGlyphs, ReadWidth, ReadHeight, ReadSignal,
     ReadServer, ConptyEnds, Zenon DEF LineRead
<1>5. asked_for' = a
  BY <1>1, <1>2
<1>6. QED
  BY <1>4, <1>5, Zenon DEF ConptyInv, ConptyOn, LineRead, HasRead

-----------------------------------------------------------------------------
(* Launch: Windows, COM and users *)

LEMMA WindowsTurn ==
  ASSUME LaunchAssumption, WindowsInv, LaunchNext
  PROVE  WindowsInv'
<1>1. PICK h \in HandleNumbers : h = asked_for
  BY Zenon DEF WindowsInv
<1>2. parsing = "parsing" /\ asked_for' = h
  BY <1>1, Turn, Zenon
<1>3. h \in Int /\ Handle(h) \in AnyToken /\ Word("path") \in AnyToken
      /\ Word("-ForceV1") \in AnyToken
  <2>1. "path" \in Known /\ "-ForceV1" \in Known
    BY DEF Known, Flags
  <2>2. h \in Int
    BY DEF LaunchAssumption
  <2>3. QED
    BY <2>1, <2>2, TokenTypes
<1>4. \A rest \in Legacy : rest \in Seq(AnyToken)
  <2>1. <<>> \in Seq(AnyToken) /\ <<Word("-ForceV1")>> \in Seq(AnyToken)
    BY <1>3
  <2>2. QED
    BY <2>1, Zenon DEF Legacy
<1>5. /\ DOMAIN options = DOMAIN Unset /\ options["-Embedding"] = 0
      /\ "-Embedding" \in DOMAIN Unset /\ "0x" \in DOMAIN Unset /\ "-ForceV1" \in DOMAIN Unset
  BY WantedIs DEF WindowsInv, Known, Flags
<1>6. ASSUME options["0x"] = 0, NEW rest \in Legacy,
             tokens = <<Word("path"), Handle(h)>> \o rest
      PROVE  WindowsInv'
  <2>1. /\ tokens # <<>> /\ Token = Word("path")
        /\ SubSeq(tokens, 1 + 1, Len(tokens)) = <<Handle(h)>> \o rest
    BY <1>3, <1>4, <1>6, PairAhead, Zenon
  <2>2. Token.t = "path"
    BY <2>1, TokenIs
  <2>3. IgnoredOption
    BY <2>1, <2>2, Turn
  <2>4. tokens' = <<Handle(h)>> \o rest /\ UNCHANGED <<options, parsing>>
    BY <2>1, <2>2, <2>3 DEF IgnoredOption
  <2>5. QED
    BY <1>1, <1>2, <1>5, <1>6, <2>4 DEF WindowsInv
<1>7. ASSUME options["0x"] = 0, NEW rest \in Legacy, tokens = <<Handle(h)>> \o rest
      PROVE  WindowsInv'
  <2>1. /\ tokens # <<>> /\ Token = Handle(h)
        /\ SubSeq(tokens, 1 + 1, Len(tokens)) = rest
    BY <1>3, <1>4, <1>7, AheadIs, Zenon
  <2>2. Token.t = "0x" /\ Token.n = h
    BY <2>1, TokenIs
  <2>3. Set("0x", h, 1)
    BY <1>7, <2>1, <2>2, Turn
  <2>4. /\ tokens' = rest /\ parsing' = parsing
        /\ options' = [options EXCEPT !["0x"] = h]
    BY <2>1, <2>3 DEF Set
  <2>5. /\ DOMAIN options' = DOMAIN Unset /\ options'["0x"] = h
        /\ options'["-Embedding"] = 0
    BY <1>5, <2>4
  <2>6. QED
    BY <1>2, <1>7, <2>4, <2>5 DEF WindowsInv
<1>8. ASSUME options["0x"] = h, tokens \in Legacy PROVE WindowsInv'
  <2>1. CASE tokens = <<>>
    <3>1. NoMoreTokens
      BY <2>1, Turn, Zenon
    <3>2. UNCHANGED <<options, tokens>> /\ parsing' = "parsed"
      BY <3>1, Zenon DEF NoMoreTokens
    <3>3. QED
      BY <1>2, <1>5, <1>8, <3>2 DEF WindowsInv
  <2>2. CASE tokens = <<Word("-ForceV1")>>
    <3>1. /\ tokens # <<>> /\ Token = Word("-ForceV1") /\ SubSeq(tokens, 1 + 1, Len(tokens)) = <<>>
      BY <1>3, <2>2 DEF Token
    <3>2. Token.t = "-ForceV1" /\ Token.t \in Flags
      BY <3>1, TokenIs DEF Flags
    <3>3. Set("-ForceV1", 1, 1)
      BY <3>1, <3>2, Turn
    <3>4. /\ tokens' = <<>> /\ parsing' = parsing
          /\ options' = [options EXCEPT !["-ForceV1"] = 1]
      BY <3>1, <3>3 DEF Set
    <3>5. /\ DOMAIN options' = DOMAIN Unset /\ options'["0x"] = h
          /\ options'["-Embedding"] = 0
      BY <1>5, <1>8, <3>4
    <3>6. QED
      BY <1>2, <3>4, <3>5 DEF WindowsInv, Legacy
  <2>3. QED
    BY <1>8, <2>1, <2>2 DEF Legacy
<1>9. QED
  BY <1>1, <1>6, <1>7, <1>8, Zenon DEF WindowsInv

LEMMA ComTurn ==
  ASSUME ComInv, LaunchNext
  PROVE  ComInv'
<1>1. parsing = "parsing" /\ DOMAIN options = DOMAIN Unset /\ "-Embedding" \in DOMAIN Unset
  BY Turn, WantedIs DEF ComInv, Known, Flags
<1>2. CASE tokens = <<Word("-Embedding")>>
  <2>1. Word("-Embedding") \in AnyToken
    BY TokenTypes DEF Known, Flags
  <2>2. tokens # <<>> /\ Token = Word("-Embedding") /\ SubSeq(tokens, 1 + 1, Len(tokens)) = <<>>
    BY <1>2, <2>1 DEF Token
  <2>3. Token.t = "-Embedding" /\ Token.t \in Flags
    BY <2>2, TokenIs DEF Flags
  <2>4. Set("-Embedding", 1, 1)
    BY <2>2, <2>3, Turn
  <2>5. /\ tokens' = <<>> /\ parsing' = parsing
        /\ options' = [options EXCEPT !["-Embedding"] = 1]
    BY <2>2, <2>4 DEF Set
  <2>6. QED
    BY <1>1, <2>5 DEF ComInv
<1>3. CASE tokens = <<>> /\ options["-Embedding"] = 1
  <2>1. NoMoreTokens
    BY <1>3, Turn, Zenon
  <2>2. UNCHANGED <<options, tokens>> /\ parsing' = "parsed"
    BY <2>1, Zenon DEF NoMoreTokens
  <2>3. QED
    BY <1>1, <1>3, <2>2 DEF ComInv
<1>4. QED
  BY <1>2, <1>3, Zenon DEF ComInv

LEMMA CommandTypes ==
  ASSUME LaunchAssumption, NEW c \in ClientCommands
  PROVE  c \in Seq(AnyToken)
<1>1. [t : STRING, n : Int] \subseteq AnyToken
  BY DEF AnyToken, Words
<1>2. c \in Seq([t : STRING, n : Int])
  BY DEF LaunchAssumption
<1>3. Len(c) \in Nat /\ c \in [1..Len(c) -> [t : STRING, n : Int]]
  BY <1>2, LenProperties
<1>4. c \in [1..Len(c) -> AnyToken]
  BY <1>1, <1>3
<1>5. QED
  BY <1>3, <1>4, SeqDef

LEMMA UserTurn ==
  ASSUME LaunchAssumption, UserInv, LaunchNext
  PROVE  UserInv'
<1>1. parsing = "parsing" /\ asked_for' = asked_for
  BY Turn, Zenon
<1>2. PICK c \in ClientCommands, dashes \in BOOLEAN :
        /\ c = asked_for /\ command = <<>>
        /\ ~dashes /\ c # <<>> => Head(c).t \notin Known \cup {"--"}
        /\ tokens = Own(dashes, c) \/ \E o \in UserOptions : tokens = o \o Own(dashes, c)
  BY <1>1, Zenon DEF UserInv
<1>3. /\ Word("--vtmode") \in AnyToken /\ Word("--width") \in AnyToken
      /\ Word("--feature") \in AnyToken /\ Word("pty") \in AnyToken /\ Number(2) \in AnyToken
      /\ Word("--") \in AnyToken /\ c \in Seq(AnyToken) /\ Own(dashes, c) \in Seq(AnyToken)
  <2>1. "--vtmode" \in Known /\ "--width" \in Known /\ "--feature" \in Known
    BY DEF Known, Flags
  <2>2. c \in Seq(AnyToken)
    BY CommandTypes
  <2>3. /\ Word("--vtmode") \in AnyToken /\ Word("--width") \in AnyToken
        /\ Word("--feature") \in AnyToken /\ Word("pty") \in AnyToken /\ Number(2) \in AnyToken
        /\ Word("--") \in AnyToken
    BY <2>1, TokenTypes
  <2>4. <<Word("--")>> \o c \in Seq(AnyToken)
    BY <2>2, <2>3, AheadOne, Zenon
  <2>5. QED
    BY <2>2, <2>3, <2>4, Zenon DEF Own
<1>4. /\ DOMAIN options = DOMAIN Unset /\ options["-Embedding"] = 0 /\ options["0x"] = 0
      /\ options["--headless"] = 0
      /\ {"-Embedding", "0x", "--headless", "--vtmode", "--width"} \subseteq DOMAIN Unset
  BY WantedIs DEF UserInv, Known, Flags
<1>5. ASSUME tokens' = Own(dashes, c), NEW o \in {"--vtmode", "--width"}, NEW v,
             options' = options \/ options' = [options EXCEPT ![o] = v],
             UNCHANGED <<command, parsing>>
      PROVE  UserInv'
  <2>1. /\ DOMAIN options' = DOMAIN Unset /\ options'["-Embedding"] = 0 /\ options'["0x"] = 0
        /\ options'["--headless"] = 0
    BY <1>4, <1>5
  <2>2. parsing' = "parsing" /\ "parsing" # "refused" /\ "parsing" # "parsed"
    BY <1>1, <1>5
  <2>3. QED
    BY <1>1, <1>2, <1>5, <2>1, <2>2, Zenon DEF UserInv
<1>6. CASE tokens = <<Word("--vtmode")>> \o Own(dashes, c)
  <2>1. /\ tokens # <<>> /\ Token = Word("--vtmode")
        /\ SubSeq(tokens, 1 + 1, Len(tokens)) = Own(dashes, c)
    BY <1>3, <1>6, AheadIs, Zenon
  <2>2. Token.t = "--vtmode" /\ Token.t \in Flags
    BY <2>1, TokenIs DEF Flags
  <2>3. Set("--vtmode", 1, 1)
    BY <2>1, <2>2, Turn
  <2>4. /\ tokens' = Own(dashes, c) /\ UNCHANGED <<command, parsing>>
        /\ options' = [options EXCEPT !["--vtmode"] = 1]
    BY <2>1, <2>3 DEF Set
  <2>5. QED
    BY <1>5, <2>4
<1>7. CASE tokens = <<Word("--width"), Number(2)>> \o Own(dashes, c)
  <2>1. /\ tokens # <<>> /\ Token = Word("--width") /\ Value = Number(2)
        /\ SubSeq(tokens, 2 + 1, Len(tokens)) = Own(dashes, c)
    BY <1>3, <1>7, PairAhead, Zenon
  <2>2. Token.t = "--width" /\ Value.t = "number" /\ Value.n = 2
    BY <2>1, TokenIs
  <2>3. 2 \in SizeValues
    BY DEF SizeValues
  <2>4. Set("--width", 2, 2)
    BY <2>1, <2>2, <2>3, Turn
  <2>5. /\ tokens' = Own(dashes, c) /\ UNCHANGED <<command, parsing>>
        /\ options' = [options EXCEPT !["--width"] = 2]
    BY <2>1, <2>4 DEF Set
  <2>6. QED
    BY <1>5, <2>5
<1>8. CASE tokens = <<Word("--feature"), Word("pty")>> \o Own(dashes, c)
  <2>1. /\ tokens # <<>> /\ Token = Word("--feature") /\ Value = Word("pty")
        /\ SubSeq(tokens, 2 + 1, Len(tokens)) = Own(dashes, c)
    BY <1>3, <1>8, PairAhead, Zenon
  <2>2. Token.t = "--feature" /\ Value.t = "pty"
    BY <2>1, TokenIs
  <2>3. IgnoredOption
    BY <2>1, <2>2, Turn
  <2>4. tokens' = Own(dashes, c) /\ UNCHANGED <<options, command, parsing>>
    BY <2>1, <2>2, <2>3 DEF IgnoredOption
  <2>5. QED
    BY <1>5, <2>4
<1>9. ASSUME parsing' = "parsed", command' = c, UNCHANGED options PROVE UserInv'
  <2>1. "parsed" # "refused" /\ "parsed" # "parsing"
    OBVIOUS
  <2>2. QED
    BY <1>1, <1>2, <1>4, <1>9, <2>1, Zenon DEF UserInv
<1>10. CASE tokens = Own(dashes, c) /\ dashes
  <2>1. tokens = <<Word("--")>> \o c
    BY <1>10 DEF Own
  <2>2. tokens # <<>> /\ Token = Word("--") /\ Tail(tokens) = c
    <3>1. Word("--") \in AnyToken /\ c \in Seq(AnyToken)
      BY <1>3, Zenon
    <3>2. <<Word("--")>> \o c # <<>>
      BY <3>1, AheadOne
    <3>3. Head(<<Word("--")>> \o c) = Word("--")
      BY <3>1, AheadOne
    <3>4. Tail(<<Word("--")>> \o c) = c
      BY <3>1, AheadOne
    <3>5. QED
      BY <2>1, <3>2, <3>3, <3>4, Zenon DEF Token
  <2>3. Token.t = "--" /\ Token.t \notin Known
    BY <2>2, TokenIs DEF Known, Flags
  <2>4. ClientCommand
    BY <2>2, <2>3, Turn
  <2>5. command' = c /\ parsing' = "parsed" /\ UNCHANGED options
    BY <2>2, <2>3, <2>4, Zenon DEF ClientCommand
  <2>6. QED
    BY <1>9, <2>5
<1>11. CASE tokens = Own(dashes, c) /\ ~dashes /\ c # <<>>
  <2>1. tokens = c /\ Token.t \notin Known /\ Token.t # "--"
    BY <1>2, <1>11 DEF Own, Token
  <2>2. ClientCommand
    BY <1>11, <2>1, Turn
  <2>3. command' = c /\ parsing' = "parsed" /\ UNCHANGED options
    BY <2>1, <2>2, Zenon DEF ClientCommand
  <2>4. QED
    BY <1>9, <2>3
<1>12. CASE tokens = Own(dashes, c) /\ ~dashes /\ c = <<>>
  <2>1. tokens = <<>>
    BY <1>12 DEF Own
  <2>2. NoMoreTokens
    BY <2>1, Turn, Zenon
  <2>3. command' = c /\ parsing' = "parsed" /\ UNCHANGED options
    BY <1>2, <1>12, <2>2, Zenon DEF NoMoreTokens
  <2>4. QED
    BY <1>9, <2>3
<1>13. QED
  BY <1>2, <1>6, <1>7, <1>8, <1>10, <1>11, <1>12 DEF UserOptions

LEMMA FourLong ==
  ASSUME NEW S, NEW p \in S, NEW q \in S, NEW r \in S, NEW s \in S
  PROVE  <<p, q>> \o <<r, s>> = <<p, q, r, s>>
<1> DEFINE joined == <<p, q>> \o <<r, s>>
           all == <<p, q, r, s>>
<1>1. <<p, q>> \in Seq(S) /\ <<r, s>> \in Seq(S) /\ all \in Seq(S)
  OBVIOUS
<1>2. Len(joined) = 4 /\ Len(all) = 4 /\ joined \in Seq(S)
  BY <1>1
<1>3. /\ joined[1] = p /\ joined[2] = q /\ joined[3] = r /\ joined[4] = s
  BY <1>1
<1>4. /\ all[1] = p /\ all[2] = q /\ all[3] = r /\ all[4] = s
  OBVIOUS
<1> HIDE DEF joined, all
<1>5. \A i \in 1..4 : joined[i] = all[i]
  BY <1>3, <1>4
<1>6. joined = all
  BY <1>1, <1>2, <1>5, SeqEqual
<1>7. QED
  BY <1>6 DEF joined, all

LEMMA SixLong ==
  ASSUME NEW S, NEW p \in S, NEW q \in S, NEW r \in S, NEW s \in S, NEW t \in S,
         NEW u \in S
  PROVE  <<p, q>> \o <<r, s, t, u>> = <<p, q, r, s, t, u>>
<1> DEFINE joined == <<p, q>> \o <<r, s, t, u>>
           all == <<p, q, r, s, t, u>>
<1>1. <<p, q>> \in Seq(S) /\ <<r, s, t, u>> \in Seq(S) /\ all \in Seq(S)
  OBVIOUS
<1>2. Len(joined) = 6 /\ Len(all) = 6 /\ joined \in Seq(S)
  BY <1>1
<1>3. /\ joined[1] = p /\ joined[2] = q /\ joined[3] = r /\ joined[4] = s
      /\ joined[5] = t /\ joined[6] = u
  BY <1>1
<1>4. /\ all[1] = p /\ all[2] = q /\ all[3] = r /\ all[4] = s
      /\ all[5] = t /\ all[6] = u
  OBVIOUS
<1> HIDE DEF joined, all
<1>5. \A i \in 1..6 : joined[i] = all[i]
  BY <1>3, <1>4
<1>6. joined = all
  BY <1>1, <1>2, <1>5, SeqEqual
<1>7. QED
  BY <1>6 DEF joined, all

LEMMA LineIs ==
  ASSUME LaunchAssumption, NEW a \in AskedOfConpty
  PROVE  BuildConhostCommandLine(a) = WholeLine(a)
<1> DEFINE sizes == <<Word("--width"), Number(a.width), Word("--height"), Number(a.height),
                      Word("--signal"), Handle(a.signal), Word("--server"), Handle(a.server)>>
           first == <<Word("--headless")>>
           cursor == When(a.inherit, <<Word("--inheritcursor")>>)
           wide == When(a.wide, <<Word("--ambiguousIsWide")>>)
           glyphs == GlyphWidth(a.glyphs)
<1>1. WidthOn(a) = sizes
  <2>1. /\ Word("--width") \in AnyToken /\ Number(a.width) \in AnyToken
        /\ Word("--height") \in AnyToken /\ Number(a.height) \in AnyToken
        /\ Word("--signal") \in AnyToken /\ Handle(a.signal) \in AnyToken
        /\ Word("--server") \in AnyToken /\ Handle(a.server) \in AnyToken
    <3>1. /\ "--width" \in Known /\ "--height" \in Known
          /\ "--signal" \in Known /\ "--server" \in Known
      BY DEF Known
    <3>2. QED
      BY <3>1, LineTypes, TokenTypes
  <2>2. Signal(a) = <<Word("--signal"), Handle(a.signal), Word("--server"), Handle(a.server)>>
    BY <2>1, FourLong DEF Signal, Server
  <2>3. Height(a) = <<Word("--height"), Number(a.height), Word("--signal"), Handle(a.signal),
                      Word("--server"), Handle(a.server)>>
    BY <2>1, <2>2, SixLong DEF Height
  <2>4. <<Word("--width"), Number(a.width)>> \o
          <<Word("--height"), Number(a.height), Word("--signal"), Handle(a.signal),
            Word("--server"), Handle(a.server)>> = sizes
    <3> DEFINE w == Word("--width")
               x == Word("--height")
               y == Word("--signal")
               z == Word("--server")
               k == Number(a.width)
               l == Number(a.height)
               m == Handle(a.signal)
               n == Handle(a.server)
    <3>1. /\ w \in AnyToken /\ x \in AnyToken /\ y \in AnyToken /\ z \in AnyToken
          /\ k \in AnyToken /\ l \in AnyToken /\ m \in AnyToken /\ n \in AnyToken
      BY <2>1
    <3> HIDE DEF w, x, y, z, k, l, m, n
    <3>2. <<w, k>> \o <<x, l, y, m, z, n>> = <<w, k, x, l, y, m, z, n>>
      <4> DEFINE joined == <<w, k>> \o <<x, l, y, m, z, n>>
                 all == <<w, k, x, l, y, m, z, n>>
      <4>1. /\ <<w, k>> \in Seq(AnyToken) /\ <<x, l, y, m, z, n>> \in Seq(AnyToken)
            /\ all \in Seq(AnyToken)
        BY <3>1
      <4>2. Len(joined) = 8 /\ Len(all) = 8 /\ joined \in Seq(AnyToken)
        BY <3>1, <4>1
      <4>3. /\ joined[1] = w /\ joined[2] = k /\ joined[3] = x /\ joined[4] = l
            /\ joined[5] = y /\ joined[6] = m /\ joined[7] = z /\ joined[8] = n
        BY <3>1, <4>1
      <4>4. /\ all[1] = w /\ all[2] = k /\ all[3] = x /\ all[4] = l
            /\ all[5] = y /\ all[6] = m /\ all[7] = z /\ all[8] = n
        OBVIOUS
      <4> HIDE DEF joined, all
      <4>5. \A i \in 1..8 : joined[i] = all[i]
        BY <4>3, <4>4
      <4>6. joined = all
        BY <4>1, <4>2, <4>5, SeqEqual
      <4>7. QED
        BY <4>6 DEF joined, all
    <3>3. QED
      BY <3>2 DEF w, x, y, z, k, l, m, n
  <2>5. QED
    BY <2>3, <2>4, Zenon DEF WidthOn
<1>2. WidthOn(a) \in Seq(AnyToken)
  BY LineTypes
<1>3. /\ first \in Seq(AnyToken) /\ cursor \in Seq(AnyToken) /\ wide \in Seq(AnyToken)
      /\ glyphs \in Seq(AnyToken)
  <2>1. /\ Word("--headless") \in AnyToken /\ Word("--inheritcursor") \in AnyToken
        /\ Word("--ambiguousIsWide") \in AnyToken /\ Word("--textMeasurement") \in AnyToken
        /\ Word("graphemes") \in AnyToken /\ Word("wcswidth") \in AnyToken
        /\ Word("console") \in AnyToken
    <3>1. /\ "--headless" \in Known /\ "--inheritcursor" \in Known /\ "--ambiguousIsWide" \in Known
          /\ "--textMeasurement" \in Known /\ "graphemes" \in Measures
          /\ "wcswidth" \in Measures /\ "console" \in Measures
      BY DEF Known, Flags, Measures
    <3>2. QED
      BY <3>1, TokenTypes
  <2>2. first \in Seq(AnyToken) /\ cursor \in Seq(AnyToken) /\ wide \in Seq(AnyToken)
    BY <2>1 DEF When
  <2>3. glyphs \in Seq(AnyToken)
    BY <2>1 DEF GlyphWidth
  <2>4. QED
    BY <2>2, <2>3
<1>4. BuildConhostCommandLine(a) = (((first \o cursor) \o wide) \o glyphs) \o WidthOn(a)
  BY <1>1, Zenon DEF BuildConhostCommandLine
<1>5. WholeLine(a) = first \o (cursor \o (wide \o (glyphs \o WidthOn(a))))
  BY Zenon DEF WholeLine, InheritOn, WideOn, GlyphsOn
<1> HIDE DEF first, cursor, wide, glyphs
<1> DEFINE start1 == first \o cursor
           start2 == start1 \o wide
           end0 == WidthOn(a)
           end1 == glyphs \o end0
           end2 == wide \o end1
<1>6. /\ start1 \in Seq(AnyToken) /\ start2 \in Seq(AnyToken) /\ end0 \in Seq(AnyToken)
      /\ end1 \in Seq(AnyToken) /\ end2 \in Seq(AnyToken)
  BY <1>2, <1>3
<1> DEFINE start3 == start2 \o glyphs
           end3 == cursor \o end2
<1>7. BuildConhostCommandLine(a) = start3 \o end0 /\ WholeLine(a) = first \o end3
  BY <1>4, <1>5, Zenon
<1>8. /\ start3 = start2 \o glyphs /\ start2 = start1 \o wide /\ start1 = first \o cursor
      /\ end3 = cursor \o end2 /\ end2 = wide \o end1 /\ end1 = glyphs \o end0
  OBVIOUS
<1> HIDE DEF start1, start2, start3, end0, end1, end2, end3
<1>9. start3 \o end0 = start2 \o end1
  <2>1. start2 \in Seq(AnyToken) /\ glyphs \in Seq(AnyToken) /\ end0 \in Seq(AnyToken)
    BY <1>3, <1>6, Zenon
  <2>2. (start2 \o glyphs) \o end0 = start2 \o (glyphs \o end0)
    BY <2>1, ConcatAssociative, SMT
  <2>3. start3 = start2 \o glyphs /\ end1 = glyphs \o end0
    BY <1>8, Zenon
  <2>4. QED
    BY <2>2, <2>3, Zenon
<1>10. start2 \o end1 = start1 \o end2
  <2>1. start1 \in Seq(AnyToken) /\ wide \in Seq(AnyToken) /\ end1 \in Seq(AnyToken)
    BY <1>3, <1>6, Zenon
  <2>2. (start1 \o wide) \o end1 = start1 \o (wide \o end1)
    BY <2>1, ConcatAssociative, SMT
  <2>3. start2 = start1 \o wide /\ end2 = wide \o end1
    BY <1>8, Zenon
  <2>4. QED
    BY <2>2, <2>3, Zenon
<1>11. start1 \o end2 = first \o end3
  <2>1. first \in Seq(AnyToken) /\ cursor \in Seq(AnyToken) /\ end2 \in Seq(AnyToken)
    BY <1>3, <1>6, Zenon
  <2>2. (first \o cursor) \o end2 = first \o (cursor \o end2)
    BY <2>1, ConcatAssociative, SMT
  <2>3. start1 = first \o cursor /\ end3 = cursor \o end2
    BY <1>8, Zenon
  <2>4. QED
    BY <2>2, <2>3, Zenon
<1>12. QED
  BY <1>7, <1>9, <1>10, <1>11, Zenon

LEMMA Started ==
  ASSUME NEW by, NEW what, NEW line, Start(by, what, line)
  PROVE  /\ started_by = by /\ asked_for = what /\ tokens = line /\ command = <<>>
         /\ parsing = "parsing" /\ options = Unset /\ DOMAIN options = DOMAIN Unset
         /\ options["-Embedding"] = 0 /\ options["0x"] = 0 /\ options["--headless"] = 0
<1>1. options = Unset
  BY Zenon DEF Start
<1>2. {"-Embedding", "0x", "--headless"} \subseteq DOMAIN Unset
  BY WantedIs DEF Known, Flags
<1>3. QED
  BY <1>1, <1>2, WantedIs DEF Start

LEMMA LaunchStart == LaunchAssumption /\ LaunchInit => LaunchInv
<1> SUFFICES ASSUME LaunchAssumption, LaunchInit PROVE LaunchInv
  OBVIOUS
<1>1. CASE ConptyCreatePseudoConsole
  <2>1. PICK a \in AskedOfConpty : Start("libconpty", a, BuildConhostCommandLine(a))
    BY <1>1 DEF ConptyCreatePseudoConsole, AskedOfConpty
  <2>2. /\ started_by = "libconpty" /\ asked_for = a /\ tokens = WholeLine(a) /\ command = <<>>
        /\ parsing = "parsing" /\ options = Unset
    BY <2>1, Started, LineIs
  <2>3. HasRead(a, {}, WholeLine(a))
    BY <2>2, Zenon DEF HasRead
  <2>4. ConptyOn(a)
    BY <2>2, <2>3 DEF ConptyOn, LineRead
  <2>5. QED
    BY <2>2, <2>4, Zenon DEF LaunchInv, ConptyInv
<1>2. CASE WindowsStarts
  <2>1. PICK h \in HandleNumbers, legacy \in BOOLEAN :
          Start("windows", h, <<Word("path"), Handle(h)>> \o When(legacy, <<Word("-ForceV1")>>))
    BY <1>2, Zenon DEF WindowsStarts
  <2>2. When(legacy, <<Word("-ForceV1")>>) \in Legacy
    BY DEF When, Legacy
  <2>3. /\ asked_for = h /\ parsing = "parsing" /\ options["0x"] = 0 /\ options["-Embedding"] = 0
        /\ DOMAIN options = DOMAIN Unset
        /\ tokens = <<Word("path"), Handle(asked_for)>> \o When(legacy, <<Word("-ForceV1")>>)
    BY <2>1, Started
  <2>4. WindowsInv
    BY <2>2, <2>3, Zenon DEF WindowsInv
  <2>5. QED
    BY <2>1, <2>4, Started, Zenon DEF LaunchInv
<1>3. CASE ComStarts
  <2>1. Start("com", 0, <<Word("-Embedding")>>)
    BY <1>3, Zenon DEF ComStarts
  <2>2. ComInv
    BY <2>1, Started DEF ComInv
  <2>3. QED
    BY <2>1, <2>2, Started, Zenon DEF LaunchInv
<1>4. CASE UserStarts
  <2>1. PICK o \in UserOptions \cup {<<>>}, c \in ClientCommands, dashes \in BOOLEAN :
          /\ c # <<>> /\ Head(c).t \in Known \cup {"--"} => dashes
          /\ Start("user", c, o \o When(dashes, <<Word("--")>>) \o c)
    BY <1>4 DEF UserStarts, UserOptions
  <2>2. /\ Word("--vtmode") \in AnyToken /\ Word("--width") \in AnyToken
        /\ Word("--feature") \in AnyToken /\ Word("pty") \in AnyToken /\ Number(2) \in AnyToken
        /\ Word("--") \in AnyToken /\ c \in Seq(AnyToken)
    <3>1. "--vtmode" \in Known /\ "--width" \in Known /\ "--feature" \in Known
      BY DEF Known, Flags
    <3>2. QED
      BY <3>1, TokenTypes, CommandTypes
  <2>3. o \in Seq(AnyToken)
    <3>1. /\ <<>> \in Seq(AnyToken) /\ <<Word("--vtmode")>> \in Seq(AnyToken)
          /\ <<Word("--width"), Number(2)>> \in Seq(AnyToken)
          /\ <<Word("--feature"), Word("pty")>> \in Seq(AnyToken)
      BY <2>2
    <3>2. QED
      BY <3>1, Zenon DEF UserOptions
  <2>4. When(dashes, <<Word("--")>>) \in Seq(AnyToken)
    BY <2>2 DEF When
  <2>5. (o \o When(dashes, <<Word("--")>>)) \o c = o \o (When(dashes, <<Word("--")>>) \o c)
    <3> DEFINE w == When(dashes, <<Word("--")>>)
    <3>1. w \in Seq(AnyToken)
      BY <2>4
    <3> HIDE DEF w
    <3>2. (o \o w) \o c = o \o (w \o c)
      BY <2>2, <2>3, <3>1, ConcatAssociative, SMT
    <3>3. QED
      BY <3>2, Zenon DEF w
  <2>6. When(dashes, <<Word("--")>>) \o c = Own(dashes, c) /\ Own(dashes, c) \in Seq(AnyToken)
    <3>1. <<>> \o c = c
      BY <2>2
    <3>2. When(dashes, <<Word("--")>>) \o c = Own(dashes, c)
      BY <3>1 DEF When, Own
    <3>3. QED
      BY <2>2, <2>4, <3>2, ConcatProperties
  <2>7. tokens = o \o Own(dashes, c)
    BY <2>1, <2>5, <2>6, Started
  <2>8. tokens = Own(dashes, c) \/ (o \in UserOptions /\ tokens = o \o Own(dashes, c))
    <3>1. <<>> \o Own(dashes, c) = Own(dashes, c)
      BY <2>6
    <3>2. QED
      BY <2>7, <3>1, Zenon
  <2>9. UserInv
    BY <2>1, <2>8, Started DEF UserInv
  <2>10. QED
    BY <2>1, <2>9, Started, Zenon DEF LaunchInv
<1>5. QED
  BY <1>1, <1>2, <1>3, <1>4, Zenon DEF LaunchInit

LEMMA LaunchStep == LaunchAssumption /\ LaunchInv /\ [LaunchNext]_launch_vars => LaunchInv'
<1> SUFFICES ASSUME LaunchAssumption, LaunchInv, [LaunchNext]_launch_vars PROVE LaunchInv'
  OBVIOUS
<1>1. CASE LaunchNext
  <2>1. started_by' = started_by
    BY <1>1, Turn, Zenon
  <2>2. CASE started_by = "libconpty" /\ ConptyInv
    BY <1>1, <2>1, <2>2, ConptyTurn, Zenon DEF LaunchInv
  <2>3. CASE started_by = "windows" /\ WindowsInv
    BY <1>1, <2>1, <2>3, WindowsTurn, Zenon DEF LaunchInv
  <2>4. CASE started_by = "com" /\ ComInv
    BY <1>1, <2>1, <2>4, ComTurn, Zenon DEF LaunchInv
  <2>5. CASE started_by = "user" /\ UserInv
    BY <1>1, <2>1, <2>5, UserTurn, Zenon DEF LaunchInv
  <2>6. QED
    BY <2>2, <2>3, <2>4, <2>5, Zenon DEF LaunchInv
<1>2. CASE UNCHANGED launch_vars
  <2>1. UNCHANGED <<started_by, asked_for, options, command, tokens, parsing>>
    BY <1>2 DEF launch_vars
  <2>2. ConptyInv => ConptyInv'
    BY <2>1, Zenon DEF ConptyInv, ConptyOn, LineRead, HasRead
  <2>3. WindowsInv => WindowsInv'
    BY <2>1, Zenon DEF WindowsInv
  <2>4. ComInv => ComInv'
    BY <2>1, Zenon DEF ComInv
  <2>5. UserInv => UserInv'
    BY <2>1, Zenon DEF UserInv
  <2>6. QED
    BY <2>1, <2>2, <2>3, <2>4, <2>5, Zenon DEF LaunchInv
<1>3. QED
  BY <1>1, <1>2

\* LaunchedAsAsked: the host runs what its creator asked for, option by option, and a user's
\* command reaches the client untouched; only a size that libconpty let through is refused
\* (BuildConhostCommandLine, console_arguments, wWinMain).
THEOREM HostsRunAsAsked == LaunchAssumption => (LaunchSpec => []LaunchedAsAsked)
<1> SUFFICES ASSUME LaunchAssumption PROVE LaunchSpec => []LaunchedAsAsked
  OBVIOUS
<1>1. LaunchInv => LaunchedAsAsked
  <2> SUFFICES ASSUME LaunchInv PROVE LaunchedAsAsked
    OBVIOUS
  <2>1. CASE started_by = "libconpty" /\ ConptyInv
    <3>1. PICK a \in AskedOfConpty : a = asked_for /\ ConptyOn(a)
      BY <2>1, Zenon DEF ConptyInv
    <3>2. ASSUME parsing = "parsed"
          PROVE  /\ Runs = "conpty_entry" /\ command = <<>>
                 /\ options["--width"] = a.width /\ options["--height"] = a.height
                 /\ options["--signal"] = a.signal /\ options["--server"] = a.server
                 /\ a.inherit <=> options["--inheritcursor"] = 1
                 /\ a.wide <=> options["--ambiguousIsWide"] = 1
                 /\ options["--textMeasurement"] = Measured(a.glyphs)
      <4>1. command = <<>> /\ HasRead(a, Read8, <<>>)
        BY <3>1, <3>2 DEF ConptyOn
      <4>2. /\ {"--headless", "--inheritcursor", "--ambiguousIsWide", "--textMeasurement",
                "--width", "--height", "--signal", "--server"} \subseteq DOMAIN Unset
            /\ {"-Embedding", "0x"} \subseteq DOMAIN Unset
        BY WantedIs DEF Known, Flags
      <4>3. /\ {"--headless", "--inheritcursor", "--ambiguousIsWide", "--textMeasurement",
                "--width", "--height", "--signal", "--server"} \subseteq Read8
            /\ "-Embedding" \notin Read8 /\ "0x" \notin Read8
        BY DEF Read1, Read2, Read3, Read4, Read5, Read6, Read7, Read8
      <4>4. /\ \A o \in {"--headless", "--inheritcursor", "--ambiguousIsWide",
                         "--textMeasurement", "--width", "--height", "--signal", "--server"} :
                  options[o] = Wanted(a)[o]
            /\ options["-Embedding"] = 0 /\ options["0x"] = 0
        BY <4>1, <4>2, <4>3, WantedIs DEF HasRead
      <4>5. a.inherit \in BOOLEAN /\ a.wide \in BOOLEAN
        BY DEF AskedOfConpty
      <4>6. QED
        BY <4>1, <4>4, <4>5, WantedIs DEF Runs
    <3>3. parsing = "refused" => ~({a.width, a.height} \subseteq SizeValues)
      BY <3>1, Zenon DEF ConptyOn
    <3>4. "libconpty" # "windows" /\ "libconpty" # "com" /\ "libconpty" # "user"
      OBVIOUS
    <3>5. QED
      BY <2>1, <3>1, <3>2, <3>3, <3>4, Zenon DEF LaunchedAsAsked
  <2>2. CASE started_by = "windows" /\ WindowsInv
    <3>1. asked_for # 0
      BY <2>2 DEF WindowsInv, LaunchAssumption
    <3>2. parsing = "parsed" => Runs = "defterm_entry" /\ options["0x"] = asked_for
      BY <2>2, <3>1 DEF WindowsInv, Runs
    <3>3. QED
      BY <2>2, <3>2 DEF LaunchedAsAsked, WindowsInv
  <2>3. CASE started_by = "com" /\ ComInv
    BY <2>3 DEF LaunchedAsAsked, ComInv, Runs
  <2>4. CASE started_by = "user" /\ UserInv
    BY <2>4 DEF LaunchedAsAsked, UserInv, Runs
  <2>5. QED
    BY <2>1, <2>2, <2>3, <2>4, Zenon DEF LaunchInv
<1>2. LaunchInit => LaunchInv
  BY LaunchStart
<1>3. LaunchInv /\ [LaunchNext]_launch_vars => LaunchInv'
  BY LaunchStep
<1>4. QED
  BY <1>1, <1>2, <1>3, PTL DEF LaunchSpec

-----------------------------------------------------------------------------
(* SignalPipe: the inductive invariants *)

Resizes == {[id |-> "ResizeWindow", v |-> s] : s \in Coordinates}
Clears == {[id |-> "ClearBuffer", v |-> k] : k \in {"row", "all"}}
Parents == {[id |-> "SetParent", v |-> w] : w \in Windows}
PtySignals == Resizes \cup Clears \cup Parents \cup {[id |-> "ShowHideWindow", v |-> NoValue]}
RealResizes == {s \in Resizes : s.v > 0}

ControlMessages ==
  [code : {"NotifyConsoleApplication", "SetForeground", "EndTask"}, dw_size : Nat, nth : Nat]

PipeMessages == PtySignals \cup ControlMessages
PipeBytes == [m : PipeMessages, i : Nat]
ByteOf(s, k) == [m |-> s, i |-> k]

\* A pipe holds whole messages of M, one behind the other; a message m has size[m] bytes.
Whole(pipe, M, size) ==
  /\ pipe \in Seq(PipeBytes)
  /\ \A j \in 1..Len(pipe) : pipe[j].m \in M /\ pipe[j].i \in 1..size[pipe[j].m]
  /\ \A j \in 1..Len(pipe) : pipe[j].i < size[pipe[j].m] =>
       j < Len(pipe) /\ pipe[j + 1] = ByteOf(pipe[j].m, pipe[j].i + 1)
  /\ \A j \in 1..Len(pipe) : pipe[j].i = size[pipe[j].m] /\ j < Len(pipe) => pipe[j + 1].i = 1
  /\ pipe # <<>> => pipe[1].i = 1

\* What was asked last by a message of kind Q is the value of the last one in the pipe, or
\* has arrived if the pipe has none.
LastAsked(pipe, Q, value, asked) ==
  /\ (\A j \in 1..Len(pipe) : pipe[j].m \notin Q) => value = asked
  /\ \A j \in 1..Len(pipe) :
       pipe[j].m \in Q /\ (\A k \in (j + 1)..Len(pipe) : pipe[k].m \notin Q) =>
         pipe[j].m.v = asked

SignalSize == [s \in PtySignals |-> IF s \in Parents THEN 10 ELSE IF s \in Resizes THEN 6 ELSE 4]

PtyInv ==
  /\ Whole(signal_pipe, PtySignals, SignalSize)
  /\ LastAsked(signal_pipe, RealResizes, _resize, asked_resize)
  /\ LastAsked(signal_pipe, Clears, _clear, asked_clear)
  /\ LastAsked(signal_pipe, Parents, parent, asked_parent)
  /\ reader # "failed"

ControlSize == [c \in ControlMessages |-> 1 + c.dw_size]

\* The message c comes when k messages were passed on.
Comes(c, k) == c.nth = IF c.code = "SetForeground" THEN k ELSE k + 1

\* Messages to pass on are in the list of those written; sizes cover the fields read.
ToBePassedOn ==
  \A j \in 1..Len(control_pipe) : LET c == control_pipe[j].m IN
    /\ min_payload_for(c.code) <= c.dw_size
    /\ c.code # "SetForeground" => c.nth \in 1..Len(control_sent) /\ control_sent[c.nth] = c

\* Those passed on are the first of those written.
PassedOn ==
  /\ control_sent \in Seq(ControlMessages) /\ control_calls \in Seq(ControlMessages)
  /\ Len(control_calls) <= Len(control_sent)
  /\ \A k \in 1..Len(control_calls) : control_calls[k] = control_sent[k]

\* The messages in the pipe come in the order in which they were written.
InTurn ==
  /\ control_pipe # <<>> => Comes(control_pipe[1].m, Len(control_calls))
  /\ \A j \in 1..Len(control_pipe) :
       control_pipe[j].i = ControlSize[control_pipe[j].m] /\ j < Len(control_pipe) =>
         Comes(control_pipe[j + 1].m, control_pipe[j].m.nth)
  /\ control_pipe # <<>> => control_pipe[Len(control_pipe)].m.nth = Len(control_sent)
  /\ control_pipe = <<>> => Len(control_calls) = Len(control_sent)

ControlInv ==
  /\ Whole(control_pipe, ControlMessages, ControlSize)
  /\ ToBePassedOn /\ PassedOn /\ InTurn
  /\ forwarder # "failed"

SignalInv == PtyInv /\ ControlInv

-----------------------------------------------------------------------------
(* Pipes of whole messages *)

LEMMA BytesAre ==
  ASSUME NEW s \in PipeMessages, NEW n \in Nat
  PROVE  /\ MessageBytes(s, n) \in Seq(PipeBytes) /\ Len(MessageBytes(s, n)) = n
         /\ \A i \in 1..n : MessageBytes(s, n)[i] = ByteOf(s, i)
<1>1. MessageBytes(s, n) = [i \in 1..n |-> ByteOf(s, i)]
  BY DEF MessageBytes, ByteOf
<1>2. \A k \in Nat : ByteOf(s, k) \in PipeBytes
  BY DEF PipeBytes, ByteOf
<1>3. QED
  BY <1>1, <1>2

\* The first message is there to its last byte.
LEMMA FirstIsWhole ==
  ASSUME NEW M, NEW size \in [M -> Nat \ {0}], NEW pipe,
         Whole(pipe, M, size), pipe # <<>>
  PROVE  /\ pipe[1].m \in M /\ size[pipe[1].m] \in Nat \ {0} /\ size[pipe[1].m] <= Len(pipe)
         /\ \A k \in 1..size[pipe[1].m] : pipe[k] = ByteOf(pipe[1].m, k)
<1>1. /\ pipe \in Seq(PipeBytes) /\ Len(pipe) \in Nat /\ 1 \in 1..Len(pipe)
      /\ pipe[1].i = 1
  BY DEF Whole
<1>2. PICK s \in M : s = pipe[1].m /\ pipe[1] = ByteOf(s, 1)
  <2>1. pipe[1] \in PipeBytes
    BY <1>1
  <2>2. pipe[1] = ByteOf(pipe[1].m, pipe[1].i)
    BY <2>1 DEF PipeBytes, ByteOf
  <2>3. pipe[1].m \in M
    BY <1>1, Zenon DEF Whole
  <2>4. QED
    BY <1>1, <2>2, <2>3, Zenon
<1>3. PICK n \in Nat \ {0} : n = size[s]
  OBVIOUS
<1> DEFINE I == {k \in 1..n : ~(k <= Len(pipe) /\ pipe[k] = ByteOf(s, k))}
<1>4. ASSUME NEW k \in I, \A i \in I : k <= i PROVE FALSE
  <2>1. k # 1
    <3>1. 1 <= Len(pipe)
      BY <1>1
    <3>2. k = 1 => ByteOf(s, k) = ByteOf(s, 1)
      OBVIOUS
    <3>3. QED
      BY <1>2, <3>1, <3>2, Zenon
  <2>2. k \in 1..n /\ k - 1 \in 1..n /\ k - 1 < n /\ (k - 1) + 1 = k /\ ~(k <= k - 1)
    BY <2>1
  <2>3. k - 1 <= Len(pipe) /\ pipe[k - 1] = ByteOf(s, k - 1)
    BY <1>4, <2>2
  <2>4. k - 1 \in 1..Len(pipe) /\ pipe[k - 1].i = k - 1 /\ pipe[k - 1].m = s
    BY <1>1, <1>3, <2>2, <2>3 DEF ByteOf
  <2>5. /\ k - 1 < Len(pipe)
        /\ pipe[(k - 1) + 1] = ByteOf(pipe[k - 1].m, pipe[k - 1].i + 1)
    BY <1>3, <2>2, <2>4, Zenon DEF Whole
  <2>6. k - 1 < Len(pipe) /\ pipe[k] = ByteOf(s, k)
    BY <2>2, <2>4, <2>5, Zenon
  <2>7. QED
    BY <1>1, <2>2, <2>6
<1>5. I = {}
  <2>1. I \subseteq Nat
    OBVIOUS
  <2> HIDE DEF I
  <2>2. QED
    BY <1>4, <2>1, LeastNumber, Zenon
<1>6. \A k \in 1..n : k <= Len(pipe) /\ pipe[k] = ByteOf(s, k)
  BY <1>5
<1>7. n <= Len(pipe)
  <2>1. n \in 1..n
    OBVIOUS
  <2>2. QED
    BY <1>6, <2>1, Zenon
<1>8. QED
  BY <1>2, <1>3, <1>6, <1>7

\* What is behind the first message.
LEMMA RestIs ==
  ASSUME NEW pipe \in Seq(PipeBytes), NEW n \in 0..Len(pipe)
  PROVE  /\ Drop(pipe, n) \in Seq(PipeBytes) /\ Len(Drop(pipe, n)) = Len(pipe) - n
         /\ \A j \in 1..(Len(pipe) - n) : Drop(pipe, n)[j] = pipe[n + j]
BY SuffixIs DEF Drop

LEMMA RestIsWhole ==
  ASSUME NEW M, NEW size \in [M -> Nat \ {0}], NEW pipe,
         Whole(pipe, M, size), pipe # <<>>
  PROVE  Whole(Drop(pipe, size[pipe[1].m]), M, size)
<1>1. pipe \in Seq(PipeBytes) /\ Len(pipe) \in Nat
  BY DEF Whole
<1>2. PICK n \in Nat \ {0} :
        /\ n = size[pipe[1].m] /\ n <= Len(pipe) /\ pipe[n].i = n /\ pipe[n].m = pipe[1].m
  <2>1. /\ size[pipe[1].m] \in Nat \ {0} /\ size[pipe[1].m] <= Len(pipe)
        /\ pipe[size[pipe[1].m]] = ByteOf(pipe[1].m, size[pipe[1].m])
    <3>1. /\ size[pipe[1].m] \in Nat \ {0} /\ size[pipe[1].m] <= Len(pipe)
          /\ \A k \in 1..size[pipe[1].m] : pipe[k] = ByteOf(pipe[1].m, k)
      BY FirstIsWhole
    <3>2. size[pipe[1].m] \in 1..size[pipe[1].m]
      BY <3>1
    <3>3. QED
      BY <3>1, <3>2, Zenon
  <2>2. QED
    BY <2>1 DEF ByteOf
<1>3. PICK rest \in Seq(PipeBytes) :
        /\ rest = Drop(pipe, n) /\ Len(rest) = Len(pipe) - n
        /\ \A j \in 1..(Len(pipe) - n) : rest[j] = pipe[n + j]
  <2>1. n \in 0..Len(pipe)
    BY <1>1, <1>2
  <2>2. /\ Drop(pipe, n) \in Seq(PipeBytes) /\ Len(Drop(pipe, n)) = Len(pipe) - n
        /\ \A j \in 1..(Len(pipe) - n) : Drop(pipe, n)[j] = pipe[n + j]
    BY <1>1, <2>1, RestIs
  <2>3. QED
    BY <2>2, Zenon
<1>4. Len(rest) = Len(pipe) - n /\ Len(rest) \in Nat
  BY <1>1, <1>2, <1>3
<1>5. ASSUME NEW j \in 1..Len(rest)
      PROVE  /\ rest[j].m \in M /\ rest[j].i \in 1..size[rest[j].m]
             /\ rest[j].i < size[rest[j].m] =>
                  j < Len(rest) /\ rest[j + 1] = ByteOf(rest[j].m, rest[j].i + 1)
             /\ rest[j].i = size[rest[j].m] /\ j < Len(rest) => rest[j + 1].i = 1
  <2>1. /\ n + j \in 1..Len(pipe) /\ (n + j) + 1 = n + (j + 1)
        /\ (n + j < Len(pipe) <=> j < Len(rest))
        /\ (j < Len(rest) => j + 1 \in 1..(Len(pipe) - n))
        /\ j \in 1..(Len(pipe) - n)
    <3>1. n <= Len(pipe)
      BY <1>2, Zenon
    <3>2. QED
      BY <1>1, <1>4, <3>1
  <2>2. rest[j] = pipe[n + j]
    BY <1>3, <2>1
  <2>3. j < Len(rest) => rest[j + 1] = pipe[(n + j) + 1]
    BY <1>3, <2>1
  <2>4. /\ pipe[n + j].m \in M /\ pipe[n + j].i \in 1..size[pipe[n + j].m]
        /\ pipe[n + j].i < size[pipe[n + j].m] =>
             n + j < Len(pipe)
             /\ pipe[(n + j) + 1] = ByteOf(pipe[n + j].m, pipe[n + j].i + 1)
        /\ pipe[n + j].i = size[pipe[n + j].m] /\ n + j < Len(pipe) => pipe[(n + j) + 1].i = 1
    BY <2>1, Zenon DEF Whole
  <2>5. QED
    BY <2>1, <2>2, <2>3, <2>4
<1>6. rest # <<>> => rest[1].i = 1
  <2>1. SUFFICES ASSUME rest # <<>> PROVE rest[1].i = 1
    OBVIOUS
  <2>2. Len(rest) # 0
    BY <1>3, <2>1
  <2>3. 1 \in 1..(Len(pipe) - n) /\ n \in 1..Len(pipe) /\ n < Len(pipe)
    <3>1. n <= Len(pipe)
      BY <1>2, Zenon
    <3>2. QED
      BY <1>1, <1>4, <2>2, <3>1
  <2>4. pipe[n + 1].i = 1
    BY <1>2, <2>3 DEF Whole
  <2>5. QED
    BY <1>3, <2>3, <2>4
<1>7. QED
  BY <1>2, <1>3, <1>5, <1>6 DEF Whole

\* A message written behind what is there.
LEMMA PipeWritten ==
  ASSUME NEW pipe \in Seq(PipeBytes), NEW s \in PipeMessages, NEW n \in Nat \ {0}
  PROVE  \E w \in Seq(PipeBytes) :
           /\ w = pipe \o MessageBytes(s, n) /\ Len(w) = Len(pipe) + n /\ w # <<>>
           /\ \A j \in 1..Len(pipe) : w[j] = pipe[j]
           /\ \A i \in 1..n : w[Len(pipe) + i] = ByteOf(s, i)
<1>1. PICK b \in Seq(PipeBytes) :
        b = MessageBytes(s, n) /\ Len(b) = n /\ \A i \in 1..n : b[i] = ByteOf(s, i)
  <2>1. n \in Nat
    OBVIOUS
  <2>2. /\ MessageBytes(s, n) \in Seq(PipeBytes) /\ Len(MessageBytes(s, n)) = n
        /\ \A i \in 1..n : MessageBytes(s, n)[i] = ByteOf(s, i)
    BY <2>1, BytesAre
  <2>3. QED
    BY <2>2, Zenon
<1>2. PICK w \in Seq(PipeBytes) :
        /\ w = pipe \o b /\ Len(w) = Len(pipe) + n
        /\ \A i \in 1..(Len(pipe) + n) :
             w[i] = IF i <= Len(pipe) THEN pipe[i] ELSE b[i - Len(pipe)]
  <2>1. /\ pipe \o b \in Seq(PipeBytes) /\ Len(pipe \o b) = Len(pipe) + Len(b)
        /\ \A i \in 1..(Len(pipe) + Len(b)) :
             (pipe \o b)[i] = IF i <= Len(pipe) THEN pipe[i] ELSE b[i - Len(pipe)]
    BY ConcatProperties
  <2>2. QED
    BY <1>1, <2>1, Zenon
<1>3. Len(pipe) \in Nat
  OBVIOUS
<1>4. ASSUME NEW j \in 1..Len(pipe) PROVE w[j] = pipe[j]
  <2>1. j \in 1..(Len(pipe) + n) /\ j <= Len(pipe)
    BY <1>3
  <2>2. QED
    BY <1>2, <2>1, Zenon
<1>5. ASSUME NEW i \in 1..n PROVE w[Len(pipe) + i] = ByteOf(s, i)
  <2>1. /\ Len(pipe) + i \in 1..(Len(pipe) + n) /\ ~(Len(pipe) + i <= Len(pipe))
        /\ (Len(pipe) + i) - Len(pipe) = i
    BY <1>3
  <2>2. w[Len(pipe) + i] = b[(Len(pipe) + i) - Len(pipe)]
    BY <1>2, <2>1, Zenon
  <2>3. QED
    BY <1>1, <2>1, <2>2
<1>6. w # <<>>
  BY <1>2, <1>3
<1>7. QED
  BY <1>1, <1>2, <1>4, <1>5, <1>6, Zenon

LEMMA WrittenIsWhole ==
  ASSUME NEW M, NEW size \in [M -> Nat \ {0}], NEW pipe,
         Whole(pipe, M, size), NEW s \in M, s \in PipeMessages
  PROVE  Whole(pipe \o MessageBytes(s, size[s]), M, size)
<1>1. pipe \in Seq(PipeBytes) /\ Len(pipe) \in Nat
  BY DEF Whole
<1>2. PICK n \in Nat \ {0} : n = size[s]
  OBVIOUS
<1>3. PICK w \in Seq(PipeBytes) :
        /\ w = pipe \o MessageBytes(s, n) /\ Len(w) = Len(pipe) + n /\ w # <<>>
        /\ \A j \in 1..Len(pipe) : w[j] = pipe[j]
        /\ \A i \in 1..n : w[Len(pipe) + i] = ByteOf(s, i)
  <2>1. s \in PipeMessages
    OBVIOUS
  <2>2. QED
    BY <1>1, <2>1, PipeWritten
<1>4. ASSUME NEW j \in 1..Len(w)
      PROVE  /\ w[j].m \in M /\ w[j].i \in 1..size[w[j].m]
             /\ w[j].i < size[w[j].m] =>
                  j < Len(w) /\ w[j + 1] = ByteOf(w[j].m, w[j].i + 1)
             /\ w[j].i = size[w[j].m] /\ j < Len(w) => w[j + 1].i = 1
  <2>1. CASE j \in 1..Len(pipe)
    <3>1. j < Len(pipe) => j + 1 \in 1..Len(pipe)
      BY <1>1
    <3>2. j < Len(pipe) => j < Len(w)
      BY <1>1, <1>2, <1>3
    <3>3. j = Len(pipe) => w[j + 1].i = 1
      <4>1. 1 \in 1..n
        OBVIOUS
      <4>2. w[Len(pipe) + 1].i = 1
        <5>1. w[Len(pipe) + 1] = ByteOf(s, 1)
          BY <1>3, <4>1, Zenon
        <5>2. QED
          BY <5>1 DEF ByteOf
      <4>3. QED
        BY <4>2, Zenon
    <3>4. /\ pipe[j].m \in M /\ pipe[j].i \in 1..size[pipe[j].m]
          /\ pipe[j].i < size[pipe[j].m] =>
               j < Len(pipe) /\ pipe[j + 1] = ByteOf(pipe[j].m, pipe[j].i + 1)
          /\ pipe[j].i = size[pipe[j].m] /\ j < Len(pipe) => pipe[j + 1].i = 1
      BY <2>1, Zenon DEF Whole
    <3>5. j < Len(pipe) \/ j = Len(pipe)
      BY <1>1, <2>1
    <3>6. w[j] = pipe[j] /\ (j < Len(pipe) => w[j + 1] = pipe[j + 1])
      BY <1>3, <2>1, <3>1
    <3>7. QED
      BY <3>2, <3>3, <3>4, <3>5, <3>6
  <2>2. CASE j \notin 1..Len(pipe)
    <3>1. PICK i \in 1..n : j = Len(pipe) + i
      <4>1. j - Len(pipe) \in 1..n /\ j = Len(pipe) + (j - Len(pipe))
        BY <1>1, <1>3, <2>2
      <4>2. QED
        BY <4>1
    <3>2. w[j] = ByteOf(s, i)
      BY <1>3, <3>1
    <3>3. /\ i < n => i + 1 \in 1..n /\ j < Len(w) /\ j + 1 = Len(pipe) + (i + 1)
          /\ i = n => ~(j < Len(w))
      BY <1>1, <1>3, <3>1
    <3>4. i < n => w[j + 1] = ByteOf(s, i + 1)
      BY <1>3, <3>3
    <3>5. QED
      BY <1>2, <3>2, <3>3, <3>4 DEF ByteOf
  <2>3. QED
    BY <2>1, <2>2
<1>5. w[1].i = 1
  <2>1. CASE pipe = <<>>
    <3>1. w[Len(pipe) + 1] = ByteOf(s, 1) /\ Len(pipe) + 1 = 1
      BY <1>3, <2>1
    <3>2. QED
      BY <3>1 DEF ByteOf
  <2>2. CASE pipe # <<>>
    <3>1. 1 \in 1..Len(pipe)
      BY <1>1, <2>2
    <3>2. QED
      BY <1>3, <2>2, <3>1 DEF Whole
  <2>3. QED
    BY <2>1, <2>2
<1>6. QED
  BY <1>2, <1>3, <1>4, <1>5, Zenon DEF Whole

-----------------------------------------------------------------------------
(* What was asked last *)

LEMMA AskedMore ==
  ASSUME NEW pipe \in Seq(PipeBytes), NEW s \in PipeMessages, NEW n \in Nat \ {0}, NEW Q,
         NEW value, NEW asked, LastAsked(pipe, Q, value, asked)
  PROVE  LastAsked(pipe \o MessageBytes(s, n), Q, value, IF s \in Q THEN s.v ELSE asked)
<1>1. PICK w \in Seq(PipeBytes) :
        /\ w = pipe \o MessageBytes(s, n) /\ Len(w) = Len(pipe) + n /\ w # <<>>
        /\ \A j \in 1..Len(pipe) : w[j] = pipe[j]
        /\ \A i \in 1..n : w[Len(pipe) + i] = ByteOf(s, i)
  BY PipeWritten
<1>2. Len(pipe) \in Nat /\ Len(w) \in Nat
  OBVIOUS
<1>3. ASSUME NEW j \in 1..Len(w) PROVE j \in 1..Len(pipe) \/ w[j].m = s
  <2>1. Len(w) = Len(pipe) + n
    BY <1>1, Zenon
  <2>2. j \notin 1..Len(pipe) => j - Len(pipe) \in 1..n /\ j = Len(pipe) + (j - Len(pipe))
    BY <1>2, <2>1
  <2>3. ASSUME NEW i \in 1..n, j = Len(pipe) + i PROVE w[j].m = s
    <3>1. w[j] = ByteOf(s, i)
      BY <1>1, <2>3, Zenon
    <3>2. QED
      BY <3>1 DEF ByteOf
  <2>4. QED
    BY <2>2, <2>3, Zenon
<1>4. \A j \in 1..Len(pipe) : j \in 1..Len(w)
  BY <1>1, <1>2
<1>5. Len(w) \in 1..Len(w) /\ Len(w) \notin 1..Len(pipe)
  BY <1>1, <1>2
<1>6. CASE s \in Q
  <2>1. w[Len(w)].m \in Q
    BY <1>3, <1>5, <1>6
  <2>2. ASSUME NEW j \in 1..Len(w), \A k \in (j + 1)..Len(w) : w[k].m \notin Q
        PROVE  w[j].m.v = s.v
    <3>1. j = Len(w)
      BY <1>2, <2>1, <2>2
    <3>2. QED
      BY <1>3, <1>5, <3>1
  <2>3. QED
    BY <1>1, <1>5, <1>6, <2>1, <2>2 DEF LastAsked
<1>7. CASE s \notin Q
  <2>1. \A j \in 1..Len(w) : w[j].m \in Q => j \in 1..Len(pipe) /\ w[j] = pipe[j]
    BY <1>1, <1>3, <1>7
  <2>2. (\A j \in 1..Len(w) : w[j].m \notin Q) => value = asked
    <3>1. (\A j \in 1..Len(w) : w[j].m \notin Q) => \A j \in 1..Len(pipe) : pipe[j].m \notin Q
      BY <1>1, <1>4
    <3>2. QED
      BY <3>1, Zenon DEF LastAsked
  <2>3. ASSUME NEW j \in 1..Len(w), w[j].m \in Q, \A k \in (j + 1)..Len(w) : w[k].m \notin Q
        PROVE  w[j].m.v = asked
    <3>1. j \in 1..Len(pipe) /\ w[j] = pipe[j]
      BY <2>1, <2>3
    <3>2. ASSUME NEW k \in (j + 1)..Len(pipe) PROVE pipe[k].m \notin Q
      <4>1. k \in (j + 1)..Len(w) /\ k \in 1..Len(pipe)
        BY <1>1, <1>2
      <4>2. QED
        BY <1>1, <2>3, <4>1
    <3>3. QED
      BY <2>3, <3>1, <3>2, Zenon DEF LastAsked
  <2>4. QED
    BY <1>1, <1>7, <2>2, <2>3 DEF LastAsked
<1>8. QED
  BY <1>6, <1>7

LEMMA AskedArrives ==
  ASSUME NEW pipe \in Seq(PipeBytes), NEW s \in PipeMessages, NEW n \in 1..Len(pipe),
         \A k \in 1..n : pipe[k].m = s, NEW Q, NEW value, NEW asked,
         LastAsked(pipe, Q, value, asked)
  PROVE  LastAsked(Drop(pipe, n), Q, IF s \in Q THEN s.v ELSE value, asked)
<1>1. PICK rest \in Seq(PipeBytes) :
        /\ rest = Drop(pipe, n) /\ Len(rest) = Len(pipe) - n
        /\ \A j \in 1..(Len(pipe) - n) : rest[j] = pipe[n + j]
  <2>1. n \in 0..Len(pipe)
    OBVIOUS
  <2>2. /\ Drop(pipe, n) \in Seq(PipeBytes) /\ Len(Drop(pipe, n)) = Len(pipe) - n
        /\ \A j \in 1..(Len(pipe) - n) : Drop(pipe, n)[j] = pipe[n + j]
    BY <2>1, RestIs
  <2>3. QED
    BY <2>2, Zenon
<1>2. Len(pipe) \in Nat /\ n \in Nat /\ n >= 1 /\ Len(rest) = Len(pipe) - n
  BY <1>1
<1>3. ASSUME NEW j \in 1..Len(pipe), j \notin 1..n
      PROVE  j - n \in 1..Len(rest) /\ rest[j - n] = pipe[j]
  <2>1. j - n \in 1..Len(rest) /\ n + (j - n) = j
    BY <1>2, <1>3
  <2>2. QED
    BY <1>1, <1>2, <2>1
<1>4. ASSUME NEW j \in 1..Len(rest) PROVE n + j \in 1..Len(pipe) /\ rest[j] = pipe[n + j]
  BY <1>1, <1>2
<1>5. ASSUME \A j \in 1..Len(rest) : rest[j].m \notin Q
      PROVE  (IF s \in Q THEN s.v ELSE value) = asked
  <2>1. \A j \in 1..Len(pipe) : j \notin 1..n => pipe[j].m \notin Q
    BY <1>3, <1>5
  <2>2. CASE s \in Q
    <3>1. n \in 1..Len(pipe) /\ n \in 1..n /\ pipe[n].m = s
      BY <1>2
    <3>2. ASSUME NEW k \in (n + 1)..Len(pipe) PROVE pipe[k].m \notin Q
      <4>1. k \in 1..Len(pipe) /\ k \notin 1..n
        BY <1>2
      <4>2. QED
        BY <2>1, <4>1
    <3>3. pipe[n].m.v = asked
      BY <2>2, <3>1, <3>2 DEF LastAsked
    <3>4. QED
      BY <2>2, <3>1, <3>3
  <2>3. CASE s \notin Q
    <3>1. \A j \in 1..Len(pipe) : pipe[j].m \notin Q
      BY <2>1, <2>3
    <3>2. QED
      BY <2>3, <3>1 DEF LastAsked
  <2>4. QED
    BY <2>2, <2>3
<1>6. ASSUME NEW j \in 1..Len(rest), rest[j].m \in Q,
             \A k \in (j + 1)..Len(rest) : rest[k].m \notin Q
      PROVE  rest[j].m.v = asked
  <2>1. n + j \in 1..Len(pipe) /\ rest[j] = pipe[n + j]
    BY <1>4
  <2>2. ASSUME NEW k \in ((n + j) + 1)..Len(pipe) PROVE pipe[k].m \notin Q
    <3>1. k \in 1..Len(pipe) /\ k \notin 1..n /\ k - n \in (j + 1)..Len(rest)
      BY <1>2
    <3>2. rest[k - n] = pipe[k]
      BY <1>3, <3>1
    <3>3. QED
      BY <1>6, <3>1, <3>2
  <2>3. QED
    BY <1>6, <2>1, <2>2, Zenon DEF LastAsked
<1>7. QED
  BY <1>1, <1>5, <1>6 DEF LastAsked

-----------------------------------------------------------------------------
(* Signals *)

LEMMA SignalKinds ==
  ASSUME SignalPipeAssumption, NEW s \in PtySignals
  PROVE  /\ s \in PipeMessages
         /\ (s \in Clears <=> s.id = "ClearBuffer") /\ (s \in Parents <=> s.id = "SetParent")
         /\ (s \in RealResizes <=> s.id = "ResizeWindow" /\ s.v > 0)
         /\ SignalSize[s] \in Nat \ {0} /\ 2 + payload_size_for(s.id) = SignalSize[s]
<1>1. CASE s \in Resizes
  <2>1. PICK v \in Coordinates : s = [id |-> "ResizeWindow", v |-> v]
    BY <1>1 DEF Resizes
  <2>2. s.id = "ResizeWindow" /\ s \notin Clears /\ s \notin Parents
    BY <2>1 DEF Clears, Parents
  <2>3. SignalSize[s] = 6 /\ payload_size_for(s.id) = 4
    BY <1>1, <2>2 DEF SignalSize, payload_size_for
  <2>4. QED
    BY <1>1, <2>2, <2>3 DEF RealResizes, PipeMessages
<1>2. CASE s \in Clears
  <2>1. s.id = "ClearBuffer" /\ s \notin Resizes /\ s \notin Parents
    BY <1>2 DEF Clears, Resizes, Parents
  <2>2. SignalSize[s] = 4 /\ payload_size_for(s.id) = 2
    BY <2>1 DEF SignalSize, payload_size_for
  <2>3. QED
    BY <1>2, <2>1, <2>2 DEF RealResizes, PipeMessages
<1>3. CASE s \in Parents
  <2>1. s.id = "SetParent" /\ s \notin Resizes /\ s \notin Clears
    BY <1>3 DEF Clears, Resizes, Parents
  <2>2. SignalSize[s] = 10 /\ payload_size_for(s.id) = 8
    BY <1>3, <2>1 DEF SignalSize, payload_size_for
  <2>3. QED
    BY <1>3, <2>1, <2>2 DEF RealResizes, PipeMessages
<1>4. CASE s = [id |-> "ShowHideWindow", v |-> NoValue]
  <2>1. s.id = "ShowHideWindow" /\ s \notin Resizes /\ s \notin Clears /\ s \notin Parents
    BY <1>4 DEF Clears, Resizes, Parents
  <2>2. SignalSize[s] = 4 /\ payload_size_for(s.id) = 2
    BY <2>1 DEF SignalSize, payload_size_for
  <2>3. QED
    BY <2>1, <2>2 DEF RealResizes, PipeMessages
<1>5. QED
  BY <1>1, <1>2, <1>3, <1>4 DEF PtySignals

LEMMA SizesAre ==
  ASSUME SignalPipeAssumption
  PROVE  SignalSize \in [PtySignals -> Nat \ {0}] /\ ControlSize \in [ControlMessages -> Nat \ {0}]
<1>1. \A s \in PtySignals : SignalSize[s] \in Nat \ {0}
  BY SignalKinds
<1>2. SignalSize \in [PtySignals -> Nat \ {0}]
  BY <1>1 DEF SignalSize
<1>3. \A c \in ControlMessages : 1 + c.dw_size \in Nat \ {0}
  BY DEF ControlMessages
<1>4. QED
  BY <1>2, <1>3 DEF ControlSize

\* Each call of libconpty writes one signal.
LEMMA SignalWritten ==
  ASSUME SignalPipeAssumption, PtyInv, NEW s \in PtySignals,
         signal_pipe' = signal_pipe \o MessageBytes(s, SignalSize[s]),
         UNCHANGED <<_resize, _clear, parent, reader>>,
         asked_resize' = (IF s \in RealResizes THEN s.v ELSE asked_resize),
         asked_clear' = (IF s \in Clears THEN s.v ELSE asked_clear),
         asked_parent' = (IF s \in Parents THEN s.v ELSE asked_parent)
  PROVE  PtyInv'
<1>1. /\ signal_pipe \in Seq(PipeBytes) /\ s \in PipeMessages /\ SignalSize[s] \in Nat \ {0}
      /\ SignalSize \in [PtySignals -> Nat \ {0}]
  BY SignalKinds, SizesAre DEF PtyInv, Whole
<1>2. Whole(signal_pipe', PtySignals, SignalSize)
  BY <1>1, WrittenIsWhole DEF PtyInv
<1>3. LastAsked(signal_pipe', RealResizes, _resize', asked_resize')
  BY <1>1, AskedMore DEF PtyInv
<1>4. LastAsked(signal_pipe', Clears, _clear', asked_clear')
  BY <1>1, AskedMore DEF PtyInv
<1>5. LastAsked(signal_pipe', Parents, parent', asked_parent')
  BY <1>1, AskedMore DEF PtyInv
<1>6. QED
  BY <1>2, <1>3, <1>4, <1>5 DEF PtyInv

LEMMA CallsStep ==
  ASSUME SignalPipeAssumption, PtyInv,
         \/ ConptyResizePseudoConsole \/ ConptyClearPseudoConsole \/ ConptyShowHidePseudoConsole
         \/ ConptyReparentPseudoConsole
  PROVE  PtyInv'
<1>1. CASE ConptyResizePseudoConsole
  <2>1. PICK v \in Coordinates :
          /\ Write([id |-> "ResizeWindow", v |-> v], 6)
          /\ asked_resize' = IF v > 0 THEN v ELSE asked_resize
          /\ UNCHANGED <<asked_clear, asked_parent>>
    BY <1>1 DEF ConptyResizePseudoConsole
  <2>2. PICK s \in PtySignals : s = [id |-> "ResizeWindow", v |-> v] /\ s \in Resizes
    BY DEF PtySignals, Resizes
  <2>3. s.id = "ResizeWindow" /\ s.v = v
    BY <2>2
  <2>4. SignalSize[s] = 6 /\ s \notin Clears /\ s \notin Parents /\ (s \in RealResizes <=> v > 0)
    BY <2>3, SignalKinds DEF payload_size_for
  <2>5. QED
    BY <2>1, <2>2, <2>3, <2>4, SignalWritten DEF Write
<1>2. CASE ConptyClearPseudoConsole
  <2>1. PICK v \in {"row", "all"} :
          /\ Write([id |-> "ClearBuffer", v |-> v], 4) /\ asked_clear' = v
          /\ UNCHANGED <<asked_resize, asked_parent>>
    BY <1>2 DEF ConptyClearPseudoConsole
  <2>2. PICK s \in PtySignals : s = [id |-> "ClearBuffer", v |-> v]
    BY DEF PtySignals, Clears
  <2>3. s.id = "ClearBuffer" /\ s.v = v
    BY <2>2
  <2>4. SignalSize[s] = 4 /\ s \in Clears /\ s \notin Parents /\ s \notin RealResizes
    BY <2>3, SignalKinds DEF payload_size_for
  <2>5. QED
    BY <2>1, <2>2, <2>3, <2>4, SignalWritten DEF Write
<1>3. CASE ConptyShowHidePseudoConsole
  <2>1. PICK s \in PtySignals : s = [id |-> "ShowHideWindow", v |-> NoValue]
    BY DEF PtySignals
  <2>2. s.id = "ShowHideWindow"
    BY <2>1
  <2>3. SignalSize[s] = 4 /\ s \notin Clears /\ s \notin Parents /\ s \notin RealResizes
    BY <2>2, SignalKinds DEF payload_size_for
  <2>4. QED
    BY <1>3, <2>1, <2>3, SignalWritten DEF Write, ConptyShowHidePseudoConsole
<1>4. CASE ConptyReparentPseudoConsole
  <2>1. PICK v \in Windows :
          /\ Write([id |-> "SetParent", v |-> v], 10) /\ asked_parent' = v
          /\ UNCHANGED <<asked_resize, asked_clear>>
    BY <1>4 DEF ConptyReparentPseudoConsole
  <2>2. PICK s \in PtySignals : s = [id |-> "SetParent", v |-> v]
    BY DEF PtySignals, Parents
  <2>3. s.id = "SetParent" /\ s.v = v
    BY <2>2
  <2>4. SignalSize[s] = 10 /\ s \in Parents /\ s \notin Clears /\ s \notin RealResizes
    BY <2>3, SignalKinds DEF payload_size_for
  <2>5. QED
    BY <2>1, <2>2, <2>3, <2>4, SignalWritten DEF Write
<1>5. QED
  BY <1>1, <1>2, <1>3, <1>4

\* A turn of poll takes one whole message.
LEMMA PollStep ==
  ASSUME SignalPipeAssumption, PtyInv, PollMessage
  PROVE  PtyInv'
<1>1. /\ signal_pipe \in Seq(PipeBytes) /\ signal_pipe # <<>> /\ reader # "failed"
      /\ Whole(signal_pipe, PtySignals, SignalSize) /\ SignalSize \in [PtySignals -> Nat \ {0}]
  BY SizesAre DEF PtyInv, Whole, PollMessage
<1>2. PICK s \in PtySignals : s = signal_pipe[1].m /\ s = Head(signal_pipe).m
  BY <1>1, FirstIsWhole
<1>3. PICK n \in 1..Len(signal_pipe) :
        /\ n = SignalSize[s] /\ n = 2 + payload_size_for(s.id)
        /\ \A k \in 1..n : signal_pipe[k].m = s
  <2>1. /\ SignalSize[s] \in Nat \ {0} /\ SignalSize[s] <= Len(signal_pipe)
        /\ \A k \in 1..SignalSize[s] : signal_pipe[k] = ByteOf(s, k)
    BY <1>1, <1>2, FirstIsWhole
  <2>2. SignalSize[s] \in 1..Len(signal_pipe)
    BY <2>1
  <2>3. ASSUME NEW k \in 1..SignalSize[s] PROVE signal_pipe[k].m = s
    <3>1. signal_pipe[k] = ByteOf(s, k)
      BY <2>1, Zenon
    <3>2. QED
      BY <3>1 DEF ByteOf
  <2>4. SignalSize[s] = 2 + payload_size_for(s.id)
    BY SignalKinds
  <2>5. QED
    BY <2>2, <2>3, <2>4, Zenon
<1>4. AtStart(signal_pipe) /\ Len(signal_pipe) >= n
  BY <1>1 DEF AtStart, Whole
<1>5. /\ handle_message(s) /\ signal_pipe' = Drop(signal_pipe, n)
      /\ UNCHANGED <<reader, asked_resize, asked_clear, asked_parent>>
  BY <1>2, <1>3, <1>4 DEF PollMessage
<1>6. /\ _resize' = (IF s \in RealResizes THEN s.v ELSE _resize)
      /\ _clear' = (IF s \in Clears THEN s.v ELSE _clear)
      /\ parent' = (IF s \in Parents THEN s.v ELSE parent)
  BY <1>5, SignalKinds DEF handle_message
<1>7. Whole(signal_pipe', PtySignals, SignalSize)
  BY <1>1, <1>2, <1>3, <1>5, RestIsWhole
<1>8. s \in PipeMessages
  BY SignalKinds
<1>9. LastAsked(signal_pipe', RealResizes, _resize', asked_resize')
  BY <1>1, <1>3, <1>5, <1>6, <1>8, AskedArrives DEF PtyInv
<1>10. LastAsked(signal_pipe', Clears, _clear', asked_clear')
  BY <1>1, <1>3, <1>5, <1>6, <1>8, AskedArrives DEF PtyInv
<1>11. LastAsked(signal_pipe', Parents, parent', asked_parent')
  BY <1>1, <1>3, <1>5, <1>6, <1>8, AskedArrives DEF PtyInv
<1>12. QED
  BY <1>1, <1>5, <1>7, <1>9, <1>10, <1>11 DEF PtyInv

LEMMA PollEndsStep ==
  ASSUME PtyInv, PollEnds
  PROVE  PtyInv'
<1>1. Len(signal_pipe) = 0 /\ signal_pipe' = signal_pipe
  BY DEF PollEnds
<1>2. LastAsked(signal_pipe, Parents, parent, asked_parent)
  BY Zenon DEF PtyInv
<1>3. /\ LastAsked(signal_pipe', RealResizes, _resize', asked_resize')
      /\ LastAsked(signal_pipe', Clears, _clear', asked_clear')
  BY <1>1 DEF LastAsked, PollEnds
<1>4. LastAsked(signal_pipe', Parents, parent', asked_parent')
  BY <1>1, <1>2 DEF PollEnds
<1>5. reader' # "failed"
  BY DEF PollEnds, PtyInv
<1>6. Whole(signal_pipe', PtySignals, SignalSize)
  BY <1>1 DEF PtyInv
<1>7. QED
  BY <1>3, <1>4, <1>5, <1>6, Zenon DEF PtyInv

-----------------------------------------------------------------------------
(* Control messages *)

LEMMA PayloadIs ==
  ASSUME NEW code \in {"NotifyConsoleApplication", "SetForeground", "EndTask"}
  PROVE  min_payload_for(code) \in Nat /\ min_payload_for(code) >= 4
BY DEF min_payload_for

LEMMA SendControlStep ==
  ASSUME SignalPipeAssumption, ControlInv, SendControl
  PROVE  ControlInv'
<1>1. PICK code \in {"NotifyConsoleApplication", "SetForeground", "EndTask"}, x \in Extras :
        LET passed == code # "SetForeground"
            m == [code |-> code, dw_size |-> min_payload_for(code) + x,
                  nth |-> IF passed THEN Len(control_sent) + 1 ELSE Len(control_sent)] IN
        /\ control_pipe' = control_pipe \o MessageBytes(m, 1 + m.dw_size)
        /\ control_sent' = IF passed THEN Append(control_sent, m) ELSE control_sent
        /\ UNCHANGED <<control_calls, forwarder>>
  BY Zenon DEF SendControl
<1>2. /\ control_pipe \in Seq(PipeBytes) /\ Len(control_pipe) \in Nat
      /\ control_sent \in Seq(ControlMessages) /\ Len(control_sent) \in Nat
      /\ control_calls \in Seq(ControlMessages) /\ Len(control_calls) \in Nat
      /\ Len(control_calls) <= Len(control_sent)
      /\ ControlSize \in [ControlMessages -> Nat \ {0}]
  BY SizesAre DEF ControlInv, PassedOn, Whole
<1>3. PICK c \in ControlMessages :
        /\ control_pipe' = control_pipe \o MessageBytes(c, 1 + c.dw_size)
        /\ control_sent' = IF c.code # "SetForeground" THEN Append(control_sent, c)
                           ELSE control_sent
        /\ c.nth = IF c.code # "SetForeground" THEN Len(control_sent) + 1 ELSE Len(control_sent)
        /\ min_payload_for(c.code) <= c.dw_size
  <2> DEFINE m == [code |-> code, dw_size |-> min_payload_for(code) + x,
                   nth |-> IF code # "SetForeground" THEN Len(control_sent) + 1
                           ELSE Len(control_sent)]
  <2>1. min_payload_for(code) \in Nat /\ x \in Nat
    BY PayloadIs DEF SignalPipeAssumption
  <2>2. m \in ControlMessages /\ m.code = code /\ m.dw_size = min_payload_for(code) + x
    BY <1>2, <2>1 DEF ControlMessages
  <2>3. min_payload_for(m.code) <= m.dw_size
    BY <2>1, <2>2
  <2>4. m.nth = IF m.code # "SetForeground" THEN Len(control_sent) + 1 ELSE Len(control_sent)
    BY <2>2
  <2>5. /\ control_pipe' = control_pipe \o MessageBytes(m, 1 + m.dw_size)
        /\ control_sent' = IF m.code # "SetForeground" THEN Append(control_sent, m)
                           ELSE control_sent
    BY <1>1, <2>2, Zenon
  <2> HIDE DEF m
  <2>6. QED
    BY <2>2, <2>3, <2>4, <2>5, Zenon
<1>4. PICK n \in Nat \ {0} : n = ControlSize[c] /\ n = 1 + c.dw_size
  <2>1. ControlSize[c] = 1 + c.dw_size
    BY DEF ControlSize
  <2>2. QED
    BY <1>2, <2>1
<1>5. c \in PipeMessages
  BY DEF PipeMessages
<1>6. Whole(control_pipe', ControlMessages, ControlSize)
  <2>1. Whole(control_pipe \o MessageBytes(c, ControlSize[c]), ControlMessages, ControlSize)
    BY <1>2, <1>5, WrittenIsWhole DEF ControlInv
  <2>2. QED
    BY <1>3, <1>4, <2>1
<1>7. PICK w \in Seq(PipeBytes) :
        /\ w = control_pipe' /\ Len(w) = Len(control_pipe) + n /\ w # <<>>
        /\ \A j \in 1..Len(control_pipe) : w[j] = control_pipe[j]
        /\ \A i \in 1..n : w[Len(control_pipe) + i] = ByteOf(c, i)
  <2>1. \E w \in Seq(PipeBytes) :
          /\ w = control_pipe \o MessageBytes(c, n) /\ Len(w) = Len(control_pipe) + n
          /\ w # <<>> /\ \A j \in 1..Len(control_pipe) : w[j] = control_pipe[j]
          /\ \A i \in 1..n : w[Len(control_pipe) + i] = ByteOf(c, i)
    BY <1>2, <1>5, PipeWritten
  <2>2. control_pipe' = control_pipe \o MessageBytes(c, n)
    BY <1>3, <1>4
  <2>3. QED
    BY <2>1, <2>2
<1>8. ASSUME NEW i \in 1..n
      PROVE  w[Len(control_pipe) + i].m = c /\ w[Len(control_pipe) + i].i = i
  <2>1. w[Len(control_pipe) + i] = ByteOf(c, i)
    BY <1>7, Zenon
  <2>2. QED
    BY <2>1 DEF ByteOf
<1>9. ASSUME NEW j \in 1..Len(w), j \notin 1..Len(control_pipe)
      PROVE  w[j].m = c /\ (j < Len(w) => w[j].i # n)
  <2>1. Len(w) = Len(control_pipe) + n
    BY <1>7, Zenon
  <2>2. Len(control_pipe) \in Nat
    BY <1>2, Zenon
  <2>3. /\ j - Len(control_pipe) \in 1..n /\ Len(control_pipe) + (j - Len(control_pipe)) = j
        /\ (j < Len(w) => j - Len(control_pipe) # n)
    BY <1>9, <2>1, <2>2
  <2>4. w[j].m = c /\ w[j].i = j - Len(control_pipe)
    BY <1>8, <2>3, Zenon
  <2>5. QED
    BY <2>3, <2>4, Zenon
<1>10. /\ control_sent' \in Seq(ControlMessages) /\ c.nth = Len(control_sent')
       /\ Len(control_sent) <= Len(control_sent')
       /\ \A k \in 1..Len(control_sent) : control_sent'[k] = control_sent[k]
       /\ c.code # "SetForeground" =>
            c.nth \in 1..Len(control_sent') /\ control_sent'[c.nth] = c
  <2>1. CASE c.code # "SetForeground"
    <3>1. /\ control_sent' = Append(control_sent, c) /\ c.nth = Len(control_sent) + 1
          /\ control_sent \in Seq(ControlMessages)
      BY <1>2, <1>3, <2>1, Zenon
    <3>2. /\ control_sent' \in Seq(ControlMessages)
          /\ Len(control_sent') = Len(control_sent) + 1
          /\ \A k \in 1..Len(control_sent) : control_sent'[k] = control_sent[k]
          /\ control_sent'[Len(control_sent) + 1] = c
      BY <3>1, AppendProperties
    <3>3. QED
      BY <1>2, <3>1, <3>2
  <2>2. CASE c.code = "SetForeground"
    BY <1>2, <1>3, <2>2
  <2>3. QED
    BY <2>1, <2>2
<1>11. ToBePassedOn'
  <2>1. ASSUME NEW j \in 1..Len(w)
        PROVE  /\ min_payload_for(w[j].m.code) <= w[j].m.dw_size
               /\ w[j].m.code # "SetForeground" =>
                    /\ w[j].m.nth \in 1..Len(control_sent')
                    /\ control_sent'[w[j].m.nth] = w[j].m
    <3>1. CASE j \in 1..Len(control_pipe)
      <4>1. w[j] = control_pipe[j]
        BY <1>7, <3>1
      <4>2. /\ min_payload_for(control_pipe[j].m.code) <= control_pipe[j].m.dw_size
            /\ control_pipe[j].m.code # "SetForeground" =>
                 /\ control_pipe[j].m.nth \in 1..Len(control_sent)
                 /\ control_sent[control_pipe[j].m.nth] = control_pipe[j].m
        BY <3>1, Zenon DEF ControlInv, ToBePassedOn
      <4>3. \A k \in 1..Len(control_sent) : k \in 1..Len(control_sent')
        BY <1>2, <1>10
      <4>4. QED
        BY <1>10, <4>1, <4>2, <4>3, Zenon
    <3>2. CASE j \notin 1..Len(control_pipe)
      <4>1. w[j].m = c
        BY <1>9, <3>2
      <4>2. QED
        BY <1>3, <1>10, <4>1, Zenon
    <3>3. QED
      BY <3>1, <3>2
  <2>2. QED
    BY <1>7, <2>1, Zenon DEF ToBePassedOn
<1>12. PassedOn'
  <2>1. \A k \in 1..Len(control_calls) : control_calls[k] = control_sent[k]
    BY Zenon DEF ControlInv, PassedOn
  <2>2. \A k \in 1..Len(control_calls) : k \in 1..Len(control_sent)
    BY <1>2
  <2>3. \A k \in 1..Len(control_calls) : control_calls[k] = control_sent'[k]
    BY <1>10, <2>1, <2>2, Zenon
  <2>4. Len(control_calls) <= Len(control_sent')
    BY <1>2, <1>10
  <2>5. control_calls' = control_calls
    BY <1>1
  <2>6. QED
    BY <1>2, <1>10, <2>3, <2>4, <2>5, Zenon DEF PassedOn
<1>13. Comes(c, Len(control_sent))
  BY <1>3 DEF Comes
<1>14. Comes(w[1].m, Len(control_calls))
  <2>1. CASE control_pipe = <<>>
    <3>1. Len(control_calls) = Len(control_sent)
      BY <2>1, Zenon DEF ControlInv, InTurn
    <3>2. 1 \in 1..Len(w) /\ 1 \notin 1..Len(control_pipe)
      BY <1>7, <2>1
    <3>3. w[1].m = c
      BY <1>9, <3>2
    <3>4. QED
      BY <1>13, <3>1, <3>3
  <2>2. CASE control_pipe # <<>>
    <3>1. Comes(control_pipe[1].m, Len(control_calls))
      BY <2>2, Zenon DEF ControlInv, InTurn
    <3>2. 1 \in 1..Len(control_pipe)
      BY <1>2, <2>2
    <3>3. QED
      BY <1>7, <3>1, <3>2
  <2>3. QED
    BY <2>1, <2>2
<1>15. ASSUME NEW j \in 1..Len(w), w[j].i = ControlSize[w[j].m], j < Len(w)
       PROVE  Comes(w[j + 1].m, w[j].m.nth)
  <2>1. j \in 1..Len(control_pipe)
    BY <1>4, <1>9, <1>15
  <2>2. w[j] = control_pipe[j]
    BY <1>7, <2>1
  <2>3. CASE j < Len(control_pipe)
    <3>1. Comes(control_pipe[j + 1].m, control_pipe[j].m.nth)
      BY <1>15, <2>1, <2>2, <2>3, Zenon DEF ControlInv, InTurn
    <3>2. j + 1 \in 1..Len(control_pipe)
      BY <1>2, <2>1, <2>3
    <3>3. w[j + 1] = control_pipe[j + 1]
      BY <1>7, <3>2, Zenon
    <3>4. QED
      BY <2>2, <3>1, <3>3, Zenon
  <2>4. CASE j = Len(control_pipe)
    <3>1. control_pipe # <<>>
      BY <1>2, <2>1
    <3>2. control_pipe[j].m.nth = Len(control_sent)
      BY <2>4, <3>1, Zenon DEF ControlInv, InTurn
    <3>3. j + 1 \in 1..Len(w) /\ j + 1 \notin 1..Len(control_pipe)
      BY <1>2, <1>7, <2>4
    <3>4. w[j + 1].m = c
      BY <1>9, <3>3
    <3>5. QED
      BY <1>13, <2>2, <3>2, <3>4, Zenon
  <2>5. QED
    BY <1>2, <2>1, <2>3, <2>4
<1>16. w[Len(w)].m.nth = Len(control_sent')
  <2>1. Len(w) \in 1..Len(w) /\ Len(w) \notin 1..Len(control_pipe)
    BY <1>2, <1>7
  <2>2. w[Len(w)].m = c
    BY <1>9, <2>1
  <2>3. QED
    BY <1>10, <2>2
<1>17. InTurn'
  <2>1. control_calls' = control_calls
    BY <1>1
  <2>2. QED
    BY <1>7, <1>14, <1>15, <1>16, <2>1, Zenon DEF InTurn
<1>18. QED
  BY <1>1, <1>6, <1>11, <1>12, <1>17, Zenon DEF ControlInv

\* Forward takes one whole message.
LEMMA ForwardStep ==
  ASSUME SignalPipeAssumption, ControlInv, Forward
  PROVE  ControlInv'
<1>1. /\ control_pipe \in Seq(PipeBytes) /\ control_pipe # <<>> /\ Len(control_pipe) \in Nat
      /\ control_sent \in Seq(ControlMessages) /\ Len(control_sent) \in Nat
      /\ control_calls \in Seq(ControlMessages) /\ Len(control_calls) \in Nat
      /\ ControlSize \in [ControlMessages -> Nat \ {0}]
      /\ Whole(control_pipe, ControlMessages, ControlSize)
  BY SizesAre DEF ControlInv, PassedOn, Whole, Forward
<1>2. 1 \in 1..Len(control_pipe) /\ Len(control_pipe) \in 1..Len(control_pipe)
  BY <1>1
<1>3. PICK c \in ControlMessages : c = control_pipe[1].m /\ c = Head(control_pipe).m
  BY <1>1, FirstIsWhole
<1>4. PICK n \in 1..Len(control_pipe) :
        /\ n = ControlSize[c] /\ n = 1 + c.dw_size
        /\ \A k \in 1..n : control_pipe[k] = ByteOf(c, k)
  <2>1. /\ ControlSize[c] \in Nat \ {0} /\ ControlSize[c] <= Len(control_pipe)
        /\ \A k \in 1..ControlSize[c] : control_pipe[k] = ByteOf(c, k)
    <3>1. /\ Whole(control_pipe, ControlMessages, ControlSize) /\ control_pipe # <<>>
          /\ ControlSize \in [ControlMessages -> Nat \ {0}]
      BY <1>1, Zenon
    <3>2. /\ ControlSize[control_pipe[1].m] \in Nat \ {0}
          /\ ControlSize[control_pipe[1].m] <= Len(control_pipe)
          /\ \A k \in 1..ControlSize[control_pipe[1].m] :
               control_pipe[k] = ByteOf(control_pipe[1].m, k)
      BY <3>1, FirstIsWhole
    <3>3. QED
      BY <1>3, <3>2, Zenon
  <2>2. ControlSize[c] \in 1..Len(control_pipe)
    BY <1>1, <2>1
  <2>3. ControlSize[c] = 1 + c.dw_size
    BY DEF ControlSize
  <2>4. QED
    BY <2>1, <2>2, <2>3, Zenon
<1>5. /\ min_payload_for(c.code) <= c.dw_size
      /\ c.code # "SetForeground" =>
           c.nth \in 1..Len(control_sent) /\ control_sent[c.nth] = c
  BY <1>2, <1>3, Zenon DEF ControlInv, ToBePassedOn
<1>6. c.nth = IF c.code = "SetForeground" THEN Len(control_calls) ELSE Len(control_calls) + 1
  BY <1>1, <1>3 DEF ControlInv, InTurn, Comes
<1>7. n = 1 + 4 + (min_payload_for(c.code) - 4) + (c.dw_size - min_payload_for(c.code))
  <2>1. c.dw_size \in Nat /\ min_payload_for(c.code) \in Nat
    BY PayloadIs DEF ControlMessages
  <2>2. QED
    BY <1>4, <2>1
<1>8. AtStart(control_pipe) /\ Len(control_pipe) >= n
  BY <1>1 DEF AtStart, Whole
<1>9. /\ control_pipe' = Drop(control_pipe, n) /\ forwarder' = forwarder
      /\ control_calls' = IF c.code = "SetForeground" THEN control_calls
                          ELSE Append(control_calls, c)
      /\ control_sent' = control_sent
  <2>1. LET m == Head(control_pipe).m
            body_len == min_payload_for(m.code) - 4
            extra == m.dw_size - min_payload_for(m.code)
            k == 1 + 4 + body_len + extra
        IN IF AtStart(control_pipe) /\ Len(control_pipe) >= k
           THEN /\ control_pipe' = Drop(control_pipe, k)
                /\ control_calls' = IF m.code = "SetForeground" THEN control_calls
                                    ELSE Append(control_calls, m)
                /\ UNCHANGED forwarder
           ELSE forwarder' = "failed" /\ UNCHANGED <<control_pipe, control_calls>>
    BY Zenon DEF Forward
  <2>2. /\ control_pipe' = Drop(control_pipe, n) /\ UNCHANGED forwarder
        /\ control_calls' = IF c.code = "SetForeground" THEN control_calls
                            ELSE Append(control_calls, c)
    BY <1>3, <1>7, <1>8, <2>1, Zenon
  <2>3. QED
    BY <2>2, Zenon DEF Forward
<1>10. Whole(control_pipe', ControlMessages, ControlSize)
  <2>1. Whole(Drop(control_pipe, ControlSize[control_pipe[1].m]), ControlMessages, ControlSize)
    BY <1>1, RestIsWhole
  <2>2. QED
    BY <1>3, <1>4, <1>9, <2>1
<1>11. PICK rest \in Seq(PipeBytes) :
         /\ rest = control_pipe' /\ Len(rest) = Len(control_pipe) - n
         /\ \A j \in 1..(Len(control_pipe) - n) : rest[j] = control_pipe[n + j]
  <2>1. n \in 0..Len(control_pipe)
    BY <1>1
  <2>2. /\ Drop(control_pipe, n) \in Seq(PipeBytes)
        /\ Len(Drop(control_pipe, n)) = Len(control_pipe) - n
        /\ \A j \in 1..(Len(control_pipe) - n) : Drop(control_pipe, n)[j] = control_pipe[n + j]
    BY <1>1, <2>1, RestIs
  <2>3. QED
    BY <1>9, <2>2
<1>12. Len(rest) = Len(control_pipe) - n /\ Len(rest) \in Nat
  <2>1. Len(rest) = Len(control_pipe) - n
    BY <1>11, Zenon
  <2>2. QED
    BY <2>1
<1>13. ASSUME NEW j \in 1..Len(rest)
       PROVE  n + j \in 1..Len(control_pipe) /\ rest[j] = control_pipe[n + j]
  <2>1. n + j \in 1..Len(control_pipe) /\ j \in 1..(Len(control_pipe) - n)
    BY <1>1, <1>12
  <2>2. QED
    BY <1>11, <2>1, Zenon
<1>14. control_pipe[n].m = c /\ control_pipe[n].i = n
  <2>1. n \in 1..n
    OBVIOUS
  <2>2. control_pipe[n] = ByteOf(c, n)
    BY <1>4, <2>1, Zenon
  <2>3. QED
    BY <2>2 DEF ByteOf
<1>15. /\ control_calls' \in Seq(ControlMessages) /\ c.nth = Len(control_calls')
       /\ Len(control_calls') <= Len(control_sent)
       /\ \A k \in 1..Len(control_calls') : control_calls'[k] = control_sent[k]
  <2>1. /\ Len(control_calls) <= Len(control_sent)
        /\ \A k \in 1..Len(control_calls) : control_calls[k] = control_sent[k]
    BY Zenon DEF ControlInv, PassedOn
  <2>2. CASE c.code # "SetForeground"
    <3>1. control_calls' = Append(control_calls, c) /\ control_calls \in Seq(ControlMessages)
      BY <1>1, <1>9, <2>2, Zenon
    <3>2. /\ control_calls' \in Seq(ControlMessages)
          /\ Len(control_calls') = Len(control_calls) + 1
          /\ \A k \in 1..Len(control_calls) : control_calls'[k] = control_calls[k]
          /\ control_calls'[Len(control_calls) + 1] = c
      BY <3>1, AppendProperties
    <3>3. c.nth = Len(control_calls) + 1 /\ c.nth \in 1..Len(control_sent)
      BY <1>5, <1>6, <2>2, Zenon
    <3>4. control_sent[Len(control_calls) + 1] = c
      BY <1>5, <2>2, <3>3, Zenon
    <3>5. ASSUME NEW k \in 1..(Len(control_calls) + 1)
          PROVE  control_calls'[k] = control_sent[k]
      <4>1. Len(control_calls) \in Nat
        BY <1>1, Zenon
      <4>2. k \in 1..Len(control_calls) \/ k = Len(control_calls) + 1
        BY <4>1
      <4>3. QED
        BY <2>1, <3>2, <3>4, <4>2, Zenon
    <3>6. Len(control_calls) + 1 <= Len(control_sent)
      BY <1>1, <3>3
    <3>7. QED
      BY <3>2, <3>3, <3>5, <3>6, Zenon
  <2>3. CASE c.code = "SetForeground"
    BY <1>1, <1>6, <1>9, <2>1, <2>3, Zenon
  <2>4. QED
    BY <2>2, <2>3
<1>16. PassedOn'
  BY <1>1, <1>9, <1>15, Zenon DEF PassedOn
<1>17. ToBePassedOn'
  <2>1. ASSUME NEW j \in 1..Len(rest)
        PROVE  /\ min_payload_for(rest[j].m.code) <= rest[j].m.dw_size
               /\ rest[j].m.code # "SetForeground" =>
                    /\ rest[j].m.nth \in 1..Len(control_sent)
                    /\ control_sent[rest[j].m.nth] = rest[j].m
    <3>1. n + j \in 1..Len(control_pipe) /\ rest[j] = control_pipe[n + j]
      BY <1>13
    <3>2. /\ min_payload_for(control_pipe[n + j].m.code) <= control_pipe[n + j].m.dw_size
          /\ control_pipe[n + j].m.code # "SetForeground" =>
               /\ control_pipe[n + j].m.nth \in 1..Len(control_sent)
               /\ control_sent[control_pipe[n + j].m.nth] = control_pipe[n + j].m
      BY <3>1, Zenon DEF ControlInv, ToBePassedOn
    <3>3. QED
      BY <3>1, <3>2, Zenon
  <2>2. QED
    BY <1>9, <1>11, <2>1, Zenon DEF ToBePassedOn
<1>18. ASSUME rest # <<>> PROVE Comes(rest[1].m, c.nth)
  <2>1. Len(rest) # 0
    BY <1>18
  <2>2. 1 \in 1..Len(rest) /\ n < Len(control_pipe)
    BY <1>1, <1>12, <2>1
  <2>3. Comes(control_pipe[n + 1].m, control_pipe[n].m.nth)
    BY <1>4, <1>14, <2>2, Zenon DEF ControlInv, InTurn
  <2>4. QED
    BY <1>13, <1>14, <2>2, <2>3, Zenon
<1>19. ASSUME NEW j \in 1..Len(rest), rest[j].i = ControlSize[rest[j].m], j < Len(rest)
       PROVE  Comes(rest[j + 1].m, rest[j].m.nth)
  <2>1. n + j \in 1..Len(control_pipe) /\ rest[j] = control_pipe[n + j]
    BY <1>13
  <2>2. /\ j + 1 \in 1..Len(rest) /\ n + j < Len(control_pipe) /\ n + (j + 1) = (n + j) + 1
    <3>1. Len(control_pipe) \in Nat /\ j < Len(rest)
      BY <1>1, <1>19, Zenon
    <3>2. QED
      BY <1>12, <3>1
  <2>3. rest[j + 1] = control_pipe[(n + j) + 1]
    <3>1. rest[j + 1] = control_pipe[n + (j + 1)]
      BY <1>13, <2>2, Zenon
    <3>2. QED
      BY <2>2, <3>1
  <2>4. Comes(control_pipe[(n + j) + 1].m, control_pipe[n + j].m.nth)
    BY <1>19, <2>1, <2>2, Zenon DEF ControlInv, InTurn
  <2>5. QED
    BY <2>1, <2>3, <2>4, Zenon
<1>20. control_pipe[Len(control_pipe)].m.nth = Len(control_sent)
  BY <1>1, Zenon DEF ControlInv, InTurn
<1>21. ASSUME rest # <<>> PROVE rest[Len(rest)].m.nth = Len(control_sent)
  <2>1. Len(rest) # 0
    BY <1>21
  <2>2. Len(rest) \in 1..Len(rest) /\ n + Len(rest) = Len(control_pipe)
    BY <1>1, <1>12, <2>1
  <2>3. rest[Len(rest)] = control_pipe[Len(control_pipe)]
    BY <1>13, <2>2, Zenon
  <2>4. QED
    BY <1>20, <2>3
<1>22. ASSUME rest = <<>> PROVE c.nth = Len(control_sent)
  <2>1. Len(rest) = 0
    BY <1>22
  <2>2. n = Len(control_pipe)
    BY <1>1, <1>12, <2>1
  <2>3. QED
    BY <1>14, <1>20, <2>2, Zenon
<1>23. InTurn'
  BY <1>9, <1>11, <1>15, <1>18, <1>19, <1>21, <1>22, Zenon DEF InTurn
<1>24. QED
  BY <1>9, <1>10, <1>16, <1>17, <1>23, Zenon DEF ControlInv

-----------------------------------------------------------------------------
(* The theorem *)

LEMMA SignalInitInv ==
  ASSUME SignalInit
  PROVE  SignalInv
<1>1. /\ signal_pipe = <<>> /\ control_pipe = <<>> /\ control_sent = <<>> /\ control_calls = <<>>
      /\ reader # "failed" /\ forwarder # "failed"
      /\ _resize = asked_resize /\ _clear = asked_clear /\ parent = asked_parent
  BY DEF SignalInit
<1>2. Len(signal_pipe) = 0 /\ Len(control_pipe) = 0 /\ Len(control_sent) = 0
  BY <1>1
<1>3. /\ signal_pipe \in Seq(PipeBytes) /\ control_pipe \in Seq(PipeBytes)
      /\ control_sent \in Seq(ControlMessages) /\ control_calls \in Seq(ControlMessages)
  BY <1>1
<1>4. \A j \in 1..0 : FALSE
  OBVIOUS
<1>5. PtyInv
  BY <1>1, <1>2, <1>3, <1>4, Zenon DEF PtyInv, Whole, LastAsked
<1>6. ControlInv
  <2>1. Whole(control_pipe, ControlMessages, ControlSize)
    BY <1>1, <1>2, <1>3, <1>4, Zenon DEF Whole
  <2>2. ToBePassedOn
    BY <1>2, <1>4, Zenon DEF ToBePassedOn
  <2>3. PassedOn
    <3>1. Len(control_calls) = 0 /\ Len(control_sent) = 0
      BY <1>1
    <3>2. QED
      BY <1>3, <3>1 DEF PassedOn
  <2>4. InTurn
    BY <1>1, <1>2, <1>4, Zenon DEF InTurn
  <2>5. QED
    BY <1>1, <2>1, <2>2, <2>3, <2>4, Zenon DEF ControlInv
<1>7. QED
  BY <1>5, <1>6 DEF SignalInv

\* An action on one pipe leaves the other as it is.
LEMMA PtyFrame ==
  ASSUME PtyInv,
         UNCHANGED <<signal_pipe, _resize, _clear, parent, asked_resize, asked_clear,
                     asked_parent, reader>>
  PROVE  PtyInv'
BY DEF PtyInv

LEMMA ControlFrame ==
  ASSUME ControlInv, UNCHANGED control_vars
  PROVE  ControlInv'
<1>1. /\ control_pipe' = control_pipe /\ control_sent' = control_sent
      /\ control_calls' = control_calls /\ forwarder' = forwarder
  BY DEF control_vars
<1>2. ToBePassedOn'
  BY <1>1 DEF ControlInv, ToBePassedOn
<1>3. PassedOn'
  BY <1>1 DEF ControlInv, PassedOn
<1>4. InTurn'
  BY <1>1 DEF ControlInv, InTurn
<1>5. QED
  BY <1>1, <1>2, <1>3, <1>4 DEF ControlInv

LEMMA SignalStep ==
  ASSUME SignalPipeAssumption, SignalInv, [SignalNext]_signal_vars
  PROVE  SignalInv'
<1>1. PtyInv /\ ControlInv
  BY DEF SignalInv
<1>2. CASE \/ ConptyResizePseudoConsole \/ ConptyClearPseudoConsole
           \/ ConptyShowHidePseudoConsole \/ ConptyReparentPseudoConsole
  <2>1. UNCHANGED control_vars
    BY <1>2 DEF ConptyResizePseudoConsole, ConptyClearPseudoConsole,
      ConptyShowHidePseudoConsole, ConptyReparentPseudoConsole, Write
  <2>2. QED
    BY <1>1, <1>2, <2>1, CallsStep, ControlFrame DEF SignalInv
<1>3. CASE ConptyClosePseudoConsole \/ PollBegins
  <2>1. UNCHANGED control_vars
    BY <1>3 DEF ConptyClosePseudoConsole, PollBegins
  <2>2. UNCHANGED <<signal_pipe, _resize, _clear, parent, asked_resize, asked_clear,
                    asked_parent, reader>>
    BY <1>3 DEF ConptyClosePseudoConsole, PollBegins
  <2>3. QED
    BY <1>1, <2>1, <2>2, PtyFrame, ControlFrame DEF SignalInv
<1>4. CASE PollMessage
  <2>1. UNCHANGED control_vars
    BY <1>4 DEF PollMessage
  <2>2. QED
    BY <1>1, <1>4, <2>1, PollStep, ControlFrame DEF SignalInv
<1>5. CASE PollEnds
  <2>1. UNCHANGED control_vars
    BY <1>5 DEF PollEnds
  <2>2. QED
    BY <1>1, <1>5, <2>1, PollEndsStep, ControlFrame DEF SignalInv
<1>6. CASE SendControl \/ Forward
  <2>1. UNCHANGED pty_vars
    BY <1>6 DEF SendControl, Forward
  <2>2. PtyInv'
    BY <1>1, <2>1, PtyFrame DEF pty_vars
  <2>3. QED
    BY <1>1, <1>6, <2>2, SendControlStep, ForwardStep DEF SignalInv
<1>7. CASE UNCHANGED signal_vars
  BY <1>1, <1>7, PtyFrame, ControlFrame DEF SignalInv, signal_vars, pty_vars
<1>8. QED
  BY <1>2, <1>3, <1>4, <1>5, <1>6, <1>7 DEF SignalNext

LEMMA SignalInvShows ==
  ASSUME SignalInv
  PROVE  SignalsInStep
<1>1. PtyInv /\ ControlInv
  BY DEF SignalInv
<1>2. ASSUME signal_pipe = <<>>
      PROVE  _resize = asked_resize /\ _clear = asked_clear /\ parent = asked_parent
  <2>1. Len(signal_pipe) = 0
    BY <1>2
  <2>2. \A j \in 1..0 : FALSE
    OBVIOUS
  <2>3. QED
    BY <1>1, <2>1, <2>2, Zenon DEF PtyInv, LastAsked
<1>3. ASSUME control_pipe = <<>> PROVE control_calls = control_sent
  <2>1. /\ control_calls \in Seq(ControlMessages) /\ control_sent \in Seq(ControlMessages)
        /\ \A k \in 1..Len(control_calls) : control_calls[k] = control_sent[k]
        /\ Len(control_calls) = Len(control_sent)
    BY <1>1, <1>3, Zenon DEF ControlInv, PassedOn, InTurn
  <2>2. QED
    BY <2>1, SeqEqual
<1>4. QED
  BY <1>1, <1>2, <1>3, Zenon DEF SignalsInStep, PtyInv, ControlInv

\* Whatever signals and control messages follow each other, and however the writing and the
\* polling interleave, both readers stay at the start of a message: after the poll the newest
\* of each signal has arrived, and control messages went on once and in order.
THEOREM SignalsArriveInStep == SignalPipeAssumption => (SignalSpec => []SignalsInStep)
<1> SUFFICES ASSUME SignalPipeAssumption PROVE SignalSpec => []SignalsInStep
  OBVIOUS
<1>1. SignalInit => SignalInv
  BY SignalInitInv
<1>2. SignalInv /\ [SignalNext]_signal_vars => SignalInv'
  BY SignalStep
<1>3. SignalInv => SignalsInStep
  BY SignalInvShows
<1>4. QED
  BY <1>1, <1>2, <1>3, PTL DEF SignalSpec
=============================================================================
