------------------------------ MODULE Objects ------------------------------
(***************************************************************************)
(* io_state: the processes on the console and the objects opened on it,    *)
(* with the copy of the process list that pipe_bridge keeps for the API    *)
(* and for Ctrl+C.  Windows gives a closed object's handle value to the    *)
(* next one.                                                               *)
(***************************************************************************)
EXTENDS Naturals, Sequences, FiniteSets, SequencesExt

CONSTANTS Pids, Groups,     \* processes, process groups (positive)
          HandleValues,     \* values Windows gives to handles
          MaxProcesses      \* io_state::max_processes

ObjectsAssumption == 0 \notin HandleValues /\ 0 \notin Groups /\ MaxProcesses \in Nat \ {0}

ObjectKinds == {"input", "output", "alternate_output"}

VARIABLES
  process_list, process_groups,          \* io_state, up to process_count
  snapshot, snapshot_groups,             \* process_list_snapshot of pipe_bridge
  condrv_input, condrv_output,           \* handles of the first connection, 0 before it
  input_id, output_id, alternate_output_id,
  open_objects,                          \* set of [id, kind]
  attached,                              \* external: function from attached processes to groups
  unlisted,                              \* history: attached without a place on the list
  groupless,                             \* history: attached and listed with group 0
  opened,                                \* external: function from open handles to their kind
  signalled                              \* external: who got the last control event

list_vars == <<process_list, process_groups, snapshot, snapshot_groups, attached, unlisted,
               groupless>>
object_vars == <<condrv_input, condrv_output, input_id, output_id, alternate_output_id,
                 open_objects, opened>>
objects_vars == <<list_vars, object_vars, signalled>>

None == [h \in {} |-> "input"]

With(f, x, y) == [z \in DOMAIN f \cup {x} |-> IF z = x THEN y ELSE f[z]]
Without(f, x) == [z \in DOMAIN f \ {x} |-> f[z]]

\* The first CONNECT comes through the loop.
NoClientYet ==
  /\ process_list = <<>> /\ process_groups = <<>>
  /\ attached = [p \in {} |-> 0] /\ unlisted = {} /\ groupless = {}
  /\ condrv_input = 0 /\ condrv_output = 0 /\ opened = None

\* The first CONNECT was accepted before the session: defterm names its client, which is then
\* listed without a group (run_conpty_session); the COM server does not, so that its client
\* is not listed at all (conpty_entry).
ClientBefore ==
  \E p \in Pids, g \in Groups, i \in HandleValues, o \in HandleValues, named \in BOOLEAN :
    /\ process_list = (IF named THEN <<p>> ELSE <<>>)
    /\ process_groups = (IF named THEN <<0>> ELSE <<>>)
    /\ attached = With([q \in {} |-> 0], p, g)
    /\ unlisted = (IF named THEN {} ELSE {p}) /\ groupless = {p} \ unlisted
    /\ i # o /\ condrv_input = i /\ condrv_output = o
    /\ opened = With(With(None, i, "input"), o, "output")

ObjectsInit ==
  /\ NoClientYet \/ ClientBefore
  /\ snapshot = process_list /\ snapshot_groups = process_groups
  /\ input_id = 0 /\ output_id = 0 /\ alternate_output_id = 0 /\ open_objects = {}
  /\ signalled = {}

FreeHandles == HandleValues \ DOMAIN opened

-----------------------------------------------------------------------------
(* Processes                                                               *)

\* add_process: a process is listed once, and not at all when the list is full.
add_process(p, g) ==
  IF Contains(process_list, p) \/ Len(process_list) = MaxProcesses
  THEN UNCHANGED <<process_list, process_groups>>
  ELSE process_list' = Append(process_list, p) /\ process_groups' = Append(process_groups, g)

\* Mutant: the groups are not moved up with the processes.
BugGroupsNotMoved(p) ==
  LET k == SelectInSeq(process_list, LAMBDA q : q = p) IN
  IF k = 0 THEN UNCHANGED <<process_list, process_groups>>
  ELSE /\ process_list' = RemoveAt(process_list, k)
       /\ process_groups' = SubSeq(process_groups, 1, Len(process_groups) - 1)

remove_process(p) ==
  LET k == SelectInSeq(process_list, LAMBDA q : q = p) IN
  IF k = 0 THEN UNCHANGED <<process_list, process_groups>>
  ELSE process_list' = RemoveAt(process_list, k) /\ process_groups' = RemoveAt(process_groups, k)

\* message_router::sync_process_snapshot, process_list_snapshot::assign
sync_process_snapshot == snapshot' = process_list' /\ snapshot_groups' = process_groups'

\* CONNECT: the first one makes the console's own handles, which every later process shares.
\* The group is 0 when it cannot be read from the message (connect_process_group).
handle_connect ==
  \E p \in Pids \ DOMAIN attached, g \in Groups, group_read \in BOOLEAN :
    /\ add_process(p, IF group_read THEN g ELSE 0) /\ sync_process_snapshot
    /\ attached' = With(attached, p, g)
    /\ IF Contains(process_list', p)
       THEN /\ groupless' = IF group_read THEN groupless ELSE groupless \cup {p}
            /\ UNCHANGED unlisted
       ELSE unlisted' = unlisted \cup {p} /\ UNCHANGED groupless
    /\ IF condrv_input # 0 THEN UNCHANGED <<condrv_input, condrv_output, opened>>
       ELSE \E i \in FreeHandles, o \in FreeHandles :
              /\ i # o /\ condrv_input' = i /\ condrv_output' = o
              /\ opened' = With(With(opened, i, "input"), o, "output")
    /\ UNCHANGED <<input_id, output_id, alternate_output_id, open_objects, signalled>>

handle_disconnect ==
  \E p \in DOMAIN attached :
    /\ remove_process(p) /\ sync_process_snapshot
    /\ attached' = Without(attached, p)
    /\ unlisted' = unlisted \ {p} /\ groupless' = groupless \ {p}
    /\ UNCHANGED <<object_vars, signalled>>

\* send_ctrl_event: to every process of the copy, or to those of one group.
send_ctrl_event ==
  \E g \in Groups \cup {0} :
    /\ signalled' = {snapshot[k] : k \in {j \in DOMAIN snapshot : g = 0 \/ snapshot_groups[j] = g}}
    /\ UNCHANGED <<list_vars, object_vars>>

-----------------------------------------------------------------------------
(* Objects                                                                 *)

\* CREATE_OBJECT for the current input or output (named or by the access asked for) or a
\* new screen buffer.
handle_create_object ==
  \E k \in ObjectKinds, id \in FreeHandles :
    /\ condrv_input # 0
    /\ input_id'  = IF k = "input" THEN id ELSE input_id
    /\ output_id' = IF k = "output" THEN id ELSE output_id
    /\ alternate_output_id' = IF k = "alternate_output" THEN id ELSE alternate_output_id
    /\ open_objects' = open_objects \cup {[id |-> id, kind |-> k]}
    /\ opened' = With(opened, id, k)
    /\ UNCHANGED <<condrv_input, condrv_output, list_vars, signalled>>

\* CLOSE_OBJECT: the latest ids forget it, and its handle is closed with its entry.
handle_close_object ==
  \E id \in DOMAIN opened :
    /\ input_id'  = IF id = input_id THEN 0 ELSE input_id
    /\ output_id' = IF id = output_id THEN 0 ELSE output_id
    /\ alternate_output_id' = IF id = alternate_output_id THEN 0 ELSE alternate_output_id
    /\ open_objects' = {o \in open_objects : o.id # id}
    /\ opened' = IF id \in {condrv_input, condrv_output} THEN opened ELSE Without(opened, id)
    /\ UNCHANGED <<condrv_input, condrv_output, list_vars, signalled>>

\* Mutant: only the latest object of each kind is known.
BugLatestOnly(id) ==
  CASE id # 0 /\ id = input_id            -> "input"
    [] id # 0 /\ id = output_id           -> "output"
    [] id # 0 /\ id = alternate_output_id -> "alternate_output"
    [] id # 0 /\ id = condrv_input        -> "input"
    [] id # 0 /\ id = condrv_output       -> "output"
    [] OTHER -> "unknown"

kind_from_object(id) ==
  CASE id # 0 /\ id = input_id            -> "input"
    [] id # 0 /\ id = output_id           -> "output"
    [] id # 0 /\ id = alternate_output_id -> "alternate_output"
    [] \E o \in open_objects : o.id = id  -> (CHOOSE o \in open_objects : o.id = id).kind
    [] id # 0 /\ id = condrv_input        -> "input"
    [] id # 0 /\ id = condrv_output       -> "output"
    [] OTHER -> "unknown"

ObjectsNext == handle_connect \/ handle_disconnect \/ send_ctrl_event \/ handle_create_object
          \/ handle_close_object

ObjectsSpec == ObjectsInit /\ [][ObjectsNext]_objects_vars

-----------------------------------------------------------------------------
(* Properties                                                              *)

\* The copy names the attached processes once and with their own groups, in whatever order
\* they came and went, so that a control event reaches the processes of its group and no
\* other (sync_process_snapshot).  Out of it stay a process that came when the list was full
\* and the client that the COM server handed over; listed with group 0, and reached only by
\* events for all, are the client that defterm attached and a process whose group could not
\* be read.
SnapshotCurrent ==
  /\ ToSet(snapshot) = DOMAIN attached \ unlisted
  /\ Len(snapshot) = Cardinality(ToSet(snapshot))
  /\ \A k \in DOMAIN snapshot :
       snapshot_groups[k] = IF snapshot[k] \in groupless THEN 0 ELSE attached[snapshot[k]]

\* An open handle keeps the kind it was opened with, whatever else is opened and closed and
\* although values are used again: a call is routed by it (kind_from_object).
KindKept == \A id \in DOMAIN opened : kind_from_object(id) = opened[id]
=============================================================================
