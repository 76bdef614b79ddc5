------------------------------ MODULE MCBridge ------------------------------
(***************************************************************************)
(* The two halves of pipe_bridge that wait for their terminal, in one run: *)
(* the bytes typed (BridgeInput) and the cursor's position (CursorSync).   *)
(* They share no variable, so a behaviour moves the one `half' names.      *)
(***************************************************************************)
EXTENDS MCBridgeInput, CursorSync

ASSUME CursorSyncAssumption

VARIABLE half

halves == <<half, vars, sync_vars>>

\* The half that does not move is in an initial state.
BridgeInit ==
  /\ half \in {"input", "cursor"}
  /\ Init
  /\ SyncInit /\ (half # "cursor" => ~inherit)

InputHalf == half = "input" /\ UNCHANGED <<half, sync_vars>>
CursorHalf == half = "cursor" /\ UNCHANGED <<half, vars>>

InputStep == InputHalf /\ Next
CursorStep == CursorHalf /\ SyncNext

BridgeNext == InputStep \/ CursorStep

\* The fairness of the two modules.
InputProgress == InputHalf /\ Progress
TerminalProgress == CursorHalf /\ TerminalReads
CursorProgress == CursorHalf /\ Bridge

BridgeSpec ==
  /\ BridgeInit /\ [][BridgeNext]_halves
  /\ WF_halves(InputProgress) /\ WF_halves(TerminalProgress) /\ WF_halves(CursorProgress)
=============================================================================
