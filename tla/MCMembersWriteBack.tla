------------------------- MODULE MCMembersWriteBack -------------------------
(***************************************************************************)
(* WorkspaceMembers and WriteBack for TLC, in one run.  They share no      *)
(* table, so a behaviour is one of the members of a workspace or one of    *)
(* its industrial write-back, while the other component rests in one of    *)
(* its initial states.                                                     *)
(***************************************************************************)
EXTENDS WorkspaceMembers, WriteBack

VARIABLE part  \* the component whose behaviour this is

AtRest == /\ filed \in [Writeback -> [by : {CHOOSE u \in Person : TRUE}, risk : {"low"}]]
          /\ withExecutor = {}

MCInit == /\ Init /\ WriteBackInit
          /\ part \in {"members", "write-back"}
          /\ part = "members" => AtRest

MCNext == \/ part = "members" /\ Next /\ UNCHANGED <<writeBackVars, part>>
          \/ part = "write-back" /\ WriteBackNext /\ UNCHANGED <<vars, part>>

(* The fairness is that of the members: WriteBack promises nothing that    *)
(* needs any, and Step is disabled while the members rest.                 *)
MCSpec == MCInit /\ [][MCNext]_<<vars, writeBackVars, part>> /\ Fairness
=============================================================================
