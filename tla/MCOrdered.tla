----------------------------- MODULE MCOrdered ------------------------------
(***************************************************************************)
(* queue_ordered looks at two scenes, which differ in what the clients     *)
(* choose not to do; no step that has to come is left out.                 *)
(***************************************************************************)
EXTENDS MCWorkQueue
VARIABLE scene
SceneVars == <<allVars, scene>>

(* "flushes": one caller flushes and cancels one of two works.             *)
(* "cancels": two callers cancel one work.                                 *)
OrderedNext ==
  /\ NextQ /\ UNCHANGED scene
  /\ \A c \in Caller : tgt'[c] # b
  /\ IF scene = "flushes" THEN op'[c2] = None
     ELSE queueing'[b] = None /\ \A c \in Caller : op'[c] \in CancelOps \cup {None}
OrderedSpec == /\ InitQ /\ scene \in {"flushes", "cancels"} /\ [][OrderedNext]_SceneVars
               /\ FairQ
=============================================================================
