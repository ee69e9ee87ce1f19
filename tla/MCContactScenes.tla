-------------------------- MODULE MCContactScenes --------------------------
(* Two scenes of ContactOrchestration that one run checks side by side:    *)
(* one worker and one operator with every other input, or two workers and  *)
(* two operators contending for the first two prompts while consent is     *)
(* given, declined or taken for granted.  The scene names the sole worker. *)
EXTENDS MCContactOrchestration

VARIABLE scene

PairKinds == {"CONSENT_GRANTED", "CONSENT_DECLINED", "REPLY"}

Lead == CHOOSE o \in Operators : TRUE

SceneInit == Init /\ scene \in Workers \cup {"pair"}

SceneNext ==
    /\ Next
    /\ scene' = scene
    /\ IF scene = "pair"
       THEN /\ \A i \in received' : i.kind \in PairKinds
            /\ \A m \in Messages : m > 2 => status'[m] = "absent"
       ELSE /\ \A i \in received' : i.kind \notin {"CONSENT_DECLINED", "REPLY"}
            /\ operator' \in {None, Lead}
            /\ \A w \in Workers \ {scene} : wpc'[w] = wpc[w] /\ batch'[w] = batch[w]

SceneSpec == SceneInit /\ [][SceneNext]_<<vars, scene>>
=============================================================================
