------------------------- MODULE MCRemediationPolicy -------------------------
(* An instance of RemediationPolicy: no word, each word an action rule     *)
(* looks for, words of one and of two classes, and texts on which a class  *)
(* depends on the action.                                                  *)
EXTENDS RemediationPolicy

MCTexts == {{}, {"port"}, {"config"}, {"config", "acl"}, {"config", "policy"},
            {"quarantine", "vlan"}, {"config", "delete"}}
=============================================================================
