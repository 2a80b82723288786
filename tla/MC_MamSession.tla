--------------------------- MODULE MC_MamSession ---------------------------
(***************************************************************************)
(* Instantiation of MamSession for TLC, after message_test_generic: one   *)
(* send context, the channel CHANAME with endpoint EPANAME, delegate       *)
(* channel CHANAME9 and delegate endpoint EPANAME9, the PSK B the          *)
(* receiver holds, one payload.                                             *)
(***************************************************************************)
EXTENDS MamSession

CONSTANTS
  PskB,  (* PSK identifier                                                  *)
  P1     (* payload                                                         *)

MCPskChoices == {{}, {PskB}}

MCNtruChoices == {{}}

MCPayloadLen == [p \in {P1} |-> 1]

=============================================================================
