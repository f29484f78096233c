----------------------- MODULE MCPromotionTransaction -----------------------
(* Small instances of PromotionTransaction for TLC: the original model A and *)
(* the candidates B and C, in this order of their hashes.                    *)
EXTENDS PromotionTransaction

CONSTANTS A, B, C, g0, gB, gC, inB, inC, accB, accC, kB, kC, pin0, pinB, pinC

MCGenOf == [h \in Exports |-> IF h = B THEN gB ELSE gC]
MCInbox == [h \in Exports |-> IF h = B THEN inB ELSE inC]
MCAccepted == [h \in Exports |-> IF h = B THEN accB ELSE accC]
MCKeyOf == [h \in Exports |-> IF h = B THEN kB ELSE kC]
MCPinOf == [g \in GenId |-> CASE g = gB -> pinB [] g = gC -> pinC
                              [] OTHER -> pin0]
MCOneHash == <<B>>
MCTwoHashes == <<B, C>>
=============================================================================
