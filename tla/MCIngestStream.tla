--------------------------- MODULE MCIngestStream ---------------------------
EXTENDS IngestStream

(* Ids 2 and 3 are pending ids that post as 1 and as 4: the posted id may sort *)
(* before or after the pending one.                                            *)
TwoPurchases == [t \in Ids |-> CASE t = 1 -> 2 [] t = 4 -> 3 [] OTHER -> None]

(* One purchase that posts under another id; the other ids are posted at once. *)
OnePurchase == [t \in Ids |-> IF t = 1 THEN 2 ELSE None]
=============================================================================
