----------------------------- MODULE MCPurchasing -----------------------------
(* Instances of Purchasing: the core of the pipeline and a threshold step. *)
EXTENDS Purchasing, TLC

Pipeline == <<"REQUEST_CONFIRM", "BUYER_PACKAGE", "PURCHASE_APPROVAL", "ROLE">>
Thresholds == <<0, 0, 0, 2>>
=============================================================================
