-------------------------- MODULE MCPaymentWebhook --------------------------
(* A small instance of PaymentWebhook for TLC: one charge and three events *)
(* of its order, so that up to three jobs work on one payments row.        *)
EXTENDS PaymentWebhook, TLC

CONSTANTS p1, e1, e2, e3
=============================================================================
