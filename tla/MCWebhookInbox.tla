-------------------------- MODULE MCWebhookInbox ---------------------------
(***************************************************************************)
(* Values of the constants of WebhookInbox for TLC.                        *)
(***************************************************************************)
EXTENDS WebhookInbox, TLC

CONSTANT s1    \* the one session

\* The expiry of one session.
OneEvent == {<<s1, "payment_session.expired">>}

\* Both events of one session that the processors apply.
SessionEvents == {s1} \X SessionTypes

=============================================================================
