----------------------- MODULE MCBackgroundRunners -----------------------
(* The chain of runners of the finding notifications: an event delivery     *)
(* starts an alert fan-out, which queues an email.                          *)
EXTENDS BackgroundRunners, TLC

CONSTANTS events, alerts, emails

(* The bus and the mail service are built before the handler that owns the  *)
(* alert runner.                                                            *)
BuildOrder == <<events, emails, alerts>>
Chain == (events :> alerts) @@ (alerts :> emails) @@ (emails :> None)
=============================================================================
