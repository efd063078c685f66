-------------------------- MODULE MCBackgroundTasks --------------------------
(* Three mixtures: the mail task, a request that kicks the same worker and a  *)
(* detached task; the scan and the requests of two accounts for research; and *)
(* the two recurring tasks after one another in the recovery.                 *)
EXTENDS BackgroundTasks
CONSTANTS http, webPush
MCUsers == {"ada", "ben"}
MCRequests == {http}
MCProducers == {http, MailFetch}
MCDetached == {webPush}
MCWorkloads == {{MailFetch, http, webPush}, {ResearchRecovery, Research}, {MailFetch, ResearchRecovery}}
==============================================================================
