---------------------------- MODULE ProgressTabs ----------------------------
(* The jobs that the queue shows and the tabs that watch them: the state that  *)
(* the threads of ProgressBus share, and what a tab comes to show in the end. *)
EXTENDS Naturals

CONSTANTS Shown,  \* job ids
          Tabs    \* subscriptions; a tab that reconnects is a new one

Unknown == 0
Queued  == 1
Running == 2
Staged  == 3
Ended   == 4
Phases  == Unknown..Ended

Senders == {"caller", "worker", "stages"}

VARIABLES
  phase,        \* phase[j]: what job.to_dict() shows; Unknown before it exists
  submitted,    \* jobs whose id has been put on the FIFO
  sender,       \* sender[j][r]: where sender r of job j stands
  event,        \* event[j][r]: the event it built and has not put everywhere
  recipients,   \* recipients[j][r]: subscribers it still has to put it to
  subscribers,  \* self._subscribers
  tab,          \* tab[t]: how far the subscription is
  seed,         \* seed[t]: the snapshot taken for it
  view,         \* view[t]: what the page shows
  clear         \* history: clear[j], the tabs the end of j reaches cleanly

-----------------------------------------------------------------------------
(* A tab that was connected when the end of a job was broadcast, with the    *)
(* enqueuing request out of the way, or that connected after it, shows the   *)
(* end for good: no stage or heartbeat can be put behind it.                 *)
EndIsTheLastWord ==
  \A j \in Shown : \A t \in clear[j] :
     tab[t] = "in" /\ (\A r \in Senders : sender[j][r] = "off") => view[t][j] = Ended

=============================================================================
