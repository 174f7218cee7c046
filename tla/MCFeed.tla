------------------------------- MODULE MCFeed -------------------------------
(***************************************************************************)
(* One group chat with three messages, one of which is in the chat before  *)
(* its source is added; the recovery poll reads one message at a time.     *)
(***************************************************************************)
EXTENDS TelegramFeed

\* The tasks of the runtime make progress: the event loop runs every handler
\* that holds or gets the lock, the poll loop and the restore loop go on, and
\* restore connects in the end where no new sign-in is asked for.
FeedFairness ==
    /\ WF_feedVars(HolderStep) /\ WF_feedVars(RefreshCache)
    /\ WF_feedVars(PollStep) /\ WF_feedVars(Attach)

FeedFairSpec == FeedSpec /\ FeedFairness
=============================================================================
