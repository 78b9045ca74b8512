---------------------------- MODULE ReplyComposer ----------------------------
(***************************************************************************)
(* The reply composer of one conversation (ConversationScreen.tsx), the    *)
(* drafts it keeps in localStorage (web/src/lib/drafts.ts), its server     *)
(* action (web/src/lib/actions.ts) and the replies endpoint                *)
(* (src/api/conversations.ts) over OutboundDelivery: a key is the thread   *)
(* that the delivery gives it, a request one of its calls.                 *)
(*                                                                         *)
(* Every thread is keyed (Keyless is empty).  A text is typed once; what   *)
(* comes back in the composer later is a draft.  The 400 answer is left    *)
(* out: the composer checks the server's limits itself.                    *)
(***************************************************************************)
EXTENDS OutboundDelivery

CONSTANTS
    Replies,         \* the texts an agent writes
    NoReply,
    LossBound        \* model bound: requests and answers that get lost

VARIABLES
    draft,      \* localStorage['helpthread.drafts'] of the conversation
    onScreen,   \* is the conversation open?
    loaded,     \* replyDraftTextRef: the draft as loaded or last saved
    editor,     \* replyBodyHtmlRef: what was typed in this visit; NoReply for null
    timer,      \* draftSaveTimer: the text the debounce will save
    key,        \* idempotencyKey
    minted,     \* the keys crypto.randomUUID has handed out
    post,       \* post[w]: the reply and key of request w, and from which visit
    answer,     \* answer[w]: where request w is, or its answer
    text,       \* text[k]: the body persisted under key k
    losses,
    written,    \* history: the replies typed so far
    confirmed,  \* history: the replies that were reported as sent
    unheard,    \* history: unheard[r]: keys whose network failure was shown for r
    retries     \* history: retries[r]: keys that r was posted under after that

screenVars == <<onScreen, loaded, editor, timer, key, minted>>
historyVars == <<written, confirmed, unheard, retries>>
composerVars == <<screenVars, draft, post, answer, text, losses, historyVars>>

NoPost == [reply |-> NoReply, key |-> NoThread, here |-> FALSE]

ComposerInit ==
    /\ Init
    /\ draft = NoReply /\ onScreen = FALSE
    /\ loaded = NoReply /\ editor = NoReply /\ timer = NoReply
    /\ key = NoThread /\ minted = {}
    /\ post = [w \in Callers |-> NoPost]
    /\ answer = [w \in Callers |-> "none"]
    /\ text = [k \in Threads |-> NoReply]
    /\ losses = 0
    /\ written = {} /\ confirmed = {}
    /\ unheard = [r \in Replies |-> {}]
    /\ retries = unheard

-----------------------------------------------------------------------------
(* crypto.randomUUID. *)
MintKey ==
    \E k \in Threads \ minted : key' = k /\ minted' = minted \cup {k}

(* The reset effect of a visit: the draft is loaded and a key is minted.    *)
Open ==
    /\ ~onScreen
    /\ onScreen' = TRUE
    /\ loaded' = draft /\ editor' = NoReply
    /\ MintKey
    /\ UNCHANGED <<vars, timer, draft, post, answer, text, losses, historyVars>>

(* The screen unmounts: the timer goes with it; the requests stay under     *)
(* way, and their answers still run.                                        *)
Leave ==
    /\ onScreen
    /\ onScreen' = FALSE
    /\ loaded' = NoReply /\ editor' = NoReply /\ timer' = NoReply /\ key' = NoThread
    /\ post' = [w \in Callers |-> [post[w] EXCEPT !.here = FALSE]]
    /\ UNCHANGED <<vars, minted, draft, answer, text, losses, historyVars>>

(* onReplyBodyInput: also while a request is under way.                     *)
Type(r) ==
    /\ onScreen /\ r \notin written
    /\ editor' = r /\ timer' = r
    /\ written' = written \cup {r}
    /\ UNCHANGED <<vars, onScreen, loaded, key, minted, draft, post, answer, text, losses,
                   confirmed, unheard, retries>>

(* scheduleDraftSave's timer: success does not cancel it.                   *)
SaveDraft ==
    /\ timer # NoReply
    /\ draft' = timer /\ loaded' = timer /\ timer' = NoReply
    /\ UNCHANGED <<vars, onScreen, editor, key, minted, post, answer, text, losses, historyVars>>

(* What the composer shows when it is opened.                               *)
Shown == IF editor # NoReply THEN editor ELSE loaded

(* sendReply of the screen, by the button or the keyboard; only the button  *)
(* is disabled while a request is under way.                                *)
Submit(w) ==
    /\ onScreen /\ Shown # NoReply
    /\ answer[w] = "none"
    /\ post' = [post EXCEPT ![w] = [reply |-> Shown, key |-> key, here |-> TRUE]]
    /\ answer' = [answer EXCEPT ![w] = "posted"]
    /\ retries' = IF unheard[Shown] = {} THEN retries
                  ELSE [retries EXCEPT ![Shown] = @ \cup {key}]
    /\ UNCHANGED <<vars, screenVars, draft, text, losses, written, confirmed, unheard>>

-----------------------------------------------------------------------------
Answered(w, a) == answer' = [answer EXCEPT ![w] = a]

(* handleReply, up to the persist or the replay of the key.                 *)
Handle(w) ==
    LET k == post[w].key IN
    /\ answer[w] = "posted"
    /\ \/ Persist(w, k) /\ text' = [text EXCEPT ![k] = post[w].reply] /\ Answered(w, "handling")
       \/ Replay(w, k) /\ UNCHANGED text /\ Answered(w, "handling")
       \/ delivery[k] = "sent" /\ ~deleted /\ UNCHANGED <<vars, text>> /\ Answered(w, "ok")
       \/ deleted /\ UNCHANGED <<vars, text>> /\ Answered(w, "not_found")
    /\ UNCHANGED <<screenVars, draft, post, losses, historyVars>>

(* The rest of sendReply; what it returned is the answer.                   *)
Deliver(w) ==
    /\ answer[w] = "handling"
    /\ \/ Claim(w) /\ Answered(w, IF Claimable(thread[w]) THEN "handling"
                                  ELSE IF delivery[thread[w]] = "sent" THEN "ok"
                                  ELSE "retry_in_progress")
       \/ Send(w) /\ UNCHANGED answer
       \/ Mark(w) /\ Answered(w, IF stage[w] = "accepted" THEN "ok" ELSE "send_failed")
    /\ UNCHANGED <<screenVars, draft, post, text, losses, historyVars>>

Closing(w) ==
    /\ post' = [post EXCEPT ![w] = NoPost]
    /\ answer' = [answer EXCEPT ![w] = "none"]

(* The request or its answer is lost: the action answers network, and the   *)
(* composer keeps the draft and its key.                                    *)
Lose(w) ==
    /\ answer[w] \notin {"none", "handling"}
    /\ losses < LossBound /\ losses' = losses + 1
    /\ Closing(w)
    /\ unheard' = IF post[w].here
                  THEN [unheard EXCEPT ![post[w].reply] = @ \cup {post[w].key}]
                  ELSE unheard
    /\ UNCHANGED <<vars, screenVars, draft, text, written, confirmed, retries>>

(* The success branch of sendReply: the draft goes whichever visit is on    *)
(* the screen; the refs are those of the visit that sent.                   *)
Succeed(w) ==
    /\ answer[w] = "ok"
    /\ Closing(w)
    /\ draft' = NoReply
    /\ confirmed' = confirmed \cup {post[w].reply}
    /\ IF post[w].here
       THEN loaded' = NoReply /\ editor' = NoReply /\ MintKey
       ELSE UNCHANGED <<loaded, editor, key, minted>>
    /\ UNCHANGED <<vars, onScreen, timer, text, losses, written, unheard, retries>>

(* Every other answer says so and keeps the draft and its key.              *)
Fail(w) ==
    /\ answer[w] \in {"send_failed", "retry_in_progress", "not_found"}
    /\ Closing(w)
    /\ UNCHANGED <<vars, screenVars, draft, text, losses, historyVars>>

RemoveConversation == Delete /\ UNCHANGED composerVars

ComposerNext ==
    \/ Open \/ Leave \/ SaveDraft \/ RemoveConversation
    \/ \E r \in Replies : Type(r)
    \/ \E w \in Callers :
        Submit(w) \/ Handle(w) \/ Deliver(w) \/ Lose(w) \/ Succeed(w) \/ Fail(w)

ComposerSpec == ComposerInit /\ [][ComposerNext]_<<vars, composerVars>>

-----------------------------------------------------------------------------
Mailed(r, k) == text[k] = r /\ mails[k] > 0

(* A retry after a network failure uses the same key, so that it risks no   *)
(* duplicate: a reply that met one and was never reported as sent reaches   *)
(* the customer under one key.  It does not hold: a visit that restores the *)
(* draft mints a key of its own.                                            *)
RetryKeepsKey ==
    \A r \in Replies \ confirmed : \A j \in unheard[r], k \in retries[r] :
        (Mailed(r, j) /\ Mailed(r, k)) => j = k
=============================================================================
