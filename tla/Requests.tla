------------------------------ MODULE Requests ------------------------------
(***************************************************************************)
(* API requests of HttpExecutor under CancellationTokens.  doApiRequest    *)
(* makes a promise with the token, registers how to abort, and follows a   *)
(* redirect with another doApiRequest, whose promise settles its own: a    *)
(* call is a chain of requests, one per level.  A token may have a parent. *)
(*                                                                         *)
(* A step is one event of the event loop.  Promises settle one another in  *)
(* microtasks, so a chain settles in the step that settles its last link.  *)
(***************************************************************************)
EXTENDS Integers, FiniteSets

CONSTANTS
    Calls,
    OwnCalls,      \* those made with the child token, the others use its parent
    MaxRedirects,  \* 10
    MaxLevel       \* bound: redirects the server ever sends

ASSUME RequestsAssumption ==
    /\ OwnCalls \subseteq Calls
    /\ MaxRedirects \in Nat /\ MaxLevel \in Nat
    /\ "link" \notin Calls

Levels == 0..MaxLevel
Tokens == {"app", "own"}
Token(c) == IF c \in OwnCalls THEN "own" ELSE "app"

VARIABLES
    electron,   \* ElectronHttpExecutor, or NodeHttpExecutor: it does not change
    flags,      \* _cancelled of each token
    linked,     \* has "own" a parent?  (_parent, parentCancelHandler)
    disposed,   \* was dispose called?
    listeners,  \* the handlers of "cancel" of each token: <<call, level>>, or <<"link", 0>>
    promise,    \* of each call and level: "none", "pending", or how it settled
    request     \* "none", "open", "followed" (answered with a redirect), "ended", "aborted"

tokenVars == <<electron, flags, linked, disposed>>
requestsVars == <<tokenVars, listeners, promise, request>>

Link == <<"link", 0>>

RequestsInit ==
    /\ electron \in BOOLEAN
    /\ flags = [t \in Tokens |-> FALSE]
    /\ linked = TRUE /\ disposed = FALSE
    /\ listeners = [t \in Tokens |-> IF t = "app" THEN {Link} ELSE {}]
    /\ promise = [c \in Calls |-> [l \in Levels |-> "none"]]
    /\ request = [c \in Calls |-> [l \in Levels |-> "none"]]

Cancelled(t) == flags[t] \/ (t = "own" /\ linked /\ flags["app"])

-----------------------------------------------------------------------------
\* Settling

\* The pending promises of call c up to level l, in promises p.
PendingTo(p, c, l) == {k \in 0..l : p[c][k] = "pending"}

Settled(p, c, l, how) ==
    [p EXCEPT ![c] = [k \in Levels |-> IF k \in PendingTo(p, c, l) THEN how ELSE p[c][k]]]

KeepsHandlers(p, c, l) == listeners                                  \* mutant

\* finallyHandler of createPromise, for each promise that settles.
WithoutHandlers(p, c, l) ==
    [listeners EXCEPT ![Token(c)] = @ \ ({c} \X PendingTo(p, c, l))]

Settle(c, l, how) ==
    /\ promise' = Settled(promise, c, l, how)
    /\ listeners' = WithoutHandlers(promise, c, l)

WithoutToken(c, l) ==                                               \* mutant
    IF l > 0 THEN listeners ELSE [listeners EXCEPT ![Token(c)] = @ \union {<<c, l>>}]

\* createPromise at level l: refused if cancelled, else pending, with a
\* handler that aborts its request.
Registered(c, l) == [listeners EXCEPT ![Token(c)] = @ \union {<<c, l>>}]

Request(c, l, after) ==
    IF Cancelled(Token(c))
    THEN Settle(c, l, "cancelled") /\ request' = after
    ELSE /\ promise' = [promise EXCEPT ![c][l] = "pending"]
         /\ listeners' = Registered(c, l)
         /\ request' = [after EXCEPT ![c][l] = "open"]

-----------------------------------------------------------------------------
Call(c) ==
    /\ promise[c][0] = "none"
    /\ IF Cancelled(Token(c))
       THEN /\ promise' = [promise EXCEPT ![c][0] = "cancelled"]
            /\ UNCHANGED <<listeners, request>>
       ELSE Request(c, 0, request)
    /\ UNCHANGED tokenVars

\* handleResponse, but for a redirect.  An error status is rejected at once
\* (404) or when the body has been read.
Respond(c, l) ==
    /\ request[c][l] = "open"
    /\ request' = [request EXCEPT ![c][l] = "ended"]
    /\ \E how \in {"resolved", "rejected"} : Settle(c, l, how)
    /\ UNCHANGED tokenVars

\* The redirect count is handed on as it was received.
RedirectCount(l) == 0

Redirect(c, l) ==
    /\ request[c][l] = "open" /\ l < MaxLevel
    /\ LET after == [request EXCEPT ![c][l] = IF electron THEN "aborted" ELSE "followed"]
       IN IF RedirectCount(l) > MaxRedirects
          THEN Settle(c, l, "rejected") /\ request' = after
          ELSE Request(c, l + 1, after)
    /\ UNCHANGED tokenVars

Fail(c, l) ==
    /\ request[c][l] = "open"
    /\ request' = [request EXCEPT ![c][l] = "ended"]
    /\ Settle(c, l, "rejected")
    /\ UNCHANGED tokenVars

\* The socket is idle for 60 seconds.  Nobody reads the body of a response
\* that redirects, so its socket can be open and idle while the next level
\* is at work.  Requests of Electron have no "socket" event.
TimeOut(c, l) ==
    /\ ~electron
    /\ request[c][l] \in {"open", "followed"}
    /\ request' = [request EXCEPT ![c][l] = "aborted"]
    /\ Settle(c, l, "rejected")
    /\ UNCHANGED tokenVars

\* cancel() of a token: its handlers run once; one of them cancels the child.
Cancel(t) ==
    LET fired == listeners[t] \union (IF Link \in listeners[t] THEN listeners["own"] ELSE {})
        tokens == {t} \union (IF Link \in listeners[t] THEN {"own"} ELSE {})
    IN  /\ flags' = [u \in Tokens |-> flags[u] \/ u \in tokens]
        /\ listeners' = [u \in Tokens |-> listeners[u] \ fired]
        /\ promise' = [c \in Calls |-> [l \in Levels |->
               IF <<c, l>> \in fired THEN "cancelled" ELSE promise[c][l]]]
        /\ request' = [c \in Calls |-> [l \in Levels |->
               IF <<c, l>> \in fired /\ request[c][l] \in {"open", "followed"}
               THEN "aborted" ELSE request[c][l]]]
        /\ UNCHANGED <<electron, linked, disposed>>

\* dispose() of the child.
Dispose ==
    /\ ~disposed
    /\ disposed' = TRUE /\ linked' = FALSE
    /\ listeners' = [listeners EXCEPT !["app"] = @ \ {Link}, !["own"] = {}]
    /\ UNCHANGED <<electron, flags, promise, request>>

RequestStep(c, l) == Respond(c, l) \/ Redirect(c, l) \/ Fail(c, l) \/ TimeOut(c, l)

RequestsNext ==
    \/ \E c \in Calls : Call(c)
    \/ \E c \in Calls, l \in Levels : RequestStep(c, l)
    \/ \E t \in Tokens : Cancel(t)
    \/ Dispose

RequestsSpec == RequestsInit /\ [][RequestsNext]_requestsVars

-----------------------------------------------------------------------------
(***************************************************************************)
(* A token that was cancelled, itself or through its parent, and not       *)
(* disposed of leaves nothing of its calls behind: every promise settled,  *)
(* every request ended or aborted, wherever in its chain of redirects the  *)
(* cancellation met it.                                                    *)
(***************************************************************************)
CancelEndsCalls ==
    \A c \in Calls : Cancelled(Token(c)) /\ ~disposed =>
        \A l \in Levels : promise[c][l] # "pending" /\ request[c][l] # "open"

(***************************************************************************)
(* The handlers on a token are those of promises that are pending: a       *)
(* token used for a whole build gathers no handlers of requests that       *)
(* ended, and no pending promise is without one until dispose.             *)
(***************************************************************************)
HandlersOfPending ==
    \A c \in Calls, l \in Levels :
        /\ <<c, l>> \in listeners[Token(c)] => promise[c][l] = "pending"
        /\ promise[c][l] = "pending" => <<c, l>> \in listeners[Token(c)] \/ disposed

(***************************************************************************)
(* createMaxRedirectError: "Too many redirects (> 10)".  This does not     *)
(* hold, nobody counts: a MaxLevel above MaxRedirects + 1 shows it.        *)
(***************************************************************************)
RedirectsBounded == \A c \in Calls, l \in Levels : l > MaxRedirects + 1 => request[c][l] = "none"
=============================================================================
