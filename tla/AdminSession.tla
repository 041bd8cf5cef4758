---------------------------- MODULE AdminSession ----------------------------
(***************************************************************************)
(* The session of the admin panel: a signed cookie with the epoch it was   *)
(* issued in and a chat session id, re-issued with every answer.           *)
(*                                                                         *)
(* Requests overlap: a chat turn lasts minutes, and the cookie of its      *)
(* answer is made from the cookie that came with it.  The form token is    *)
(* derived from the cookie's payload, so a form may have aged or not.      *)
(***************************************************************************)
EXTENDS Integers, FiniteSets

CONSTANTS Browsers,
          Tabs,           \* requests under way are told apart by their tab
          BrowserOf,      \* [Tabs -> Browsers]
          MaxSids,        \* bound: chat session ids minted
          MaxEpoch,       \* bound: no logout of all beyond it
          MaxOutages      \* bound: times the database does not answer

ASSUME SessionBounds == /\ BrowserOf \in [Tabs -> Browsers]
                        /\ {MaxSids, MaxOutages} \subseteq Nat
                        /\ MaxEpoch \in Nat \ {0}

VARIABLES epoch,          \* _EPOCH of the process
          stored,         \* settings.session_epoch
          jar,            \* the cookie a browser holds
          request,        \* the request a tab has under way
          minted,         \* session ids so far
          outages,
          out,            \* history: browsers that signed out
          cut,            \* history: browsers whose sessions were all ended
          left,           \* history: [browser -> session id a new chat ended]
          diverged        \* history: epoch and stored have differed

process  == <<epoch, stored, minted, outages>>
promises == <<out, cut, left, diverged>>
session  == <<process, jar, request, promises>>

\* A cookie without a session id has no name in it either.
NoSid    == 0
NoCookie == [epoch |-> 0, sid |-> NoSid]
Quiet    == [pc |-> "quiet", kind |-> "other", cookie |-> NoCookie,
             faded |-> FALSE, set |-> NoCookie]

Kinds    == {"login", "logout", "logoutAll", "newChat", "other"}
Cookies  == [epoch : 0 .. MaxEpoch + MaxOutages, sid : 0 .. MaxSids]
Requests == [pc : {"quiet", "inside", "answered"},
             kind : Kinds,
             cookie : Cookies, faded : BOOLEAN, set : Cookies]

TypeOKSession ==
    /\ stored \in 1 .. MaxEpoch
    /\ epoch \in 1 .. MaxEpoch + MaxOutages
    /\ jar \in [Browsers -> Cookies]
    /\ request \in [Tabs -> Requests]
    /\ \A t \in Tabs : request[t].pc # "answered" => request[t].set = NoCookie
    /\ minted \in 0 .. MaxSids
    /\ ~diverged => epoch = stored

InitSession ==
    /\ epoch = 1 /\ stored = 1
    /\ jar = [b \in Browsers |-> NoCookie]
    /\ request = [t \in Tabs |-> Quiet]
    /\ minted = 0 /\ outages = 0
    /\ out = {} /\ cut = {}
    /\ left = [b \in Browsers |-> NoSid]
    /\ diverged = FALSE

-----------------------------------------------------------------------------
\* session_live, for a cookie within its window
Live(cookie) == cookie # NoCookie /\ cookie.epoch = epoch

\* Mutant: the answer to a logout re-issues the cookie.
NoReissueChat == {"newChat"}

\* Mutant: the answer to /chat/new re-issues the cookie.
NoReissueLogout == {"logout", "logoutAll"}

\* auth.NO_REISSUE
NoReissue == {"logout", "logoutAll", "newChat"}

\* issue: today's epoch, and what the request's cookie says, if it still does
Signed(r) == [epoch |-> epoch, sid |-> IF r.faded THEN NoSid ELSE r.cookie.sid]

Rotated(r) == [epoch |-> epoch,
               sid   |-> IF Signed(r).sid = NoSid THEN NoSid ELSE minted + 1]

\* Requests of browser b, but for that of tab t, that may yet set a cookie
Under(b, t) == {u \in Tabs \ {t} : BrowserOf[u] = b /\ request[u].pc # "quiet"}

-----------------------------------------------------------------------------
\* The request is judged by session_guard as it is sent: one that is judged
\* later ends in the same way, or at the login page and changes nothing.
Send(t, kind) ==
    LET cookie == jar[BrowserOf[t]]
    IN  /\ request[t].pc = "quiet"
        /\ kind = "login" \/ Live(cookie)
        /\ request' = [request EXCEPT ![t] =
              [Quiet EXCEPT !.pc = "inside", !.kind = kind,
                            !.cookie = IF kind = "login" THEN NoCookie ELSE cookie]]
        /\ UNCHANGED <<process, jar, promises>>

Answer(t, cookie) ==
    request' = [request EXCEPT ![t] =
        [Quiet EXCEPT !.pc = "answered", !.kind = request[t].kind, !.set = cookie,
             !.cookie = IF request[t].kind = "newChat" THEN request[t].cookie ELSE @]]

\* login_submit: password and name are right.
Login(t) ==
    /\ request[t].pc = "inside" /\ request[t].kind = "login"
    /\ minted < MaxSids
    /\ minted' = minted + 1
    /\ Answer(t, [epoch |-> epoch, sid |-> minted + 1])
    /\ UNCHANGED <<epoch, stored, outages, jar, promises>>

\* Any other handler; also a form whose token is refused by csrf_guard, which
\* changes nothing but is answered through the same middleware.
Handle(t) ==
    /\ request[t].pc = "inside"
    /\ request[t].kind = "other"
    /\ Answer(t, Signed(request[t]))
    /\ UNCHANGED <<process, jar, promises>>

CsrfRefused(t) ==
    /\ request[t].pc = "inside"
    /\ request[t].kind \in {"logout", "logoutAll", "newChat"}
    /\ request' = [request EXCEPT ![t] = Quiet]
    /\ UNCHANGED <<process, jar, promises>>

\* A handler that makes its own cookie header; the middleware's would win.
OwnAnswer(t, cookie) ==
    Answer(t, IF request[t].kind \in NoReissue THEN cookie ELSE Signed(request[t]))

Logout(t) ==
    /\ request[t].pc = "inside" /\ request[t].kind = "logout"
    /\ OwnAnswer(t, NoCookie)
    /\ UNCHANGED <<process, jar, promises>>

NewChat(t) ==
    /\ request[t].pc = "inside" /\ request[t].kind = "newChat"
    /\ minted < MaxSids
    /\ minted' = minted + 1
    /\ OwnAnswer(t, Rotated(request[t]))
    /\ UNCHANGED <<epoch, stored, outages, jar, promises>>

-----------------------------------------------------------------------------
\* Mutant: the process goes on with the epoch it had.
MemoryAfterKept(reached) == IF reached THEN epoch ELSE epoch + 1

\* bump_epoch: _EPOCH after it
MemoryAfter(reached) == IF reached THEN stored + 1 ELSE epoch + 1

\* logout_all.  A session survives it if one of its requests is past the
\* guard: its answer is signed with the new epoch.
LogoutAll(t, reached) ==
    /\ request[t].pc = "inside" /\ request[t].kind = "logoutAll"
    /\ stored < MaxEpoch
    /\ reached \/ outages < MaxOutages
    /\ outages' = IF reached THEN outages ELSE outages + 1
    /\ stored' = IF reached THEN stored + 1 ELSE stored
    /\ epoch' = MemoryAfter(reached)
    /\ OwnAnswer(t, NoCookie)
    /\ cut' = cut \cup {b \in Browsers : Under(b, t) = {}}
    /\ diverged' = (diverged \/ ~reached)
    /\ UNCHANGED <<minted, jar, out, left>>

\* The process starts again, and requests under way are lost.
Restart(reached) ==
    /\ reached \/ outages < MaxOutages
    /\ outages' = IF reached THEN outages ELSE outages + 1
    /\ epoch' = IF reached THEN stored ELSE 1
    /\ request' = [t \in Tabs |-> Quiet]
    /\ diverged' = (diverged \/ epoch' # stored)
    /\ UNCHANGED <<stored, minted, jar, out, cut, left>>

\* The answer arrives.  Signing out, or a new chat, promises something if
\* no other request of the browser is under way.
Deliver(t) ==
    LET r == request[t]
        b == BrowserOf[t]
        alone == Under(b, t) = {}
    IN  /\ r.pc = "answered"
        /\ jar' = [jar EXCEPT ![b] = r.set]
        /\ request' = [request EXCEPT ![t] = Quiet]
        /\ out' = IF r.kind \in {"logout", "logoutAll"}
                  THEN IF alone THEN out \cup {b} ELSE out
                  ELSE IF r.kind = "login" THEN out \ {b} ELSE out
        /\ cut' = IF r.kind = "login" THEN cut \ {b} ELSE cut
        /\ left' = IF r.kind = "newChat" /\ alone
                   THEN [left EXCEPT ![b] = r.cookie.sid] ELSE left
        /\ UNCHANGED <<process, diverged>>

\* The answer is lost, or the person did not wait for it.
Lose(t) ==
    /\ request[t].pc = "answered"
    /\ request' = [request EXCEPT ![t] = Quiet]
    /\ UNCHANGED <<process, jar, promises>>

\* IDLE_SECONDS after its cookie was signed a request at work can no longer be
\* told whose it is, though the browser may have got a newer cookie since.
Outlive(t) ==
    /\ request[t].pc = "inside"
    /\ request[t].kind # "login"
    /\ ~request[t].faded
    /\ request' = [request EXCEPT ![t].faded = TRUE]
    /\ UNCHANGED <<process, jar, promises>>

\* IDLE_SECONDS after the last answer the browser drops its cookie.
Fade(b) ==
    /\ jar[b] # NoCookie
    /\ jar' = [jar EXCEPT ![b] = NoCookie]
    /\ request' = [t \in Tabs |->
          IF BrowserOf[t] = b /\ request[t].pc = "inside" /\ request[t].kind # "login"
          THEN [request[t] EXCEPT !.faded = TRUE] ELSE request[t]]
    /\ UNCHANGED <<process, promises>>

SessionNext ==
    \/ \E t \in Tabs : \/ \E kind \in Kinds : Send(t, kind)
                       \/ Login(t) \/ Handle(t)
                       \/ CsrfRefused(t) \/ Logout(t) \/ NewChat(t)
                       \/ \E reached \in BOOLEAN : LogoutAll(t, reached)
                       \/ Deliver(t) \/ Lose(t) \/ Outlive(t)
    \/ \E reached \in BOOLEAN : Restart(reached)
    \/ \E b \in Browsers : Fade(b)

-----------------------------------------------------------------------------
\* session_guard, logout, logout_all, bump_epoch: once a browser has signed
\* out with nothing else of it under way, no late answer gives it a cookie
\* back; and once all sessions were ended, no browser is signed in without a
\* login of its own, save one with a request past the guard at that moment,
\* as long as the process and the database agree on the epoch.
SignedOutStays ==
    /\ \A b \in out : jar[b] = NoCookie
    /\ ~diverged => \A b \in cut : ~Live(jar[b])

\* new_chat, issue: after a new chat with nothing else of the browser under
\* way, no answer carries it back into an older conversation.
NewChatSticks ==
    \A b \in Browsers : jar[b].sid = NoSid \/ jar[b].sid > left[b]
=============================================================================
