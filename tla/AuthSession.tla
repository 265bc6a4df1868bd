---------------------------- MODULE AuthSession ----------------------------
(***************************************************************************)
(* Signing in and staying signed in: the AuthManager of each device        *)
(* (crates/core_auth/src/lib.rs) with its token file, calling the backend  *)
(* (AuthServer) over a network that loses requests and replies.            *)
(*                                                                         *)
(* Several calls may run on one device: the FFI takes no lock around them, *)
(* and reader_engine_init refreshes in a thread of its own.  The manager's *)
(* state and its token have a lock each, held for one access, and the file *)
(* has none, so that the end of a call is three steps.                     *)
(***************************************************************************)
EXTENDS AuthServer

CONSTANTS
    Call,         \* calls of the manager: the application's, and the refresh
                  \* in the background
    Owner,        \* the device a call runs on
    Clocks,       \* how the server's clock may behave, out of ClockKind
    SignedIn,     \* the devices that are signed in at the start, in the
                  \* order in which they logged in
    MaxTime,      \* bound: the latest reading of a clock that is not ordered
    MaxRequests,  \* bound: requests sent, under each kind of clock
    MaxFaults     \* bound: lost messages, crashes, failed writes, expiries

ClockKind == {"ordered", "any"}

ASSUME AuthAssumption ==
    /\ Owner \in [Call -> Device]
    /\ Clocks \subseteq ClockKind
    /\ SignedIn \in Seq(Device)
    /\ \A j, k \in DOMAIN SignedIn : SignedIn[j] = SignedIn[k] => j = k
    /\ MaxTime \in Nat /\ MaxRequests \in [Clocks -> Nat] /\ MaxFaults \in Nat

NoToken == 0

VARIABLES
    acc,       \* the account on the server
    clock,     \* "ordered": each reading is later than the one before;
               \* "any": the clock may also be set back or stand still
    now,       \* the latest reading of an ordered clock
    mem,       \* current_token: the number of a pair, or NoToken
    file,      \* the token file
    state,     \* AuthState
    call,      \* where each call is
    requests,  \* requests sent so far
    faults,    \* faults so far
    astray,    \* history: devices whose file and memory may differ, because
               \* calls overlapped or a write failed
    unsure,    \* history: a device did not see the outcome of a request
    alarm      \* history: the server took a refresh for a reuse

vars == <<acc, clock, now, mem, file, state, call, requests, faults, astray,
          unsure, alarm>>

server == <<acc, now, alarm>>
client == <<mem, file, state>>
history == <<astray, unsure>>

\* op is what runs; after it (a refresh only), then; tok is the pair that is
\* presented; put and end are the token and the state that the call will store.
Quiet == [pc |-> "idle", op |-> "none", then |-> "none", tok |-> NoToken,
          time |-> 0, put |-> NoToken, end |-> "none"]

\* The logins before the start, all at time 0.
Init ==
    /\ LET first == {SignedIn[k] : k \in DOMAIN SignedIn}
       IN /\ acc = [NewAccount EXCEPT !.known = first, !.active = first,
                     !.tokens = [k \in DOMAIN SignedIn |->
                         [dev |-> SignedIn[k], st |-> "live", iat |-> 0, fresh |-> TRUE]]]
          /\ mem = [d \in Device |-> IF d \in first
                        THEN CHOOSE k \in DOMAIN SignedIn : SignedIn[k] = d ELSE NoToken]
          /\ state = [d \in Device |-> IF d \in first THEN "Authenticated" ELSE "LoggedOut"]
    /\ file = mem
    /\ clock \in Clocks
    /\ now = 0
    /\ call = [c \in Call |-> Quiet]
    /\ requests = 0 /\ faults = 0
    /\ astray = {} /\ unsure = FALSE /\ alarm = FALSE

Goto(c, r) == call' = [call EXCEPT ![c] = r]

\* The server reads its clock.
Readings == IF clock = "ordered" THEN {now + 1} ELSE 0 .. MaxTime

Reads(t) == now' = IF clock = "ordered" THEN t ELSE now

CallsOf(d) == {c \in Call : Owner[c] = d}

-----------------------------------------------------------------------------
(* A call begins.                                                          *)

\* A request is sent, with the pair tok.
Request(c, op, tok, then) ==
    /\ requests < MaxRequests[clock]
    /\ requests' = requests + 1
    /\ Goto(c, [Quiet EXCEPT !.pc = "send", !.op = op, !.tok = tok, !.then = then])

Begin(c) ==
    /\ call[c].pc = "idle"
    /\ astray' = IF \E other \in CallsOf(Owner[c]) : call[other].pc # "idle"
                 THEN astray \cup {Owner[c]} ELSE astray
    /\ UNCHANGED <<clock, faults, unsure>> /\ UNCHANGED server /\ UNCHANGED client

StartLogin(c) ==
    /\ Begin(c)
    /\ Request(c, "login", NoToken, "none")

\* reader_auth_refresh_token, and the background refresh of a restart.
StartRefresh(c) ==
    /\ Begin(c)
    /\ mem[Owner[c]] # NoToken
    /\ Request(c, "refresh", mem[Owner[c]], "none")

\* Without a token the server is not called.
StartLogout(c) ==
    /\ Begin(c)
    /\ IF mem[Owner[c]] # NoToken
       THEN Request(c, "logout", mem[Owner[c]], "none")
       ELSE /\ Goto(c, [Quiet EXCEPT !.pc = "reply", !.op = "logout", !.end = "LoggedOut"])
            /\ UNCHANGED requests

\* get_valid_token, for a call that then changes the password, removes a device
\* or deletes the account: the token in memory as long as the state is
\* Authenticated, a refresh first when it is NeedsRefresh.
GetValidToken(c, then) ==
    LET d == Owner[c]
    IN /\ Begin(c)
       /\ mem[d] # NoToken
       /\ \/ state[d] = "Authenticated" /\ Request(c, then, mem[d], "none")
          \/ state[d] = "NeedsRefresh" /\ Request(c, "refresh", mem[d], then)

-----------------------------------------------------------------------------
(* The server handles a request.                                           *)

Handling(c, op) ==
    /\ call[c].pc = "send" /\ call[c].op = op
    /\ UNCHANGED <<clock, requests, faults>>
    /\ UNCHANGED client /\ UNCHANGED history

\* The reply that ends call c: store the pair put and show the state end.
Reply(c, put, end) ==
    Goto(c, [call[c] EXCEPT !.pc = "reply", !.put = put, !.end = end])

\* A request gets past the middleware (a login past its look-up of the user),
\* and its handler reads the clock: both before the transaction has the database.
\* Of the refused requests only a logout changes something on the device.
Admit(c) ==
    /\ \E op \in {"login", "logout", "password", "remove", "delete"} : Handling(c, op)
    /\ IF IF call[c].op = "login" THEN ~acc.deleted ELSE Accepts(acc, call[c].tok)
       THEN \E t \in Readings :
                Reads(t) /\ Goto(c, [call[c] EXCEPT !.pc = "admitted", !.time = t])
       ELSE /\ IF call[c].op = "logout" THEN Reply(c, NoToken, "LoggedOut") ELSE Goto(c, Quiet)
            /\ UNCHANGED now
    /\ UNCHANGED <<acc, alarm>>

Committing(c, op) ==
    /\ call[c].pc = "admitted" /\ call[c].op = op
    /\ UNCHANGED <<clock, now, requests, faults, alarm>>
    /\ UNCHANGED client /\ UNCHANGED history

CommitLogin(c) ==
    /\ Committing(c, "login")
    /\ acc' = Login(acc, Owner[c], call[c].time)
    /\ Reply(c, Len(acc'.tokens), "Authenticated")

\* The device forgets its token whatever the server answers.
CommitLogout(c) ==
    /\ Committing(c, "logout")
    /\ acc' = EndSession(acc, Owner[c], call[c].time)
    /\ Reply(c, NoToken, "LoggedOut")

\* The answers of the next three change nothing on the device.
CommitPassword(c) ==
    /\ Committing(c, "password")
    /\ acc' = EndAllSessions(acc, call[c].time)
    /\ Goto(c, Quiet)

CommitRemove(c) ==
    /\ Committing(c, "remove")
    /\ \E d \in Device : acc' = EndSession(acc, d, call[c].time)
    /\ Goto(c, Quiet)

CommitDelete(c) ==
    /\ Committing(c, "delete")
    /\ acc' = DeleteAccount(acc, call[c].time)
    /\ Goto(c, Quiet)

\* refresh reads its token and the clock inside one transaction.  A refused
\* refresh token is forgotten by the device.
HandleRefresh(c) ==
    LET k == call[c].tok
    IN /\ Handling(c, "refresh")
       /\ \E t \in Readings :
            /\ Reads(t)
            /\ IF CanRefresh(acc, k, t)
               THEN acc' = Refresh(acc, k, t) /\ UNCHANGED alarm
               ELSE IF IsReuse(acc, k)
               THEN acc' = EndAllSessions(acc, t) /\ alarm' = TRUE
               ELSE UNCHANGED <<acc, alarm>>
            /\ IF CanRefresh(acc, k, t)
               THEN Reply(c, Len(acc'.tokens), "Authenticated")
               ELSE Reply(c, NoToken, "NeedsReLogin")

-----------------------------------------------------------------------------
(* A call ends on the device.                                              *)

Ending(c, pc) ==
    /\ call[c].pc = pc
    /\ UNCHANGED <<clock, faults, astray, unsure>> /\ UNCHANGED server

\* save_token or clear_token.
StoreFile(c) ==
    /\ Ending(c, "reply")
    /\ file' = [file EXCEPT ![Owner[c]] = call[c].put]
    /\ Goto(c, [call[c] EXCEPT !.pc = "memory"])
    /\ UNCHANGED <<mem, state, requests>>

StoreToken(c) ==
    /\ Ending(c, "memory")
    /\ mem' = [mem EXCEPT ![Owner[c]] = call[c].put]
    /\ Goto(c, [call[c] EXCEPT !.pc = "state"])
    /\ UNCHANGED <<file, state, requests>>

\* The state is shown and the call returns, or goes on with the request that
\* the refresh was for.
StoreState(c) ==
    /\ Ending(c, "state")
    /\ state' = [state EXCEPT ![Owner[c]] = call[c].end]
    /\ IF call[c].end = "Authenticated" /\ call[c].then # "none" /\ requests < MaxRequests[clock]
       THEN Request(c, call[c].then, call[c].put, "none")
       ELSE Goto(c, Quiet) /\ UNCHANGED requests
    /\ UNCHANGED <<mem, file>>

-----------------------------------------------------------------------------
(* What goes wrong.                                                        *)

Fault ==
    /\ faults < MaxFaults
    /\ faults' = faults + 1
    /\ UNCHANGED <<clock, requests, alarm>>

\* Mutant of Failed: the state that a failed refresh shows is left out.
FailedBlank(c) ==
    CASE call[c].op = "refresh" -> [Quiet EXCEPT !.pc = "state", !.op = "refresh"]
      [] call[c].op = "logout" ->
             [Quiet EXCEPT !.pc = "reply", !.op = "logout", !.end = "LoggedOut"]
      [] OTHER -> Quiet

\* Mutant of Failed: a failed refresh shows NeedsReLogin, with the token kept.
FailedRefused(c) ==
    CASE call[c].op = "refresh" ->
             [Quiet EXCEPT !.pc = "state", !.op = "refresh", !.end = "NeedsReLogin"]
      [] call[c].op = "logout" ->
             [Quiet EXCEPT !.pc = "reply", !.op = "logout", !.end = "LoggedOut"]
      [] OTHER -> Quiet

\* What a call does when its request fails: a refresh keeps the token and shows
\* NeedsRefresh, a logout goes on, the others return the error.
Failed(c) ==
    CASE call[c].op = "refresh" ->
             [Quiet EXCEPT !.pc = "state", !.op = "refresh", !.end = "NeedsRefresh"]
      [] call[c].op = "logout" ->
             [Quiet EXCEPT !.pc = "reply", !.op = "logout", !.end = "LoggedOut"]
      [] OTHER -> Quiet

\* The request or its reply is lost, or the server answers with an error.
Lose(c) ==
    /\ Fault
    /\ call[c].pc \in {"send", "admitted", "reply"}
    /\ Goto(c, Failed(c))
    /\ unsure' = TRUE
    /\ UNCHANGED <<acc, now, astray>> /\ UNCHANGED client

\* save_token or clear_token fails: the call returns the error at once, except
\* after a refused refresh.  A file that was opened for writing is cut short.
FailWrite(c) ==
    /\ Fault
    /\ call[c].pc = "reply"
    /\ IF call[c].end = "NeedsReLogin" THEN Goto(c, [call[c] EXCEPT !.pc = "memory"])
       ELSE Goto(c, Quiet)
    /\ \/ UNCHANGED file
       \/ call[c].put # NoToken /\ file' = [file EXCEPT ![Owner[c]] = NoToken]
    /\ astray' = astray \cup {Owner[c]}
    /\ UNCHANGED <<acc, now, mem, state, unsure>>

\* The process ends, and starts again from the file.  Ended in the middle of a
\* call it is a fault, and a file that was being written may be unreadable.
Restart(d) ==
    LET cut == {c \in CallsOf(d) : call[c].pc # "idle"}
    IN /\ IF cut = {} THEN UNCHANGED <<faults, unsure>>
          ELSE /\ faults < MaxFaults
               /\ faults' = faults + 1
               /\ unsure' = TRUE
       /\ \/ UNCHANGED file
          \/ /\ \E c \in cut : call[c].pc = "reply" /\ call[c].put # NoToken
             /\ file' = [file EXCEPT ![d] = NoToken]
       /\ mem' = [mem EXCEPT ![d] = file'[d]]
       /\ state' = [state EXCEPT ![d] =
                        IF file'[d] # NoToken THEN "NeedsRefresh" ELSE "LoggedOut"]
       /\ call' = [c \in Call |-> IF c \in cut THEN Quiet ELSE call[c]]
       /\ UNCHANGED <<clock, requests, astray>> /\ UNCHANGED server

\* Time passes: an access token expires, or a refresh token with it.
Expire(k) ==
    /\ Fault
    /\ \/ acc' = [acc EXCEPT !.tokens[k].fresh = FALSE]
       \/ /\ acc.tokens[k].st = "live"
          /\ acc' = [acc EXCEPT !.tokens[k].fresh = FALSE, !.tokens[k].st = "ended"]
    /\ UNCHANGED <<now, call, astray, unsure>> /\ UNCHANGED client

-----------------------------------------------------------------------------

Start(c) ==
    \/ StartLogin(c) \/ StartRefresh(c) \/ StartLogout(c)
    \/ \E then \in {"password", "remove", "delete"} : GetValidToken(c, then)

Handle(c) ==
    \/ Admit(c) \/ HandleRefresh(c) \/ CommitLogin(c) \/ CommitLogout(c)
    \/ CommitPassword(c) \/ CommitRemove(c) \/ CommitDelete(c)

Finish(c) == StoreFile(c) \/ StoreToken(c) \/ StoreState(c)

Next ==
    \/ \E c \in Call : Start(c) \/ Handle(c) \/ Finish(c) \/ Lose(c) \/ FailWrite(c)
    \/ \E d \in Device : Restart(d)
    \/ \E k \in DOMAIN acc.tokens : Expire(k)

Spec == Init /\ [][Next]_vars

-----------------------------------------------------------------------------
(* Properties.                                                             *)

AuthState == {"LoggedOut", "Authenticated", "NeedsRefresh", "NeedsReLogin"}

\* The types of the variables.
TypeOK ==
    /\ acc \in Account
    /\ clock \in ClockKind /\ now \in Nat
    /\ mem \in [Device -> 0 .. Len(acc.tokens)]
    /\ file \in [Device -> 0 .. Len(acc.tokens)]
    /\ state \in [Device -> AuthState]
    /\ call \in [Call -> [pc : {"idle", "send", "admitted", "reply", "memory", "state"},
                          op : {"none", "login", "refresh", "logout", "password", "remove", "delete"},
                          then : {"none", "password", "remove", "delete"},
                          tok : 0 .. Len(acc.tokens), time : Nat,
                          put : 0 .. Len(acc.tokens), end : AuthState \cup {"none"}]]
    /\ requests \in Nat /\ faults \in Nat
    /\ astray \subseteq Device /\ unsure \in BOOLEAN /\ alarm \in BOOLEAN

\* A device has at most one refresh token that works, and one that is signed
\* out has none, whatever logins, refreshes and removals cross each other.
OneSession ==
    \A k \in DOMAIN acc.tokens : acc.tokens[k].st = "live" =>
        /\ acc.tokens[k].dev \in acc.active
        /\ \A j \in DOMAIN acc.tokens :
               acc.tokens[j].st = "live" /\ acc.tokens[j].dev = acc.tokens[k].dev => j = k

\* An access token that was once refused for a logout, a removal, a change of
\* password or a newer session is never accepted again
\* (test_login_same_device_id_does_not_revive_old_access_token).  With three
\* requests at once, two of which read the clock before the third commits, a
\* later session's token does come back: the property is about two at a time.
NoRevival ==
    [][clock = "ordered" /\ Cardinality(Call) <= 2 =>
          \A k \in DOMAIN acc.tokens : Authorized(acc', k) => Authorized(acc, k)]_vars

\* Reuse detection signs out every device only when some device refreshed twice
\* with one token: calls overlapped, a write failed, or an outcome was not seen.
AlarmHasCause == alarm => astray # {} \/ unsure

\* Between calls that did not overlap the file, the token in memory and the
\* state agree, whatever replies were lost and whenever the process died.
DeviceAgrees ==
    \A d \in Device \ astray : (\A c \in CallsOf(d) : call[c].pc = "idle") =>
        /\ file[d] = mem[d]
        /\ (mem[d] # NoToken) <=> (state[d] \in {"Authenticated", "NeedsRefresh"})

\* A device that shows LoggedOut becomes Authenticated by a login only
\* (test_auth_manager_logout: after a logout there is no token to go on with).
LoggedOutStays ==
    [][\A d \in Device : state[d] = "LoggedOut" /\ state'[d] = "Authenticated" =>
          \E c \in CallsOf(d) : call[c].pc = "state" /\ call[c].op = "login"]_vars
=============================================================================
