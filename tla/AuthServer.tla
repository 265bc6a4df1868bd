----------------------------- MODULE AuthServer -----------------------------
(***************************************************************************)
(* One account on the backend (crates/backend/src/handlers/auth.rs,        *)
(* middleware.rs, jwt.rs): its refresh tokens, its devices and the cut-off *)
(* times before which access tokens are refused.  Every handler is one     *)
(* database transaction; the operators below are those transactions.       *)
(*                                                                         *)
(* Login and refresh issue an access token and a refresh token together:   *)
(* tokens[k] describes the k-th pair.  Of the reasons for which a refresh  *)
(* token is revoked the code tells "rotated" from the others; the others,  *)
(* and an expiry, are "ended".                                             *)
(***************************************************************************)
EXTENDS Integers, Sequences, FiniteSets

CONSTANT Device    \* the devices of the account

Pair == [dev   : Device,
         st    : {"live", "rotated", "ended"},   \* the refresh token
         iat   : Nat,                            \* the access token's issue time
         fresh : BOOLEAN]                        \* it has not expired

Account == [tokens     : Seq(Pair),
            known      : SUBSET Device,          \* rows of user_devices
            active     : SUBSET Device,          \* is_active = 1
            devCutoff  : [Device -> Nat],        \* user_devices.token_valid_after
            userCutoff : Nat,                    \* users.token_valid_after
            deleted    : BOOLEAN]                \* users.deleted_at

NewAccount == [tokens |-> << >>, known |-> {}, active |-> {},
               devCutoff |-> [d \in Device |-> 0], userCutoff |-> 0,
               deleted |-> FALSE]

Later(s, t) == IF s >= t THEN s ELSE t

-----------------------------------------------------------------------------

\* The middleware: what it looks up of the access token of pair k.
Authorized(acc, k) ==
    /\ ~acc.deleted
    /\ acc.tokens[k].dev \in acc.active
    /\ acc.tokens[k].iat >= acc.userCutoff
    /\ acc.tokens[k].iat >= acc.devCutoff[acc.tokens[k].dev]

Accepts(acc, k) == acc.tokens[k].fresh /\ Authorized(acc, k)

\* The live refresh tokens of the devices in ds are revoked.
EndTokens(acc, ds) ==
    [acc EXCEPT !.tokens = [k \in DOMAIN @ |->
        IF @[k].dev \in ds /\ @[k].st = "live" THEN [@[k] EXCEPT !.st = "ended"] ELSE @[k]]]

Issue(acc, d, t) ==
    [acc EXCEPT !.tokens = Append(@, [dev |-> d, st |-> "live", iat |-> t, fresh |-> TRUE])]

\* Mutant of RaiseCutoff: the new time is taken even when it is earlier.
SetCutoff(acc, ds, t) ==
    [acc EXCEPT !.devCutoff = [d \in Device |-> IF d \in ds \cap acc.known THEN t ELSE @[d]]]

\* token_valid_after = MAX(token_valid_after, t) for the devices in ds.
RaiseCutoff(acc, ds, t) ==
    [acc EXCEPT !.devCutoff = [d \in Device |->
        IF d \in ds \cap acc.known THEN Later(@[d], t) ELSE @[d]]]

Deactivate(acc, ds) == [acc EXCEPT !.active = @ \ ds]

-----------------------------------------------------------------------------

\* Mutant of Login: the device's earlier session is not replaced.
LoginBeside(acc, d, t) ==
    LET row == [acc EXCEPT !.known = @ \cup {d}, !.active = @ \cup {d}]
        cut == RaiseCutoff(row, {d}, t)
    IN Issue(cut, d, cut.devCutoff[d])

\* login's transaction; t was read before it.  The access token is dated at the
\* device's cut-off time, which is t or later.
Login(acc, d, t) ==
    LET row == [EndTokens(acc, {d}) EXCEPT !.known = @ \cup {d}, !.active = @ \cup {d}]
        cut == RaiseCutoff(row, {d}, t)
    IN Issue(cut, d, cut.devCutoff[d])

\* logout of device d, and remove_device of it by another device.
EndSession(acc, d, t) == RaiseCutoff(Deactivate(EndTokens(acc, {d}), {d}), {d}, t)

\* Reuse of a refresh token, and change_password: every session ends.
EndAllSessions(acc, t) ==
    LET ended == RaiseCutoff(Deactivate(EndTokens(acc, Device), Device), Device, t)
    IN [ended EXCEPT !.userCutoff = Later(@, t)]

DeleteAccount(acc, t) == [EndAllSessions(acc, t) EXCEPT !.deleted = TRUE]

\* Mutant of IsReuse: any refresh token that is not live raises the alarm.
IsReuseAny(acc, k) == acc.tokens[k].st # "live"

\* A refresh token that was already exchanged is presented.
IsReuse(acc, k) == acc.tokens[k].st = "rotated"

\* refresh exchanges the refresh token of pair k, unless its device was
\* signed out or the clock is behind the device's cut-off time.
CanRefresh(acc, k, t) ==
    /\ acc.tokens[k].st = "live"
    /\ acc.tokens[k].dev \in acc.active
    /\ t >= acc.devCutoff[acc.tokens[k].dev]

Refresh(acc, k, t) ==
    LET d == acc.tokens[k].dev
        rotated == [acc EXCEPT !.tokens[k].st = "rotated"]
    IN RaiseCutoff(Issue(rotated, d, t), {d}, t)
=============================================================================
