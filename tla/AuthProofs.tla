---------------------------- MODULE AuthProofs ----------------------------
(***************************************************************************)
(* Theorems about AuthSession.  First: a device has one session at a time  *)
(* (OneSession), for any devices, calls, clocks and faults.  Second: what  *)
(* a device can rely on as long as its calls do not overlap.  Third: an    *)
(* access token that was refused stays refused.                            *)
(***************************************************************************)
EXTENDS AuthSession, TLAPS, FiniteSetTheorems

(* What OneSession says of one account. *)
Single(a) ==
    \A k \in DOMAIN a.tokens : a.tokens[k].st = "live" =>
        /\ a.tokens[k].dev \in a.active
        /\ \A j \in DOMAIN a.tokens :
               a.tokens[j].st = "live" /\ a.tokens[j].dev = a.tokens[k].dev => j = k

Sound(a) == a \in Account /\ Single(a)

(* No device in ds has a refresh token that works. *)
SignedOut(a, ds) == \A k \in DOMAIN a.tokens : a.tokens[k].dev \in ds => a.tokens[k].st # "live"

-----------------------------------------------------------------------------
(* The transactions of the server keep the account sound.                  *)

LEMMA AccountFields ==
    ASSUME NEW a \in Account
    PROVE  /\ a.tokens \in Seq(Pair)
           /\ Len(a.tokens) \in Nat
           /\ DOMAIN a.tokens = 1 .. Len(a.tokens)
           /\ a.known \subseteq Device /\ a.active \subseteq Device
           /\ a.devCutoff \in [Device -> Nat] /\ a.userCutoff \in Nat
           /\ a.deleted \in BOOLEAN
  BY DEF Account

LEMMA PairFields ==
    ASSUME NEW a \in Account, NEW k \in DOMAIN a.tokens
    PROVE  /\ a.tokens[k] \in Pair
           /\ a.tokens[k].dev \in Device
           /\ a.tokens[k].st \in {"live", "rotated", "ended"}
           /\ a.tokens[k].iat \in Nat
           /\ a.tokens[k].fresh \in BOOLEAN
<1>1. a.tokens \in Seq(Pair)
  BY AccountFields
<1>2. a.tokens[k] \in Pair
  BY <1>1
<1> QED
  BY <1>2 DEF Pair

LEMMA EndTokensEnds ==
    ASSUME NEW a, Sound(a), NEW ds \in SUBSET Device
    PROVE  /\ Sound(EndTokens(a, ds))
           /\ SignedOut(EndTokens(a, ds), ds)
           /\ EndTokens(a, ds).active = a.active
           /\ EndTokens(a, ds).known = a.known
           /\ Len(EndTokens(a, ds).tokens) = Len(a.tokens)
<1> DEFINE end(k) == IF a.tokens[k].dev \in ds /\ a.tokens[k].st = "live"
                     THEN [a.tokens[k] EXCEPT !.st = "ended"] ELSE a.tokens[k]
           s == [k \in DOMAIN a.tokens |-> end(k)]
           b == EndTokens(a, ds)
<1>1. a \in Account /\ Single(a)
  BY DEF Sound
<1>2. b = [a EXCEPT !.tokens = s]
  BY DEF EndTokens
<1>3. ASSUME NEW k \in DOMAIN a.tokens
      PROVE  /\ end(k) \in Pair /\ end(k).dev = a.tokens[k].dev
             /\ end(k).st = "live" => a.tokens[k].st = "live" /\ a.tokens[k].dev \notin ds
  <2>1. a.tokens[k] \in Pair
    BY <1>1, PairFields
  <2> QED
    BY <2>1 DEF Pair
<1>4. s \in Seq(Pair) /\ Len(s) = Len(a.tokens) /\ DOMAIN s = DOMAIN a.tokens
  <2>1. DOMAIN a.tokens = 1 .. Len(a.tokens) /\ Len(a.tokens) \in Nat
    BY <1>1, AccountFields
  <2> QED
    BY <2>1, <1>3
<1>5. \A k \in DOMAIN s : s[k] = end(k)
  BY <1>4
<1> HIDE DEF s, end, b
<1>6. /\ b \in Account /\ b.tokens = s /\ b.active = a.active /\ b.known = a.known
  BY <1>1, <1>2, <1>4 DEF Account
<1>7. Single(b) /\ SignedOut(b, ds)
  BY <1>1, <1>3, <1>4, <1>5, <1>6 DEF Single, SignedOut
<1> QED
  BY <1>4, <1>6, <1>7 DEF Sound, b

(* A later cut-off time leaves tokens and devices as they are. *)
LEMMA CutoffOnly ==
    ASSUME NEW a, Sound(a), NEW ds \in SUBSET Device, NEW t \in Nat
    PROVE  /\ Sound(RaiseCutoff(a, ds, t))
           /\ RaiseCutoff(a, ds, t).tokens = a.tokens
           /\ RaiseCutoff(a, ds, t).active = a.active
<1> DEFINE f == [d \in Device |-> IF d \in ds \cap a.known
                                  THEN Later(a.devCutoff[d], t) ELSE a.devCutoff[d]]
           b == RaiseCutoff(a, ds, t)
<1>1. a \in Account /\ Single(a)
  BY DEF Sound
<1>2. b = [a EXCEPT !.devCutoff = f]
  BY DEF RaiseCutoff
<1>3. f \in [Device -> Nat]
  BY <1>1, AccountFields DEF Later
<1> HIDE DEF f, b
<1>4. b \in Account /\ b.tokens = a.tokens /\ b.active = a.active
  BY <1>1, <1>2, <1>3 DEF Account
<1>5. Single(b)
  BY <1>1, <1>4 DEF Single
<1> QED
  BY <1>4, <1>5 DEF Sound, b

LEMMA DeactivateSound ==
    ASSUME NEW a, Sound(a), NEW ds \in SUBSET Device, SignedOut(a, ds)
    PROVE  /\ Sound(Deactivate(a, ds))
           /\ Deactivate(a, ds).tokens = a.tokens
<1> DEFINE b == Deactivate(a, ds)
<1>1. a \in Account /\ Single(a)
  BY DEF Sound
<1>2. b = [a EXCEPT !.active = a.active \ ds]
  BY DEF Deactivate
<1>3. a.active \ ds \in SUBSET Device
  BY <1>1, AccountFields
<1> HIDE DEF b
<1>4. b \in Account /\ b.tokens = a.tokens /\ b.active = a.active \ ds
  BY <1>1, <1>2, <1>3 DEF Account
<1>5. Single(b)
  BY <1>1, <1>4, PairFields DEF Single, SignedOut
<1> QED
  BY <1>4, <1>5 DEF Sound, b

(* A token may be issued to an active device that has none. *)
LEMMA IssueSound ==
    ASSUME NEW a, Sound(a), NEW d \in a.active, NEW t \in Nat, SignedOut(a, {d})
    PROVE  /\ Sound(Issue(a, d, t))
           /\ Issue(a, d, t).active = a.active
           /\ Len(Issue(a, d, t).tokens) = Len(a.tokens) + 1
<1> DEFINE new == [dev |-> d, st |-> "live", iat |-> t, fresh |-> TRUE]
           s == Append(a.tokens, new)
           b == Issue(a, d, t)
<1>1. a \in Account /\ Single(a)
  BY DEF Sound
<1>2. b = [a EXCEPT !.tokens = s]
  BY DEF Issue
<1>3. new \in Pair /\ new.dev = d
  BY <1>1, AccountFields DEF Pair
<1> HIDE DEF new
<1>4. /\ s \in Seq(Pair) /\ Len(s) = Len(a.tokens) + 1
      /\ DOMAIN s = DOMAIN a.tokens \cup {Len(a.tokens) + 1}
      /\ \A k \in DOMAIN a.tokens : s[k] = a.tokens[k]
      /\ s[Len(a.tokens) + 1] = new /\ Len(a.tokens) + 1 \notin DOMAIN a.tokens
  BY <1>1, <1>3, AccountFields
<1> HIDE DEF s, b
<1>5. b \in Account /\ b.tokens = s /\ b.active = a.active
  BY <1>1, <1>2, <1>4 DEF Account
<1>6. \A k \in DOMAIN a.tokens : a.tokens[k].dev = d => a.tokens[k].st # "live"
  BY DEF SignedOut
<1>7. Single(b)
  BY <1>1, <1>3, <1>4, <1>5, <1>6 DEF Single
<1> QED
  BY <1>4, <1>5, <1>7 DEF Sound, b

LEMMA LoginSound ==
    ASSUME NEW a, Sound(a), NEW d \in Device, NEW t \in Nat
    PROVE  Sound(Login(a, d, t)) /\ Len(Login(a, d, t).tokens) = Len(a.tokens) + 1
<1> DEFINE ended == EndTokens(a, {d})
           row == [ended EXCEPT !.known = ended.known \cup {d},
                                !.active = ended.active \cup {d}]
           cut == RaiseCutoff(row, {d}, t)
           at == cut.devCutoff[d]
<1>1. /\ Sound(ended) /\ SignedOut(ended, {d})
      /\ Len(ended.tokens) = Len(a.tokens)
  BY EndTokensEnds
<1>2. Login(a, d, t) = Issue(cut, d, at)
  BY DEF Login
<1> HIDE DEF ended
<1>3. ended \in Account /\ Single(ended)
  BY <1>1 DEF Sound
<1>4. /\ row \in Account /\ row.tokens = ended.tokens
      /\ row.active = ended.active \cup {d}
  BY <1>3 DEF Account
<1> HIDE DEF row
<1>5. Sound(row) /\ SignedOut(row, {d})
  BY <1>1, <1>3, <1>4 DEF Sound, Single, SignedOut
<1>6. Sound(cut) /\ cut.tokens = row.tokens /\ cut.active = row.active
  BY <1>5, CutoffOnly
<1>7. SignedOut(cut, {d})
  BY <1>5, <1>6 DEF SignedOut
<1>8. at \in Nat
  BY <1>6, AccountFields DEF Sound
<1> HIDE DEF cut, at
<1>9. d \in cut.active
  BY <1>4, <1>6
<1>10. Sound(Issue(cut, d, at)) /\ Len(Issue(cut, d, at).tokens) = Len(cut.tokens) + 1
  BY <1>6, <1>7, <1>8, <1>9, IssueSound
<1> QED
  BY <1>1, <1>2, <1>4, <1>6, <1>10

LEMMA EndSessionSound ==
    ASSUME NEW a, Sound(a), NEW d \in Device, NEW t \in Nat
    PROVE  Sound(EndSession(a, d, t)) /\ Len(EndSession(a, d, t).tokens) = Len(a.tokens)
<1> DEFINE ended == EndTokens(a, {d})
           off == Deactivate(ended, {d})
<1>1. Sound(ended) /\ SignedOut(ended, {d}) /\ Len(ended.tokens) = Len(a.tokens)
  BY EndTokensEnds
<1>2. EndSession(a, d, t) = RaiseCutoff(off, {d}, t)
  BY DEF EndSession
<1> HIDE DEF ended
<1>3. Sound(off) /\ off.tokens = ended.tokens
  BY <1>1, DeactivateSound
<1> HIDE DEF off
<1> QED
  BY <1>1, <1>2, <1>3, CutoffOnly

LEMMA EndAllSessionsSound ==
    ASSUME NEW a, Sound(a), NEW t \in Nat
    PROVE  Sound(EndAllSessions(a, t)) /\ Len(EndAllSessions(a, t).tokens) = Len(a.tokens)
<1> DEFINE ended == EndTokens(a, Device)
           off == Deactivate(ended, Device)
           cut == RaiseCutoff(off, Device, t)
           b == EndAllSessions(a, t)
<1>1. Sound(ended) /\ SignedOut(ended, Device) /\ Len(ended.tokens) = Len(a.tokens)
  BY EndTokensEnds
<1>2. b = [cut EXCEPT !.userCutoff = Later(cut.userCutoff, t)]
  BY DEF EndAllSessions
<1> HIDE DEF ended
<1>3. Sound(off) /\ off.tokens = ended.tokens
  BY <1>1, DeactivateSound
<1> HIDE DEF off
<1>4. Sound(cut) /\ cut.tokens = off.tokens
  BY <1>3, CutoffOnly
<1> HIDE DEF cut, b
<1>5. cut \in Account /\ Single(cut) /\ Later(cut.userCutoff, t) \in Nat
  BY <1>4, AccountFields DEF Sound, Later
<1>6. b \in Account /\ b.tokens = cut.tokens /\ b.active = cut.active
  BY <1>2, <1>5 DEF Account
<1> QED
  BY <1>1, <1>3, <1>4, <1>5, <1>6 DEF Sound, Single, b

LEMMA DeleteAccountSound ==
    ASSUME NEW a, Sound(a), NEW t \in Nat
    PROVE  Sound(DeleteAccount(a, t)) /\ Len(DeleteAccount(a, t).tokens) = Len(a.tokens)
<1> DEFINE ended == EndAllSessions(a, t)
           b == DeleteAccount(a, t)
<1>1. Sound(ended) /\ Len(ended.tokens) = Len(a.tokens)
  BY EndAllSessionsSound
<1>2. b = [ended EXCEPT !.deleted = TRUE]
  BY DEF DeleteAccount
<1> HIDE DEF ended, b
<1>3. b \in Account /\ b.tokens = ended.tokens /\ b.active = ended.active
  BY <1>1, <1>2 DEF Sound, Account
<1> QED
  BY <1>1, <1>3 DEF Sound, Single, b

(* A token that no longer works, for whatever reason, leaves the account sound. *)
LEMMA RetireSound ==
    ASSUME NEW a, Sound(a), NEW k \in DOMAIN a.tokens, NEW p \in Pair,
           p.dev = a.tokens[k].dev, p.st \in {a.tokens[k].st, "rotated", "ended"},
           NEW b, b = [a EXCEPT !.tokens[k] = p]
    PROVE  /\ Sound(b) /\ b.active = a.active /\ Len(b.tokens) = Len(a.tokens)
           /\ DOMAIN b.tokens = DOMAIN a.tokens
           /\ \A j \in DOMAIN a.tokens : b.tokens[j] = IF j = k THEN p ELSE a.tokens[j]
<1> DEFINE s == [a.tokens EXCEPT ![k] = p]
<1>1. a \in Account /\ Single(a)
  BY DEF Sound
<1>2. b = [a EXCEPT !.tokens = s]
  OBVIOUS
<1>3. /\ s \in Seq(Pair) /\ Len(s) = Len(a.tokens) /\ DOMAIN s = DOMAIN a.tokens
      /\ \A j \in DOMAIN a.tokens : s[j] = IF j = k THEN p ELSE a.tokens[j]
  BY <1>1, AccountFields
<1> HIDE DEF s
<1>4. b \in Account /\ b.tokens = s /\ b.active = a.active
  BY <1>1, <1>2, <1>3 DEF Account
<1>5. Single(b)
  BY <1>1, <1>3, <1>4 DEF Single
<1> QED
  BY <1>3, <1>4, <1>5 DEF Sound

LEMMA RefreshSound ==
    ASSUME NEW a, Sound(a), NEW k \in DOMAIN a.tokens, NEW t \in Nat, CanRefresh(a, k, t)
    PROVE  Sound(Refresh(a, k, t)) /\ Len(Refresh(a, k, t).tokens) = Len(a.tokens) + 1
<1> DEFINE d == a.tokens[k].dev
           p == [a.tokens[k] EXCEPT !.st = "rotated"]
           rotated == [a EXCEPT !.tokens[k] = p]
           issued == Issue(rotated, d, t)
<1>1. a \in Account /\ Single(a)
  BY DEF Sound
<1>2. p \in Pair /\ p.dev = d /\ p.st = "rotated" /\ d \in Device
  BY <1>1, PairFields DEF Pair
<1>3. a.tokens[k].st = "live" /\ d \in a.active
  BY DEF CanRefresh
<1>4. Refresh(a, k, t) = RaiseCutoff(issued, {d}, t)
  BY DEF Refresh
<1> HIDE DEF p
<1>5. /\ Sound(rotated) /\ rotated.active = a.active /\ Len(rotated.tokens) = Len(a.tokens)
      /\ DOMAIN rotated.tokens = DOMAIN a.tokens
      /\ \A j \in DOMAIN a.tokens : rotated.tokens[j] = IF j = k THEN p ELSE a.tokens[j]
  BY <1>2, RetireSound
<1> HIDE DEF rotated
<1>6. SignedOut(rotated, {d})
  BY <1>1, <1>2, <1>3, <1>5 DEF SignedOut, Single
<1>7. Sound(issued) /\ Len(issued.tokens) = Len(a.tokens) + 1
  BY <1>3, <1>5, <1>6, IssueSound
<1> HIDE DEF issued
<1> QED
  BY <1>2, <1>4, <1>7, CutoffOnly

-----------------------------------------------------------------------------
(* The invariant.  HandleRefresh looks up the pair that its call presents, *)
(* so that every refresh on its way must present one; a call that is       *)
(* ending knows the state that it will show.                               *)

CallAt(n) == [pc : {"idle", "send", "admitted", "reply", "memory", "state"},
              op : {"none", "login", "refresh", "logout", "password", "remove", "delete"},
              then : {"none", "password", "remove", "delete"},
              tok : 0 .. n, time : Nat, put : 0 .. n, end : AuthState \cup {"none"}]

Ready(r) == /\ r.pc = "send" /\ r.op = "refresh" => r.tok # NoToken
            /\ r.pc \in {"reply", "memory", "state"} => r.end \in AuthState

(* What the devices keep, when n pairs were issued. *)
Devices(n) ==
    /\ mem \in [Device -> 0 .. n] /\ file \in [Device -> 0 .. n]
    /\ state \in [Device -> AuthState]

Calls(n) == call \in [Call -> CallAt(n)] /\ \A c \in Call : Ready(call[c])

Rest ==
    /\ clock \in ClockKind /\ now \in Nat
    /\ requests \in Nat /\ faults \in Nat
    /\ astray \subseteq Device /\ unsure \in BOOLEAN /\ alarm \in BOOLEAN

AInv == /\ Sound(acc)
        /\ Devices(Len(acc.tokens))
        /\ Calls(Len(acc.tokens))
        /\ Rest

LEMMA AInvMeaning == AInv => TypeOK /\ OneSession
  BY DEF AInv, Sound, Single, Devices, Calls, Rest, CallAt, TypeOK, OneSession

LEMMA Tokens == ASSUME AInv PROVE acc \in Account /\ Len(acc.tokens) \in Nat
  BY AccountFields DEF AInv, Sound

LEMMA OwnerDevice == ASSUME NEW c \in Call PROVE Owner[c] \in Device
  BY AuthAssumption DEF AuthAssumption

LEMMA QuietCall == ASSUME NEW n \in Nat PROVE Quiet \in CallAt(n) /\ Ready(Quiet)
  BY DEF Quiet, CallAt, Ready, NoToken, AuthState

(* One call moves: the others have what they had. *)
LEMMA CallMoves ==
    ASSUME NEW n \in Nat, NEW m \in Nat, n <= m, Calls(n),
           NEW c \in Call, NEW r \in CallAt(m), Ready(r), Goto(c, r)
    PROVE  Calls(m)'
<1>1. \A q \in CallAt(n) : q \in CallAt(m)
  BY DEF CallAt
<1> QED
  BY <1>1 DEF Calls, Goto

LEMMA CallsStay == ASSUME NEW n \in Nat, NEW m \in Nat, n <= m, Calls(n), UNCHANGED call
                   PROVE  Calls(m)'
<1>1. \A q \in CallAt(n) : q \in CallAt(m)
  BY DEF CallAt
<1> QED
  BY <1>1 DEF Calls

LEMMA DevicesStay ==
    ASSUME NEW n \in Nat, NEW m \in Nat, n <= m, Devices(n), UNCHANGED client
    PROVE  Devices(m)'
<1>1. 0 .. n \subseteq 0 .. m
  OBVIOUS
<1> QED
  BY <1>1 DEF Devices, client

LEMMA ReadingTyped == ASSUME AInv, NEW t \in Readings, Reads(t) PROVE t \in Nat /\ now' \in Nat
  BY AuthAssumption DEF AuthAssumption, AInv, Rest, Readings, Reads

(* A step of one call that leaves the account alone. *)
LEMMA ClientStep ==
    ASSUME AInv, UNCHANGED acc, Rest', Devices(Len(acc.tokens))',
           NEW c \in Call, NEW r \in CallAt(Len(acc.tokens)), Ready(r), Goto(c, r)
    PROVE  AInv'
<1> DEFINE n == Len(acc.tokens)
<1>1. n \in Nat /\ n' = n /\ Calls(n) /\ Sound(acc)'
  BY Tokens DEF AInv
<1> HIDE DEF n
<1>2. Calls(n)'
  <2>1. \A m \in Nat : n <= m /\ r \in CallAt(m) => Calls(m)'
    BY <1>1, CallMoves
  <2> QED
    BY <1>1, <2>1 DEF n
<1> QED
  BY <1>1, <1>2 DEF AInv, n

(* A step of one call in which the server changes the account. *)
LEMMA ServerStep ==
    ASSUME AInv, Rest', UNCHANGED client, Sound(acc'),
           Len(acc'.tokens) >= Len(acc.tokens),
           NEW c \in Call, NEW r \in CallAt(Len(acc'.tokens)), Ready(r), Goto(c, r)
    PROVE  AInv'
<1> DEFINE n == Len(acc.tokens)
           m == Len(acc'.tokens)
<1>1. n \in Nat /\ m \in Nat /\ n <= m /\ Calls(n) /\ Devices(n)
  BY Tokens, AccountFields DEF AInv, Sound
<1> HIDE DEF n, m
<1>2. r \in CallAt(m)
  BY DEF m
<1>3. \A k \in Nat : k = m => Calls(k)' /\ Devices(k)'
  BY <1>1, <1>2, CallMoves, DevicesStay
<1> QED
  BY <1>1, <1>3 DEF AInv, m

-----------------------------------------------------------------------------

LEMMA Initially == Init => AInv
<1> SUFFICES ASSUME Init PROVE AInv
  OBVIOUS
<1> DEFINE n == Len(SignedIn)
           pair(k) == [dev |-> SignedIn[k], st |-> "live", iat |-> 0, fresh |-> TRUE]
           s == [k \in DOMAIN SignedIn |-> pair(k)]
           first == {SignedIn[k] : k \in DOMAIN SignedIn}
<1>1. /\ SignedIn \in Seq(Device) /\ n \in Nat /\ DOMAIN SignedIn = 1 .. n
      /\ \A j, k \in DOMAIN SignedIn : SignedIn[j] = SignedIn[k] => j = k
  BY AuthAssumption DEF AuthAssumption
<1>2. \A k \in DOMAIN SignedIn : pair(k) \in Pair /\ SignedIn[k] \in first
  BY <1>1 DEF Pair
<1>3. s \in Seq(Pair) /\ Len(s) = n /\ DOMAIN s = DOMAIN SignedIn
  BY <1>1, <1>2
<1>4. acc = [NewAccount EXCEPT !.known = first, !.active = first, !.tokens = s]
  BY DEF Init
<1>5. first \in SUBSET Device
  BY <1>1
<1> HIDE DEF first
<1>6. \A k \in DOMAIN s : s[k].dev = SignedIn[k]
  BY <1>3
<1> HIDE DEF s
<1>7. acc \in Account /\ acc.tokens = s /\ acc.active = first
  BY <1>3, <1>4, <1>5 DEF NewAccount, Account
<1>8. Sound(acc)
  BY <1>1, <1>2, <1>3, <1>6, <1>7 DEF Sound, Single
<1>9. mem \in [Device -> 0 .. n] /\ state \in [Device -> AuthState] /\ file = mem
  <2>1. mem = [d \in Device |-> IF d \in first
                        THEN CHOOSE k \in DOMAIN SignedIn : SignedIn[k] = d ELSE NoToken]
    BY DEF Init, first
  <2>2. \A d \in first : (CHOOSE k \in DOMAIN SignedIn : SignedIn[k] = d) \in DOMAIN SignedIn
    BY DEF first
  <2>3. state = [d \in Device |-> IF d \in first THEN "Authenticated" ELSE "LoggedOut"]
    BY DEF Init, first
  <2> QED
    BY <1>1, <2>1, <2>2, <2>3 DEF Init, NoToken, AuthState
<1>10. Calls(n)
  BY <1>1, QuietCall DEF Init, Calls
<1>11. Rest
  BY AuthAssumption DEF AuthAssumption, Init, Rest
<1> QED
  BY <1>3, <1>7, <1>8, <1>9, <1>10, <1>11 DEF AInv, Devices

(* What is sent: a pair is presented that was issued. *)
LEMMA RequestStep ==
    ASSUME AInv, UNCHANGED <<acc, clock, now, faults, alarm, unsure>>,
           astray' \subseteq Device, Devices(Len(acc.tokens))',
           NEW c \in Call, NEW op, NEW then, NEW tok \in 0 .. Len(acc.tokens),
           op \in {"login", "refresh", "logout", "password", "remove", "delete"},
           then \in {"none", "password", "remove", "delete"},
           op = "refresh" => tok # NoToken, Request(c, op, tok, then)
    PROVE  AInv'
<1> DEFINE r == [Quiet EXCEPT !.pc = "send", !.op = op, !.tok = tok, !.then = then]
<1>1. r \in CallAt(Len(acc.tokens)) /\ Ready(r)
  <2>1. Quiet \in CallAt(Len(acc.tokens))
    BY Tokens, QuietCall
  <2>2. r \in CallAt(Len(acc.tokens))
    BY <2>1 DEF CallAt
  <2>3. r.pc = "send" /\ r.op = op /\ r.tok = tok
    BY <2>1 DEF CallAt
  <2> QED
    BY <2>2, <2>3 DEF Ready
<1>2. Goto(c, r) /\ requests' = requests + 1
  BY DEF Request
<1> HIDE DEF r
<1>3. Rest'
  BY <1>2 DEF AInv, Rest
<1> QED
  BY <1>1, <1>2, <1>3, ClientStep

LEMMA StartKeeps == ASSUME AInv, NEW c \in Call, Start(c) PROVE AInv'
<1> DEFINE n == Len(acc.tokens)
           d == Owner[c]
<1>1. Begin(c)
  BY DEF Start, StartLogin, StartRefresh, StartLogout, GetValidToken
<1>2. /\ UNCHANGED <<acc, clock, now, faults, alarm, unsure>> /\ UNCHANGED client
      /\ astray' \subseteq Device
  BY <1>1, OwnerDevice DEF Begin, server, AInv, Rest
<1>3. n \in Nat /\ mem[d] \in 0 .. n /\ NoToken \in 0 .. n /\ Devices(n) /\ n' = n
  BY <1>2, Tokens, OwnerDevice DEF AInv, Devices, NoToken
<1>4. Devices(n)'
  BY <1>2, <1>3 DEF Devices, client
<1>5. CASE \/ Request(c, "login", NoToken, "none")
           \/ mem[d] # NoToken /\ Request(c, "refresh", mem[d], "none")
           \/ Request(c, "logout", mem[d], "none")
  BY <1>2, <1>3, <1>4, <1>5, RequestStep
<1>6. CASE \E then \in {"password", "remove", "delete"} : mem[d] # NoToken
              /\ (Request(c, then, mem[d], "none") \/ Request(c, "refresh", mem[d], then))
  BY <1>2, <1>3, <1>4, <1>6, RequestStep
<1>7. CASE /\ Goto(c, [Quiet EXCEPT !.pc = "reply", !.op = "logout", !.end = "LoggedOut"])
           /\ UNCHANGED requests
  <2> DEFINE r == [Quiet EXCEPT !.pc = "reply", !.op = "logout", !.end = "LoggedOut"]
  <2>1. r \in CallAt(n) /\ Ready(r)
    BY <1>3 DEF CallAt, Ready, Quiet, NoToken, AuthState
  <2>2. Goto(c, r) /\ Rest'
    BY <1>2, <1>7 DEF AInv, Rest
  <2> HIDE DEF r
  <2> QED
    BY <1>2, <1>4, <2>1, <2>2, ClientStep
<1> QED
  BY <1>5, <1>6, <1>7 DEF Start, StartLogin, StartRefresh, StartLogout, GetValidToken

(* The reply of a call. *)
LEMMA ReplyRecord ==
    ASSUME NEW n \in Nat, NEW q \in CallAt(n), NEW m \in Nat, n <= m, NEW put \in 0 .. m,
           NEW end \in AuthState
    PROVE  /\ [q EXCEPT !.pc = "reply", !.put = put, !.end = end] \in CallAt(m)
           /\ Ready([q EXCEPT !.pc = "reply", !.put = put, !.end = end])
<1> DEFINE r == [q EXCEPT !.pc = "reply", !.put = put, !.end = end]
<1>1. q \in CallAt(m)
  BY DEF CallAt
<1>2. r \in CallAt(m)
  BY <1>1 DEF CallAt
<1>3. r.pc = "reply" /\ r.end = end
  BY DEF CallAt
<1> QED
  BY <1>2, <1>3 DEF Ready

LEMMA CallFields ==
    ASSUME AInv, NEW c \in Call
    PROVE  /\ call[c] \in CallAt(Len(acc.tokens)) /\ Ready(call[c])
           /\ call[c].time \in Nat
           /\ call[c].tok \in 0 .. Len(acc.tokens) /\ call[c].put \in 0 .. Len(acc.tokens)
  BY DEF AInv, Calls, CallAt

(* A transaction of the server, answered with the pair put. *)
LEMMA ReplyStep ==
    ASSUME AInv, Rest', UNCHANGED client, Sound(acc'),
           Len(acc'.tokens) >= Len(acc.tokens),
           NEW c \in Call, NEW put \in 0 .. Len(acc'.tokens), NEW end \in AuthState,
           Reply(c, put, end)
    PROVE  AInv'
<1> DEFINE r == [call[c] EXCEPT !.pc = "reply", !.put = put, !.end = end]
<1>1. Len(acc.tokens) \in Nat /\ Len(acc'.tokens) \in Nat
  BY Tokens, AccountFields DEF Sound
<1>2. r \in CallAt(Len(acc'.tokens)) /\ Ready(r)
  BY <1>1, CallFields, ReplyRecord
<1>3. Goto(c, r)
  BY DEF Reply
<1> HIDE DEF r
<1> QED
  BY <1>2, <1>3, ServerStep

(* A transaction of the server after which the device has nothing to do. *)
LEMMA QuietStep ==
    ASSUME AInv, Rest', UNCHANGED client, Sound(acc'),
           Len(acc'.tokens) >= Len(acc.tokens), NEW c \in Call, Goto(c, Quiet)
    PROVE  AInv'
<1>1. Quiet \in CallAt(Len(acc'.tokens)) /\ Ready(Quiet)
  BY QuietCall, AccountFields DEF Sound
<1> QED
  BY <1>1, ServerStep

LEMMA AdmitKeeps == ASSUME AInv, NEW c \in Call, Admit(c) PROVE AInv'
<1>1. /\ UNCHANGED <<acc, clock, requests, faults, astray, unsure, alarm>>
      /\ UNCHANGED client
  BY DEF Admit, Handling, history
<1>2. Sound(acc') /\ Len(acc.tokens) \in Nat /\ Len(acc'.tokens) = Len(acc.tokens)
  BY <1>1, Tokens DEF AInv
<1>3. CASE \E t \in Readings :
              Reads(t) /\ Goto(c, [call[c] EXCEPT !.pc = "admitted", !.time = t])
  <2> PICK t \in Readings : Reads(t) /\ Goto(c, [call[c] EXCEPT !.pc = "admitted", !.time = t])
    BY <1>3
  <2>1. t \in Nat /\ now' \in Nat
    BY ReadingTyped
  <2> DEFINE r == [call[c] EXCEPT !.pc = "admitted", !.time = t]
  <2>2. r \in CallAt(Len(acc'.tokens)) /\ Ready(r)
    BY <1>2, <2>1, CallFields DEF CallAt, Ready
  <2>3. Goto(c, r)
    OBVIOUS
  <2> HIDE DEF r
  <2>4. Rest'
    BY <1>1, <2>1 DEF AInv, Rest
  <2> QED
    BY <1>1, <1>2, <2>2, <2>3, <2>4, ServerStep
<1>4. CASE UNCHANGED now /\ (Reply(c, NoToken, "LoggedOut") \/ Goto(c, Quiet))
  <2>1. Rest'
    BY <1>1, <1>4 DEF AInv, Rest
  <2>2. NoToken \in 0 .. Len(acc'.tokens) /\ "LoggedOut" \in AuthState
    BY <1>2 DEF NoToken, AuthState
  <2> QED
    BY <1>1, <1>2, <1>4, <2>1, <2>2, ReplyStep, QuietStep
<1> QED
  BY <1>3, <1>4 DEF Admit

LEMMA CommitKeeps ==
    ASSUME AInv, NEW c \in Call,
           \/ CommitLogin(c) \/ CommitLogout(c)
           \/ CommitPassword(c) \/ CommitRemove(c) \/ CommitDelete(c)
    PROVE  AInv'
<1>1. /\ UNCHANGED <<clock, now, requests, faults, astray, unsure, alarm>>
      /\ UNCHANGED client
  BY DEF CommitLogin, CommitLogout, CommitPassword, CommitRemove, CommitDelete,
         Committing, history
<1>2. Rest' /\ Sound(acc) /\ call[c].time \in Nat /\ Owner[c] \in Device
      /\ Len(acc.tokens) \in Nat
  BY <1>1, CallFields, OwnerDevice, Tokens DEF AInv, Rest
<1>3. CASE CommitLogin(c)
  <2>1. acc' = Login(acc, Owner[c], call[c].time) /\ Reply(c, Len(acc'.tokens), "Authenticated")
    BY <1>3 DEF CommitLogin
  <2>2. Sound(acc') /\ Len(acc'.tokens) = Len(acc.tokens) + 1
    BY <1>2, <2>1, LoginSound
  <2>3. /\ Len(acc'.tokens) \in 0 .. Len(acc'.tokens) /\ "Authenticated" \in AuthState
        /\ Len(acc'.tokens) >= Len(acc.tokens)
    BY <1>2, <2>2 DEF AuthState
  <2> QED
    BY <1>1, <1>2, <2>1, <2>2, <2>3, ReplyStep
<1>4. CASE CommitLogout(c)
  <2>1. /\ acc' = EndSession(acc, Owner[c], call[c].time)
        /\ Reply(c, NoToken, "LoggedOut")
    BY <1>4 DEF CommitLogout
  <2>2. Sound(acc') /\ Len(acc'.tokens) = Len(acc.tokens)
    BY <1>2, <2>1, EndSessionSound
  <2>3. /\ NoToken \in 0 .. Len(acc'.tokens) /\ "LoggedOut" \in AuthState
        /\ Len(acc'.tokens) >= Len(acc.tokens)
    BY <1>2, <2>2 DEF NoToken, AuthState
  <2> QED
    BY <1>1, <1>2, <2>1, <2>2, <2>3, ReplyStep
<1>5. CASE CommitPassword(c) \/ CommitRemove(c) \/ CommitDelete(c)
  <2>1. /\ Goto(c, Quiet)
        /\ \/ acc' = EndAllSessions(acc, call[c].time)
           \/ \E d \in Device : acc' = EndSession(acc, d, call[c].time)
           \/ acc' = DeleteAccount(acc, call[c].time)
    BY <1>5 DEF CommitPassword, CommitRemove, CommitDelete
  <2>2. Sound(acc') /\ Len(acc'.tokens) = Len(acc.tokens)
    BY <1>2, <2>1, EndAllSessionsSound, EndSessionSound, DeleteAccountSound
  <2>3. Len(acc'.tokens) >= Len(acc.tokens)
    BY <1>2, <2>2
  <2> QED
    BY <1>1, <1>2, <2>1, <2>2, <2>3, QuietStep
<1> QED
  BY <1>3, <1>4, <1>5

LEMMA RefreshKeeps == ASSUME AInv, NEW c \in Call, HandleRefresh(c) PROVE AInv'
<1> DEFINE k == call[c].tok
<1> PICK t \in Readings :
        /\ Reads(t)
        /\ IF CanRefresh(acc, k, t)
           THEN acc' = Refresh(acc, k, t) /\ UNCHANGED alarm
           ELSE IF IsReuse(acc, k)
           THEN acc' = EndAllSessions(acc, t) /\ alarm' = TRUE
           ELSE UNCHANGED <<acc, alarm>>
        /\ IF CanRefresh(acc, k, t)
           THEN Reply(c, Len(acc'.tokens), "Authenticated")
           ELSE Reply(c, NoToken, "NeedsReLogin")
  BY DEF HandleRefresh
<1>1. t \in Nat /\ now' \in Nat
  BY ReadingTyped
<1>2. UNCHANGED <<clock, requests, faults, astray, unsure>> /\ UNCHANGED client
  BY DEF HandleRefresh, Handling, history
<1>3. alarm' \in BOOLEAN
  BY DEF AInv, Rest
<1>4. Rest' /\ Sound(acc) /\ Len(acc.tokens) \in Nat
  BY <1>1, <1>2, <1>3, Tokens DEF AInv, Rest
<1>5. k \in DOMAIN acc.tokens
  BY CallFields, Tokens, AccountFields DEF HandleRefresh, Handling, Ready, NoToken
<1> HIDE DEF k
<1>6. CASE CanRefresh(acc, k, t)
  <2>1. Sound(acc') /\ Len(acc'.tokens) = Len(acc.tokens) + 1
    BY <1>1, <1>4, <1>5, <1>6, RefreshSound
  <2>2. /\ Len(acc'.tokens) \in 0 .. Len(acc'.tokens) /\ "Authenticated" \in AuthState
        /\ Len(acc'.tokens) >= Len(acc.tokens)
    BY <1>4, <2>1 DEF AuthState
  <2> QED
    BY <1>2, <1>4, <1>6, <2>1, <2>2, ReplyStep
<1>7. CASE ~CanRefresh(acc, k, t)
  <2>1. acc' = EndAllSessions(acc, t) \/ acc' = acc
    BY <1>7
  <2>2. Sound(acc') /\ Len(acc'.tokens) = Len(acc.tokens)
    BY <1>1, <1>4, <2>1, EndAllSessionsSound
  <2>3. /\ NoToken \in 0 .. Len(acc'.tokens) /\ "NeedsReLogin" \in AuthState
        /\ Len(acc'.tokens) >= Len(acc.tokens)
    BY <1>4, <2>2 DEF NoToken, AuthState
  <2> QED
    BY <1>2, <1>4, <1>7, <2>2, <2>3, ReplyStep
<1> QED
  BY <1>6, <1>7

(* The device stores the end of a call: file, then token, then state. *)
LEMMA FinishKeeps == ASSUME AInv, NEW c \in Call, Finish(c) PROVE AInv'
<1> DEFINE n == Len(acc.tokens)
           d == Owner[c]
           q == call[c]
<1>1. /\ UNCHANGED <<acc, clock, now, faults, alarm, astray, unsure>> /\ q.pc # "idle"
      /\ n \in Nat /\ n' = n /\ d \in Device
  BY Tokens, OwnerDevice DEF Finish, StoreFile, StoreToken, StoreState, Ending, server
<1>2. q \in CallAt(n) /\ q.put \in 0 .. n /\ Devices(n)
  BY CallFields DEF AInv
<1>3. q.end \in AuthState
  BY CallFields DEF Ready, Finish, StoreFile, StoreToken, StoreState, Ending
<1>4. CASE StoreFile(c) \/ StoreToken(c)
  <2>1. PICK pc \in {"memory", "state"} : Goto(c, [q EXCEPT !.pc = pc])
    BY <1>4 DEF StoreFile, StoreToken
  <2>2. \/ file' = [file EXCEPT ![d] = q.put] /\ UNCHANGED <<mem, state, requests>>
        \/ mem' = [mem EXCEPT ![d] = q.put] /\ UNCHANGED <<file, state, requests>>
    BY <1>4 DEF StoreFile, StoreToken
  <2> DEFINE r == [q EXCEPT !.pc = pc]
  <2>3. r \in CallAt(n) /\ r.end \in AuthState
    BY <1>2, <1>3 DEF CallAt
  <2>4. Goto(c, r) /\ Ready(r)
    <3>1. r.pc = pc
      BY <1>2 DEF CallAt
    <3> QED
      BY <2>1, <2>3, <3>1 DEF Ready
  <2> HIDE DEF q, r, n
  <2>5. Devices(n)' /\ Rest'
    BY <1>1, <1>2, <2>2 DEF Devices, AInv, Rest
  <2> QED
    BY <1>1, <2>3, <2>4, <2>5, ClientStep DEF n
<1>5. CASE StoreState(c)
  <2>1. /\ state' = [state EXCEPT ![d] = q.end] /\ UNCHANGED <<mem, file>>
        /\ \/ q.then # "none" /\ Request(c, q.then, q.put, "none")
           \/ Goto(c, Quiet) /\ UNCHANGED requests
    BY <1>5 DEF StoreState
  <2>2. q.then \in {"none", "password", "remove", "delete"}
    BY <1>2 DEF CallAt
  <2> HIDE DEF q, n
  <2>3. Devices(n)'
    BY <1>1, <1>2, <1>3, <2>1 DEF Devices
  <2>4. CASE q.then # "none" /\ Request(c, q.then, q.put, "none")
    <3>1. /\ q.then \in {"login", "refresh", "logout", "password", "remove", "delete"}
          /\ q.then # "refresh" /\ "none" \in {"none", "password", "remove", "delete"}
      BY <2>2, <2>4
    <3> QED
      BY <1>1, <1>2, <2>3, <2>4, <3>1, RequestStep DEF n, AInv, Rest
  <2>5. CASE Goto(c, Quiet) /\ UNCHANGED requests
    <3>1. Quiet \in CallAt(n) /\ Ready(Quiet)
      BY <1>1, QuietCall
    <3>2. Rest'
      BY <1>1, <2>5 DEF AInv, Rest
    <3> QED
      BY <1>1, <2>3, <2>5, <3>1, <3>2, ClientStep DEF n
  <2> QED
    BY <2>1, <2>4, <2>5
<1> QED
  BY <1>4, <1>5 DEF Finish

LEMMA LoseKeeps == ASSUME AInv, NEW c \in Call, Lose(c) PROVE AInv'
<1> DEFINE n == Len(acc.tokens)
           r == Failed(c)
<1>1. /\ UNCHANGED <<acc, clock, now, requests, alarm, astray>> /\ UNCHANGED client
      /\ faults' = faults + 1 /\ unsure' = TRUE /\ Goto(c, r) /\ n \in Nat
  BY Tokens DEF Lose, Fault
<1>2. r \in CallAt(n) /\ Ready(r)
  <2> DEFINE kept == [Quiet EXCEPT !.pc = "state", !.op = "refresh", !.end = "NeedsRefresh"]
             left == [Quiet EXCEPT !.pc = "reply", !.op = "logout", !.end = "LoggedOut"]
  <2>1. Quiet \in CallAt(n) /\ Ready(Quiet)
    BY <1>1, QuietCall
  <2>2. kept \in CallAt(n) /\ left \in CallAt(n)
    BY <2>1 DEF CallAt, AuthState
  <2>3. kept.pc = "state" /\ kept.end \in AuthState /\ left.pc = "reply" /\ left.end \in AuthState
    BY <2>1 DEF CallAt, AuthState
  <2>4. Ready(kept) /\ Ready(left)
    BY <2>3 DEF Ready
  <2>5. r = kept \/ r = left \/ r = Quiet
    BY DEF Failed
  <2> QED
    BY <2>1, <2>2, <2>4, <2>5
<1>3. Rest' /\ Devices(n)'
  BY <1>1 DEF AInv, Rest, Devices, client
<1> HIDE DEF r
<1> QED
  BY <1>1, <1>2, <1>3, ClientStep

LEMMA FailWriteKeeps == ASSUME AInv, NEW c \in Call, FailWrite(c) PROVE AInv'
<1> DEFINE n == Len(acc.tokens)
           d == Owner[c]
           q == call[c]
           r == [q EXCEPT !.pc = "memory"]
<1>1. /\ UNCHANGED <<acc, clock, now, requests, alarm, mem, state, unsure>>
      /\ faults' = faults + 1 /\ astray' = astray \cup {d}
      /\ file' = file \/ file' = [file EXCEPT ![d] = NoToken]
      /\ Goto(c, r) \/ Goto(c, Quiet)
  BY DEF FailWrite, Fault
<1>2. n \in Nat /\ d \in Device /\ q \in CallAt(n)
  BY Tokens, OwnerDevice, CallFields
<1>3. r \in CallAt(n) /\ Quiet \in CallAt(n) /\ Ready(Quiet)
  BY <1>2, QuietCall DEF CallAt
<1>4. Ready(r)
  <2>1. q.end \in AuthState
    BY CallFields DEF Ready, FailWrite
  <2>2. r.pc = "memory" /\ r.end = q.end
    BY <1>2 DEF CallAt
  <2> QED
    BY <2>1, <2>2 DEF Ready
<1> HIDE DEF r
<1>5. Rest' /\ Devices(n)'
  BY <1>1, <1>2 DEF AInv, Rest, Devices, NoToken
<1> QED
  BY <1>1, <1>3, <1>4, <1>5, ClientStep

LEMMA RestartKeeps == ASSUME AInv, NEW d \in Device, Restart(d) PROVE AInv'
<1> DEFINE n == Len(acc.tokens)
           cut == {c \in CallsOf(d) : call[c].pc # "idle"}
<1>1. /\ UNCHANGED <<acc, clock, now, requests, alarm, astray>>
      /\ \/ UNCHANGED <<faults, unsure>>
         \/ faults' = faults + 1 /\ unsure' = TRUE
      /\ file' = file \/ file' = [file EXCEPT ![d] = NoToken]
      /\ mem' = [mem EXCEPT ![d] = file'[d]]
      /\ state' = [state EXCEPT ![d] = IF file'[d] # NoToken THEN "NeedsRefresh" ELSE "LoggedOut"]
      /\ call' = [c \in Call |-> IF c \in cut THEN Quiet ELSE call[c]]
  BY DEF Restart, server
<1> HIDE DEF cut
<1>2. n \in Nat /\ n' = n /\ Calls(n) /\ Devices(n) /\ Rest
  BY <1>1, Tokens DEF AInv
<1>3. Quiet \in CallAt(n) /\ Ready(Quiet)
  BY <1>2, QuietCall
<1> HIDE DEF n
<1>4. Calls(n)'
  BY <1>1, <1>2, <1>3 DEF Calls
<1>5. file' \in [Device -> 0 .. n] /\ mem' \in [Device -> 0 .. n]
  BY <1>1, <1>2 DEF Devices, NoToken
<1>6. state' \in [Device -> AuthState]
  BY <1>1, <1>2 DEF Devices, AuthState
<1>7. Rest'
  <2>1. UNCHANGED <<clock, now, requests, alarm, astray>>
    BY <1>1
  <2>2. faults' \in Nat /\ unsure' \in BOOLEAN
    <3>1. CASE UNCHANGED <<faults, unsure>>
      BY <1>2, <3>1 DEF Rest
    <3>2. CASE faults' = faults + 1 /\ unsure' = TRUE
      BY <1>2, <3>2 DEF Rest
    <3> QED
      BY <1>1, <3>1, <3>2
  <2> QED
    BY <1>2, <2>1, <2>2 DEF Rest
<1>8. Devices(n)'
  BY <1>2, <1>5, <1>6 DEF Devices
<1> QED
  BY <1>1, <1>2, <1>4, <1>7, <1>8 DEF AInv, n

LEMMA ExpireKeeps == ASSUME AInv, NEW k \in DOMAIN acc.tokens, Expire(k) PROVE AInv'
<1> DEFINE n == Len(acc.tokens)
           q == acc.tokens[k]
           stale == [q EXCEPT !.fresh = FALSE]
           over == [q EXCEPT !.fresh = FALSE, !.st = "ended"]
<1>1. /\ UNCHANGED <<clock, now, requests, alarm, call, astray, unsure>> /\ UNCHANGED client
      /\ faults' = faults + 1
      /\ acc' = [acc EXCEPT !.tokens[k].fresh = FALSE]
         \/ acc' = [acc EXCEPT !.tokens[k].fresh = FALSE, !.tokens[k].st = "ended"]
  BY DEF Expire, Fault
<1>2. acc \in Account /\ Sound(acc) /\ n \in Nat
  BY Tokens DEF AInv
<1>3. q \in Pair
  BY <1>2, PairFields
<1>4. stale \in Pair /\ stale.dev = q.dev /\ stale.st = q.st
  BY <1>3 DEF Pair
<1>5. over \in Pair /\ over.dev = q.dev /\ over.st = "ended"
  BY <1>3 DEF Pair
<1>6. acc' = [acc EXCEPT !.tokens[k] = stale] \/ acc' = [acc EXCEPT !.tokens[k] = over]
  BY <1>1, <1>2, <1>3 DEF Account, Pair
<1> HIDE DEF stale, over
<1>7. Sound(acc') /\ Len(acc'.tokens) = n
  BY <1>2, <1>4, <1>5, <1>6, RetireSound
<1>8. Devices(n)' /\ Calls(n)' /\ Rest' /\ n' = n
  BY <1>1, <1>2, <1>7, DevicesStay, CallsStay DEF AInv, Rest
<1> QED
  BY <1>7, <1>8 DEF AInv

LEMMA StutterKeeps == ASSUME AInv, UNCHANGED vars PROVE AInv'
<1>1. UNCHANGED <<acc, clock, now, mem, file, state, call, requests, faults, astray,
                  unsure, alarm>>
  BY DEF vars
<1> QED
  BY <1>1 DEF AInv, Sound, Devices, Calls, Rest

LEMMA StepKeeps == AInv /\ [Next]_vars => AInv'
<1> SUFFICES ASSUME AInv, [Next]_vars PROVE AInv'
  OBVIOUS
<1>1. CASE \E c \in Call : Start(c) \/ Handle(c) \/ Finish(c) \/ Lose(c) \/ FailWrite(c)
  BY <1>1, StartKeeps, AdmitKeeps, CommitKeeps, RefreshKeeps, FinishKeeps, LoseKeeps,
     FailWriteKeeps DEF Handle
<1>2. CASE \E d \in Device : Restart(d)
  BY <1>2, RestartKeeps
<1>3. CASE \E k \in DOMAIN acc.tokens : Expire(k)
  BY <1>3, ExpireKeeps
<1>4. CASE UNCHANGED vars
  BY <1>4, StutterKeeps
<1> QED
  BY <1>1, <1>2, <1>3, <1>4 DEF Next

(* What a device holds, and what its calls carry, are tokens that the      *)
(* server issued (core_auth/src/lib.rs, handlers/auth.rs).                 *)
THEOREM AuthTyped == Spec => []TypeOK
<1>1. AInv => TypeOK
  BY AInvMeaning
<1> QED
  BY <1>1, Initially, StepKeeps, PTL DEF Spec

(* However logins, refreshes, removals and the end of all sessions cross   *)
(* each other, a device has at most one refresh token that works, and none *)
(* when it is signed out (handlers/auth.rs).                               *)
THEOREM OneSessionPerDevice == Spec => []OneSession
<1>1. AInv => OneSession
  BY AInvMeaning
<1> QED
  BY <1>1, Initially, StepKeeps, PTL DEF Spec
-----------------------------------------------------------------------------
(***************************************************************************)
(* Second: what a device can rely on as long as its calls do not overlap   *)
(* (DeviceAgrees and AlarmHasCause).  The invariants say how far the one   *)
(* call that is under way has got on a device that is not astray, and      *)
(* whose the tokens are that such calls carry.                             *)
(***************************************************************************)

Holding == {"Authenticated", "NeedsRefresh"}

Agree(d) == /\ file[d] = mem[d]
            /\ (mem[d] # NoToken) <=> (state[d] \in Holding)

(* What a call at r has done of its end, and what it will do, on device d. *)
InStep(r, d) ==
    /\ r.pc \in {"send", "admitted", "reply"} /\ r.op = "refresh" => mem[d] # NoToken
    /\ r.pc \in {"reply", "memory"} => ((r.put # NoToken) <=> (r.end \in Holding))
    /\ r.pc = "memory" => file[d] = r.put
    /\ r.pc = "state" => /\ file[d] = mem[d]
                         /\ (mem[d] # NoToken) <=> (r.end \in Holding)

Tidy(d) ==
    /\ \A b, c \in CallsOf(d) : call[b].pc # "idle" /\ call[c].pc # "idle" => b = c
    /\ (\A c \in CallsOf(d) : call[c].pc \notin {"memory", "state"}) => Agree(d)
    /\ \A c \in CallsOf(d) : InStep(call[c], d)

DInv == \A d \in Device \ astray : Tidy(d)


LEMMA DInvMeaning == DInv => DeviceAgrees
<1> SUFFICES ASSUME DInv, NEW d \in Device \ astray,
                    \A c \in CallsOf(d) : call[c].pc = "idle"
             PROVE  /\ file[d] = mem[d]
                    /\ (mem[d] # NoToken) <=> (state[d] \in {"Authenticated", "NeedsRefresh"})
  BY DEF DeviceAgrees
<1>1. Agree(d)
  BY DEF DInv, Tidy
<1> QED
  BY <1>1 DEF Agree, Holding

(* The devices on which nothing happens. *)
LEMMA Elsewhere ==
    ASSUME NEW d \in Device, Tidy(d),
           mem'[d] = mem[d], file'[d] = file[d], state'[d] = state[d],
           \A c \in CallsOf(d) : call'[c] = call[c]
    PROVE  Tidy(d)'
<1>1. CallsOf(d)' = CallsOf(d)
  BY DEF CallsOf
<1>2. Agree(d) => Agree(d)'
  BY DEF Agree
<1>3. \A c \in CallsOf(d) : InStep(call[c], d) => InStep(call[c], d)'
  BY DEF InStep
<1> QED
  BY <1>1, <1>2, <1>3 DEF Tidy

(* The device on which a call c moves to r, alone. *)
LEMMA Here ==
    ASSUME AInv, NEW c \in Call, NEW r, Goto(c, r),
           \A b \in CallsOf(Owner[c]) : b # c => call[b].pc = "idle",
           r.pc \notin {"memory", "state"} => Agree(Owner[c])',
           InStep(r, Owner[c])'
    PROVE  Tidy(Owner[c])'
<1> DEFINE d == Owner[c]
<1>1. call'[c] = r /\ \A b \in Call : b # c => call'[b] = call[b]
  BY DEF AInv, Calls, Goto
<1>2. c \in CallsOf(d) /\ CallsOf(d)' = CallsOf(d) /\ CallsOf(d) \subseteq Call
  BY DEF CallsOf
<1>3. \A b \in CallsOf(d) : b # c => call'[b].pc = "idle"
  BY <1>1, <1>2
<1>4. \A b \in CallsOf(d) : b # c => InStep(call[b], d)'
  BY <1>3 DEF InStep
<1>5. InStep(call[c], d)'
  BY <1>1 DEF InStep
<1>6. (\A b \in CallsOf(d) : call[b].pc \notin {"memory", "state"})' => Agree(d)'
  BY <1>1, <1>2
<1> QED
  BY <1>1, <1>2, <1>3, <1>4, <1>5, <1>6 DEF Tidy

(* A step of call c, alone on a device that is not astray. *)
LEMMA OneCall ==
    ASSUME AInv, DInv, NEW c \in Call, NEW r, Goto(c, r), astray \subseteq astray',
           \A d \in Device : d # Owner[c] =>
               mem'[d] = mem[d] /\ file'[d] = file[d] /\ state'[d] = state[d],
           Owner[c] \notin astray' =>
               /\ \A b \in CallsOf(Owner[c]) : b # c => call[b].pc = "idle"
               /\ r.pc \notin {"memory", "state"} => Agree(Owner[c])'
               /\ InStep(r, Owner[c])'
    PROVE  DInv'
<1> SUFFICES ASSUME NEW d \in Device, d \notin astray' PROVE Tidy(d)'
  BY DEF DInv
<1>1. CASE d = Owner[c]
  BY <1>1, Here
<1>2. CASE d # Owner[c]
  <2>1. \A b \in CallsOf(d) : call'[b] = call[b]
    BY <1>2 DEF CallsOf, Goto, AInv, Calls
  <2> QED
    BY <1>2, <2>1, Elsewhere DEF DInv
<1> QED
  BY <1>1, <1>2

(* What is known of a call that is under way. *)
LEMMA UnderWay ==
    ASSUME AInv, DInv, NEW c \in Call, call[c].pc # "idle", Owner[c] \notin astray
    PROVE  /\ \A b \in CallsOf(Owner[c]) : b # c => call[b].pc = "idle"
           /\ call[c].pc \notin {"memory", "state"} => Agree(Owner[c])
           /\ InStep(call[c], Owner[c])
  BY OwnerDevice DEF DInv, Tidy, CallsOf

LEMMA QuietInStep == ASSUME NEW d PROVE InStep(Quiet, d)'
  BY DEF InStep, Quiet

-----------------------------------------------------------------------------

LEMMA TidyAtFirst == Init => DInv
<1> SUFFICES ASSUME Init, NEW d \in Device PROVE Tidy(d)
  BY DEF DInv
<1>1. \A c \in CallsOf(d) : call[c] = Quiet
  BY DEF Init, CallsOf
<1>2. file = mem /\ ((mem[d] # NoToken) <=> (state[d] \in Holding))
  <2> DEFINE first == {SignedIn[k] : k \in DOMAIN SignedIn}
  <2>1. /\ mem = [e \in Device |-> IF e \in first
                    THEN CHOOSE k \in DOMAIN SignedIn : SignedIn[k] = e ELSE NoToken]
        /\ state = [e \in Device |-> IF e \in first THEN "Authenticated" ELSE "LoggedOut"]
        /\ file = mem
    BY DEF Init
  <2>2. d \in first => (CHOOSE k \in DOMAIN SignedIn : SignedIn[k] = d) \in DOMAIN SignedIn
    OBVIOUS
  <2>3. NoToken \notin DOMAIN SignedIn
    BY AuthAssumption DEF AuthAssumption, NoToken
  <2> HIDE DEF first
  <2> QED
    BY <2>1, <2>2, <2>3 DEF Holding
<1> QED
  BY <1>1, <1>2 DEF Tidy, Agree, InStep, Quiet

LEMMA TidyAfterStart == ASSUME AInv, DInv, NEW c \in Call, Start(c) PROVE DInv'
<1> DEFINE d == Owner[c]
<1>1. Begin(c)
  BY DEF Start, StartLogin, StartRefresh, StartLogout, GetValidToken
<1>2. /\ UNCHANGED <<mem, file, state>> /\ call[c].pc = "idle"
      /\ astray' = IF \E b \in CallsOf(d) : call[b].pc # "idle"
                   THEN astray \cup {d} ELSE astray
  BY <1>1 DEF Begin, client
<1>3. d \notin astray' => Agree(d)' /\ \A b \in CallsOf(d) : call[b].pc = "idle"
  BY <1>2, OwnerDevice DEF DInv, Tidy, Agree
<1>4. PICK r : /\ Goto(c, r) /\ r.pc \in {"send", "reply"}
               /\ r.op = "refresh" => mem[d] # NoToken
               /\ r.pc = "reply" => r.put = NoToken /\ r.end = "LoggedOut"
  <2>1. ASSUME NEW op, NEW tok, NEW then, Request(c, op, tok, then),
               op = "refresh" => mem[d] # NoToken
        PROVE  \E r : /\ Goto(c, r) /\ r.pc \in {"send", "reply"}
                      /\ r.op = "refresh" => mem[d] # NoToken
                      /\ r.pc = "reply" => r.put = NoToken /\ r.end = "LoggedOut"
    <3> DEFINE q == [Quiet EXCEPT !.pc = "send", !.op = op, !.tok = tok, !.then = then]
    <3>1. q.pc = "send" /\ q.op = op
      BY DEF Quiet
    <3>2. Goto(c, q)
      BY <2>1 DEF Request
    <3> HIDE DEF q
    <3> QED
      BY <2>1, <3>1, <3>2
  <2>2. ASSUME Goto(c, [Quiet EXCEPT !.pc = "reply", !.op = "logout", !.end = "LoggedOut"])
        PROVE  \E r : /\ Goto(c, r) /\ r.pc \in {"send", "reply"}
                      /\ r.op = "refresh" => mem[d] # NoToken
                      /\ r.pc = "reply" => r.put = NoToken /\ r.end = "LoggedOut"
    <3> DEFINE q == [Quiet EXCEPT !.pc = "reply", !.op = "logout", !.end = "LoggedOut"]
    <3>1. q.pc = "reply" /\ q.op = "logout" /\ q.put = NoToken /\ q.end = "LoggedOut"
      BY DEF Quiet
    <3>2. Goto(c, q)
      BY <2>2
    <3> HIDE DEF q
    <3> QED
      BY <3>1, <3>2
  <2>3. \/ Goto(c, [Quiet EXCEPT !.pc = "reply", !.op = "logout", !.end = "LoggedOut"])
        \/ \E op, tok, then : Request(c, op, tok, then) /\ (op = "refresh" => mem[d] # NoToken)
    BY DEF Start, StartLogin, StartRefresh, StartLogout, GetValidToken
  <2> QED
    BY <2>1, <2>2, <2>3
<1>5. InStep(r, d)'
  BY <1>2, <1>4 DEF InStep, Holding
<1> QED
  BY <1>2, <1>3, <1>4, <1>5, OneCall

(* The server answers call c, or goes on with it: nothing on the device    *)
(* changes, and the reply says whether there is a token to hold.           *)
LEMMA Answered ==
    ASSUME AInv, DInv, NEW c \in Call, UNCHANGED client, UNCHANGED astray,
           call[c].pc \in {"send", "admitted"}, NEW r, Goto(c, r),
           r.pc \in {"idle", "admitted", "reply"}, r.op = "refresh" => call[c].op = "refresh",
           r.pc = "reply" => ((r.put # NoToken) <=> (r.end \in Holding))
    PROVE  DInv'
<1> DEFINE d == Owner[c]
<1>1. UNCHANGED <<mem, file, state>> /\ call[c].pc # "idle"
  BY DEF client
<1>2. d \notin astray => /\ Agree(d) /\ InStep(call[c], d)
                         /\ \A b \in CallsOf(d) : b # c => call[b].pc = "idle"
  BY <1>1, UnderWay
<1>3. Agree(d) => Agree(d)'
  BY <1>1 DEF Agree
<1>4. InStep(call[c], d) => (InStep(r, d))'
  BY <1>1 DEF InStep
<1> QED
  BY <1>1, <1>2, <1>3, <1>4, OneCall

(* What a reply that stores put and shows end looks like. *)
LEMMA ReplyIs ==
    ASSUME AInv, NEW c \in Call, NEW put, NEW end, Reply(c, put, end)
    PROVE  \E r : Goto(c, r) /\ r.pc = "reply" /\ r.op = call[c].op
                  /\ r.put = put /\ r.end = end
<1> DEFINE q == [call[c] EXCEPT !.pc = "reply", !.put = put, !.end = end]
<1>1. call[c] \in CallAt(Len(acc.tokens))
  BY CallFields
<1>2. q.pc = "reply" /\ q.op = call[c].op /\ q.put = put /\ q.end = end
  BY <1>1 DEF CallAt
<1>3. Goto(c, q)
  BY DEF Reply
<1> HIDE DEF q
<1> QED
  BY <1>2, <1>3

LEMMA TidyAfterReply ==
    ASSUME AInv, DInv, NEW c \in Call, UNCHANGED client, UNCHANGED astray,
           call[c].pc \in {"send", "admitted"}, NEW put, NEW end, Reply(c, put, end),
           (put # NoToken) <=> (end \in Holding)
    PROVE  DInv'
<1>1. PICK r : Goto(c, r) /\ r.pc = "reply" /\ r.op = call[c].op /\ r.put = put /\ r.end = end
  BY ReplyIs
<1> QED
  BY <1>1, Answered

LEMMA TidyAfterHandle == ASSUME AInv, DInv, NEW c \in Call, Handle(c), AInv' PROVE DInv'
<1>1. UNCHANGED client /\ UNCHANGED astray /\ call[c].pc \in {"send", "admitted"}
  BY DEF Handle, Admit, HandleRefresh, CommitLogin, CommitLogout, CommitPassword,
         CommitRemove, CommitDelete, Handling, Committing, history
<1>2. ASSUME Goto(c, Quiet) PROVE DInv'
  <2>1. Quiet.pc = "idle" /\ Quiet.op = "none"
    BY DEF Quiet
  <2> QED
    BY <1>1, <1>2, <2>1, Answered
<1>3. ASSUME NEW end \in {"LoggedOut", "NeedsReLogin"}, Reply(c, NoToken, end) PROVE DInv'
  BY <1>1, <1>3, TidyAfterReply DEF Holding
<1>4. ASSUME Reply(c, Len(acc'.tokens), "Authenticated"), Len(acc'.tokens) # NoToken
      PROVE  DInv'
  BY <1>1, <1>4, TidyAfterReply DEF Holding
<1>5. ASSUME NEW t, Goto(c, [call[c] EXCEPT !.pc = "admitted", !.time = t]) PROVE DInv'
  <2>1. call[c] \in CallAt(Len(acc.tokens))
    BY CallFields
  <2> DEFINE q == [call[c] EXCEPT !.pc = "admitted", !.time = t]
  <2>2. q.pc = "admitted" /\ q.op = call[c].op
    BY <2>1 DEF CallAt
  <2>3. Goto(c, q)
    BY <1>5
  <2> HIDE DEF q
  <2> QED
    BY <1>1, <2>2, <2>3, Answered
<1>6. CASE Admit(c)
  BY <1>2, <1>3, <1>5, <1>6 DEF Admit
<1>7. CASE CommitLogin(c)
  <2>1. Len(acc'.tokens) # NoToken
    BY <1>7, LoginSound, CallFields, OwnerDevice, Tokens DEF CommitLogin, AInv, NoToken
  <2> QED
    BY <1>4, <1>7, <2>1 DEF CommitLogin
<1>8. CASE CommitLogout(c) \/ CommitPassword(c) \/ CommitRemove(c) \/ CommitDelete(c)
  BY <1>2, <1>3, <1>8 DEF CommitLogout, CommitPassword, CommitRemove, CommitDelete
<1>9. CASE HandleRefresh(c)
  <2> DEFINE k == call[c].tok
  <2>1. k \in DOMAIN acc.tokens
    BY <1>9, CallFields, Tokens, AccountFields DEF HandleRefresh, Handling, Ready, NoToken
  <2>2. PICK t \in Readings :
            /\ Reads(t)
            /\ CanRefresh(acc, k, t) => acc' = Refresh(acc, k, t)
            /\ IF CanRefresh(acc, k, t)
               THEN Reply(c, Len(acc'.tokens), "Authenticated")
               ELSE Reply(c, NoToken, "NeedsReLogin")
    BY <1>9 DEF HandleRefresh
  <2>3. t \in Nat
    BY <2>2, ReadingTyped
  <2>4. CanRefresh(acc, k, t) => Len(acc'.tokens) # NoToken
    BY <2>1, <2>2, <2>3, RefreshSound, Tokens DEF AInv, NoToken
  <2> QED
    BY <1>3, <1>4, <2>2, <2>4
<1> QED
  BY <1>6, <1>7, <1>8, <1>9 DEF Handle

LEMMA TidyAfterFinish == ASSUME AInv, DInv, NEW c \in Call, Finish(c) PROVE DInv'
<1> DEFINE d == Owner[c]
           q == call[c]
<1>1. UNCHANGED astray /\ q.pc \in {"reply", "memory", "state"} /\ d \in Device
  BY OwnerDevice DEF Finish, StoreFile, StoreToken, StoreState, Ending
<1>2. d \notin astray => /\ InStep(q, d) /\ (q.pc = "reply" => Agree(d))
                         /\ \A b \in CallsOf(d) : b # c => call[b].pc = "idle"
  BY <1>1, UnderWay
<1>3. mem \in [Device -> 0 .. Len(acc.tokens)] /\ file \in [Device -> 0 .. Len(acc.tokens)]
      /\ state \in [Device -> AuthState] /\ q \in CallAt(Len(acc.tokens))
  BY CallFields DEF AInv, Devices
<1>4. CASE StoreFile(c)
  <2>1. /\ q.pc = "reply" /\ file' = [file EXCEPT ![d] = q.put]
        /\ Goto(c, [q EXCEPT !.pc = "memory"]) /\ UNCHANGED <<mem, state>>
    BY <1>4 DEF StoreFile, Ending
  <2>2. PICK r : r = [q EXCEPT !.pc = "memory"]
    OBVIOUS
  <2>3. r.pc = "memory" /\ r.put = q.put /\ r.end = q.end
    BY <1>3, <2>2 DEF CallAt
  <2>4. file'[d] = q.put
    BY <1>1, <1>3, <2>1
  <2>5. InStep(q, d) => InStep(r, d)'
    BY <2>1, <2>3, <2>4 DEF InStep
  <2> QED
    BY <1>1, <1>2, <1>3, <2>1, <2>2, <2>3, <2>5, OneCall
<1>5. CASE StoreToken(c)
  <2>1. /\ q.pc = "memory" /\ mem' = [mem EXCEPT ![d] = q.put]
        /\ Goto(c, [q EXCEPT !.pc = "state"]) /\ UNCHANGED <<file, state>>
    BY <1>5 DEF StoreToken, Ending
  <2>2. PICK r : r = [q EXCEPT !.pc = "state"]
    OBVIOUS
  <2>3. r.pc = "state" /\ r.put = q.put /\ r.end = q.end
    BY <1>3, <2>2 DEF CallAt
  <2>4. mem'[d] = q.put
    BY <1>1, <1>3, <2>1
  <2>5. InStep(q, d) => InStep(r, d)'
    BY <2>1, <2>3, <2>4 DEF InStep
  <2> QED
    BY <1>1, <1>2, <1>3, <2>1, <2>2, <2>3, <2>5, OneCall
<1>6. CASE StoreState(c)
  <2>1. /\ q.pc = "state" /\ state' = [state EXCEPT ![d] = q.end] /\ UNCHANGED <<mem, file>>
        /\ \/ q.then # "none" /\ Request(c, q.then, q.put, "none")
           \/ Goto(c, Quiet)
    BY <1>6 DEF StoreState, Ending
  <2>2. q.then \in {"none", "password", "remove", "delete"}
    BY <1>3 DEF CallAt
  <2>3. \E r : Goto(c, r) /\ r.pc \in {"send", "idle"} /\ r.op # "refresh"
    <3> DEFINE s == [Quiet EXCEPT !.pc = "send", !.op = q.then, !.tok = q.put, !.then = "none"]
    <3>1. s.pc = "send" /\ s.op = q.then /\ Quiet.pc = "idle" /\ Quiet.op = "none"
      BY DEF Quiet
    <3>2. Goto(c, Quiet) \/ (q.then # "none" /\ Goto(c, s))
      BY <2>1 DEF Request
    <3> HIDE DEF s, q
    <3> QED
      BY <2>2, <3>1, <3>2
  <2>4. PICK r : Goto(c, r) /\ r.pc \in {"send", "idle"} /\ r.op # "refresh"
    BY <2>3
  <2>5. InStep(r, d)'
    BY <2>4 DEF InStep
  <2>6. state'[d] = q.end
    BY <1>1, <1>3, <2>1
  <2>7. InStep(q, d) => Agree(d)'
    BY <2>1, <2>6 DEF InStep, Agree
  <2> QED
    BY <1>1, <1>2, <1>3, <2>1, <2>4, <2>5, <2>7, OneCall
<1> QED
  BY <1>4, <1>5, <1>6 DEF Finish

(* A refresh that fails keeps the token: there is one.                     *)
LEMMA TidyAfterLoss == ASSUME AInv, DInv, NEW c \in Call, Lose(c) PROVE DInv'
<1> DEFINE d == Owner[c]
<1>1. /\ UNCHANGED <<mem, file, state>> /\ UNCHANGED astray
      /\ call[c].pc \in {"send", "admitted", "reply"} /\ Goto(c, Failed(c))
  BY DEF Lose, client
<1>2. d \notin astray => /\ InStep(call[c], d) /\ Agree(d)
                         /\ \A b \in CallsOf(d) : b # c => call[b].pc = "idle"
  BY <1>1, UnderWay
<1>3. PICK r : r = Failed(c)
  OBVIOUS
<1>4. \/ call[c].op = "refresh" /\ r.pc = "state" /\ r.end = "NeedsRefresh"
      \/ r.pc = "reply" /\ r.op = "logout" /\ r.put = NoToken /\ r.end = "LoggedOut"
      \/ r.pc = "idle"
  BY <1>3 DEF Failed, Quiet
<1>5. Agree(d) => Agree(d)'
  BY <1>1 DEF Agree
<1>6. InStep(call[c], d) /\ Agree(d) => (InStep(r, d))'
  BY <1>1, <1>4 DEF InStep, Agree, Holding
<1> QED
  BY <1>1, <1>2, <1>3, <1>5, <1>6, OneCall

LEMMA TidyAfterFailedWrite == ASSUME AInv, DInv, NEW c \in Call, FailWrite(c) PROVE DInv'
<1> DEFINE d == Owner[c]
<1>1. /\ UNCHANGED <<mem, state>> /\ astray' = astray \cup {d}
      /\ file' = file \/ file' = [file EXCEPT ![d] = NoToken]
      /\ Goto(c, [call[c] EXCEPT !.pc = "memory"]) \/ Goto(c, Quiet)
  BY DEF FailWrite
<1>2. \A e \in Device : e # d => file'[e] = file[e]
  BY <1>1 DEF AInv, Devices
<1> QED
  BY <1>1, <1>2, OneCall

LEMMA TidyAfterRestart == ASSUME AInv, DInv, NEW d \in Device, Restart(d) PROVE DInv'
<1> DEFINE cut == {c \in CallsOf(d) : call[c].pc # "idle"}
<1>1. /\ UNCHANGED astray
      /\ file' = file \/ file' = [file EXCEPT ![d] = NoToken]
      /\ mem' = [mem EXCEPT ![d] = file'[d]]
      /\ state' = [state EXCEPT ![d] = IF file'[d] # NoToken THEN "NeedsRefresh" ELSE "LoggedOut"]
      /\ call' = [c \in Call |-> IF c \in cut THEN Quiet ELSE call[c]]
  BY DEF Restart
<1>2. /\ mem \in [Device -> 0 .. Len(acc.tokens)] /\ file \in [Device -> 0 .. Len(acc.tokens)]
      /\ state \in [Device -> AuthState]
  BY DEF AInv, Devices
<1>3. \A c \in CallsOf(d) : call'[c].pc = "idle"
  BY <1>1 DEF CallsOf, Quiet
<1>4. \A e \in Device : e # d => \A c \in CallsOf(e) : call'[c] = call[c]
  BY <1>1 DEF CallsOf
<1> SUFFICES ASSUME NEW e \in Device, e \notin astray' PROVE Tidy(e)'
  BY DEF DInv
<1>5. CASE e = d
  <2>1. Agree(d)'
    BY <1>1, <1>2 DEF Agree, Holding
  <2>2. CallsOf(d)' = CallsOf(d)
    BY DEF CallsOf
  <2>3. \A c \in CallsOf(d) : (InStep(call[c], d))'
    BY <1>3 DEF InStep
  <2> QED
    BY <1>3, <1>5, <2>1, <2>2, <2>3 DEF Tidy
<1>6. CASE e # d
  <2>1. mem'[e] = mem[e] /\ file'[e] = file[e] /\ state'[e] = state[e]
    BY <1>1, <1>2, <1>6
  <2> QED
    BY <1>1, <1>4, <1>6, <2>1, Elsewhere DEF DInv
<1> QED
  BY <1>5, <1>6

LEMMA TidyAfterRest == ASSUME DInv, UNCHANGED <<client, call, astray>> PROVE DInv'
<1> SUFFICES ASSUME NEW e \in Device, e \notin astray' PROVE Tidy(e)'
  BY DEF DInv
<1> QED
  BY Elsewhere DEF DInv, client

LEMMA TidyStep == AInv /\ DInv /\ [Next]_vars => DInv'
<1> SUFFICES ASSUME AInv, DInv, [Next]_vars PROVE DInv'
  OBVIOUS
<1>1. AInv'
  BY StepKeeps
<1>2. CASE \E c \in Call : Start(c) \/ Handle(c) \/ Finish(c) \/ Lose(c) \/ FailWrite(c)
  BY <1>1, <1>2, TidyAfterStart, TidyAfterHandle, TidyAfterFinish, TidyAfterLoss,
     TidyAfterFailedWrite
<1>3. CASE \E d \in Device : Restart(d)
  BY <1>3, TidyAfterRestart
<1>4. CASE \E k \in DOMAIN acc.tokens : Expire(k)
  BY <1>4, TidyAfterRest DEF Expire
<1>5. CASE UNCHANGED vars
  BY <1>5, TidyAfterRest DEF vars, client
<1> QED
  BY <1>2, <1>3, <1>4, <1>5 DEF Next

(* Between calls that did not overlap, the token file, the token in memory *)
(* and the state that the application is shown agree, whatever messages    *)
(* were lost and whenever the process died (core_auth/src/lib.rs).         *)
THEOREM DeviceAgreesWithItself == Spec => []DeviceAgrees
  BY Initially, StepKeeps, TidyAtFirst, TidyStep, DInvMeaning, PTL DEF Spec

-----------------------------------------------------------------------------
(* Reuse detection.  As long as no call overlapped another and no outcome  *)
(* was missed, the token that a device presents has not been exchanged.    *)

(* Token k is device d's, and was not exchanged. *)
Unspent(k, d) == k # NoToken => acc.tokens[k].dev = d /\ acc.tokens[k].st # "rotated"

Current(d) ==
    /\ mem[d] # NoToken => acc.tokens[mem[d]].dev = d
    /\ (\A c \in CallsOf(d) : call[c].pc \notin {"reply", "memory"}) => Unspent(mem[d], d)
    /\ \A c \in CallsOf(d) :
        /\ call[c].pc = "send" /\ call[c].op = "refresh" => call[c].tok = mem[d]
        /\ call[c].pc \in {"reply", "memory"} => Unspent(call[c].put, d)

CInv == astray = {} /\ ~unsure => ~alarm /\ \A d \in Device : Current(d)

(* Server steps other than a refresh exchange no token.                    *)
Keeps(a, b) ==
    \A j \in DOMAIN a.tokens :
        /\ b.tokens[j].dev = a.tokens[j].dev
        /\ b.tokens[j].st = "rotated" => a.tokens[j].st = "rotated"

(* The latest pair is device d's. *)
Latest(a, d) == LET k == Len(a.tokens) IN a.tokens[k].dev = d /\ a.tokens[k].st # "rotated"

LEMMA EndTokensKeeps ==
    ASSUME NEW a \in Account, NEW ds PROVE Keeps(a, EndTokens(a, ds))
<1> DEFINE end(k) == IF a.tokens[k].dev \in ds /\ a.tokens[k].st = "live"
                     THEN [a.tokens[k] EXCEPT !.st = "ended"] ELSE a.tokens[k]
           s == [k \in DOMAIN a.tokens |-> end(k)]
<1>1. EndTokens(a, ds).tokens = s
  BY DEF EndTokens, Account
<1>2. ASSUME NEW k \in DOMAIN a.tokens
      PROVE  /\ end(k).dev = a.tokens[k].dev
             /\ end(k).st = "rotated" => a.tokens[k].st = "rotated"
  BY PairFields DEF Pair
<1>3. \A k \in DOMAIN a.tokens : s[k] = end(k)
  OBVIOUS
<1> HIDE DEF s, end
<1> QED
  BY <1>1, <1>2, <1>3 DEF Keeps

LEMMA IssueKeeps ==
    ASSUME NEW a \in Account, NEW d, NEW t
    PROVE  /\ Keeps(a, Issue(a, d, t)) /\ Latest(Issue(a, d, t), d)
           /\ \A j \in DOMAIN a.tokens : Issue(a, d, t).tokens[j] = a.tokens[j]
<1> DEFINE new == [dev |-> d, st |-> "live", iat |-> t, fresh |-> TRUE]
           s == Append(a.tokens, new)
<1>1. Issue(a, d, t).tokens = s
  BY DEF Issue, Account
<1>2. new.dev = d /\ new.st = "live"
  OBVIOUS
<1> HIDE DEF new
<1>3. /\ \A j \in DOMAIN a.tokens : s[j] = a.tokens[j]
      /\ s[Len(s)] = new
  BY AccountFields
<1> HIDE DEF s
<1> QED
  BY <1>1, <1>2, <1>3 DEF Keeps, Latest

LEMMA LoginKeeps ==
    ASSUME NEW a, Sound(a), NEW d \in Device, NEW t \in Nat
    PROVE  Keeps(a, Login(a, d, t)) /\ Latest(Login(a, d, t), d)
<1> DEFINE ended == EndTokens(a, {d})
           row == [ended EXCEPT !.known = ended.known \cup {d},
                                !.active = ended.active \cup {d}]
           cut == RaiseCutoff(row, {d}, t)
           at == cut.devCutoff[d]
<1>1. Login(a, d, t) = Issue(cut, d, at)
  BY DEF Login
<1>2. a \in Account /\ Sound(ended) /\ SignedOut(ended, {d}) /\ Keeps(a, ended)
      /\ Len(ended.tokens) = Len(a.tokens)
  BY EndTokensEnds, EndTokensKeeps DEF Sound
<1> HIDE DEF ended
<1>3. row \in Account /\ row.tokens = ended.tokens /\ row.active = ended.active \cup {d}
  BY <1>2 DEF Sound, Account
<1> HIDE DEF row
<1>4. Sound(row)
  BY <1>2, <1>3 DEF Sound, Single, SignedOut
<1>5. Sound(cut) /\ cut.tokens = row.tokens
  BY <1>4, CutoffOnly
<1> HIDE DEF cut, at
<1>6. cut \in Account
  BY <1>5 DEF Sound
<1>7. Latest(Issue(cut, d, at), d) /\ Keeps(cut, Issue(cut, d, at))
  BY <1>6, IssueKeeps
<1>8. DOMAIN cut.tokens = DOMAIN a.tokens
  BY <1>2, <1>3, <1>5, <1>6, AccountFields
<1> QED
  BY <1>1, <1>2, <1>3, <1>5, <1>7, <1>8 DEF Keeps

LEMMA EndKeeps ==
    ASSUME NEW a, Sound(a), NEW t \in Nat
    PROVE  /\ \A d \in Device : Keeps(a, EndSession(a, d, t))
           /\ Keeps(a, EndAllSessions(a, t)) /\ Keeps(a, DeleteAccount(a, t))
<1>1. ASSUME NEW ds \in SUBSET Device
      PROVE  /\ Keeps(a, RaiseCutoff(Deactivate(EndTokens(a, ds), ds), ds, t))
             /\ RaiseCutoff(Deactivate(EndTokens(a, ds), ds), ds, t) \in Account
  <2> DEFINE ended == EndTokens(a, ds)
             off == Deactivate(ended, ds)
  <2>1. Sound(ended) /\ SignedOut(ended, ds) /\ Keeps(a, ended)
    BY EndTokensEnds, EndTokensKeeps DEF Sound
  <2> HIDE DEF ended
  <2>2. Sound(off) /\ off.tokens = ended.tokens
    BY <2>1, DeactivateSound
  <2> HIDE DEF off
  <2>3. Sound(RaiseCutoff(off, ds, t)) /\ RaiseCutoff(off, ds, t).tokens = off.tokens
    BY <2>2, CutoffOnly
  <2> QED
    BY <2>1, <2>2, <2>3 DEF Keeps, Sound, off, ended
<1>2. \A d \in Device : Keeps(a, EndSession(a, d, t))
  BY <1>1 DEF EndSession
<1> DEFINE cut == RaiseCutoff(Deactivate(EndTokens(a, Device), Device), Device, t)
<1>3. EndAllSessions(a, t) = [cut EXCEPT !.userCutoff = Later(cut.userCutoff, t)]
  BY DEF EndAllSessions
<1>4. DeleteAccount(a, t) = [EndAllSessions(a, t) EXCEPT !.deleted = TRUE]
  BY DEF DeleteAccount
<1>5. cut \in Account /\ Keeps(a, cut)
  BY <1>1
<1> HIDE DEF cut
<1>6. EndAllSessions(a, t).tokens = cut.tokens
  BY <1>3, <1>5 DEF Account
<1>7. EndAllSessions(a, t) \in Account
  BY EndAllSessionsSound DEF Sound
<1>8. DeleteAccount(a, t).tokens = cut.tokens
  BY <1>4, <1>6, <1>7 DEF Account
<1> QED
  BY <1>2, <1>5, <1>6, <1>8 DEF Keeps

LEMMA RefreshExchanges ==
    ASSUME NEW a, Sound(a), NEW k \in DOMAIN a.tokens, NEW t \in Nat, CanRefresh(a, k, t)
    PROVE  /\ Latest(Refresh(a, k, t), a.tokens[k].dev)
           /\ \A j \in DOMAIN a.tokens :
                /\ Refresh(a, k, t).tokens[j].dev = a.tokens[j].dev
                /\ j # k => Refresh(a, k, t).tokens[j] = a.tokens[j]
<1> DEFINE d == a.tokens[k].dev
           p == [a.tokens[k] EXCEPT !.st = "rotated"]
           rotated == [a EXCEPT !.tokens[k] = p]
           issued == Issue(rotated, d, t)
<1>1. a \in Account /\ Single(a)
  BY DEF Sound
<1>2. p \in Pair /\ p.dev = d /\ p.st = "rotated" /\ d \in Device
  BY <1>1, PairFields DEF Pair
<1>3. a.tokens[k].st = "live" /\ d \in a.active
  BY DEF CanRefresh
<1>4. Refresh(a, k, t) = RaiseCutoff(issued, {d}, t)
  BY DEF Refresh
<1> HIDE DEF p
<1>5. /\ Sound(rotated) /\ rotated.active = a.active
      /\ DOMAIN rotated.tokens = DOMAIN a.tokens
      /\ \A j \in DOMAIN a.tokens : rotated.tokens[j] = IF j = k THEN p ELSE a.tokens[j]
  BY <1>2, RetireSound
<1> HIDE DEF rotated
<1>6. SignedOut(rotated, {d})
  BY <1>1, <1>2, <1>3, <1>5 DEF SignedOut, Single
<1>7. Sound(issued)
  BY <1>3, <1>5, <1>6, IssueSound
<1>8. /\ Latest(issued, d)
      /\ \A j \in DOMAIN rotated.tokens : issued.tokens[j] = rotated.tokens[j]
  BY <1>5, IssueKeeps DEF Sound
<1> HIDE DEF issued
<1>9. RaiseCutoff(issued, {d}, t).tokens = issued.tokens
  BY <1>2, <1>7, CutoffOnly
<1> QED
  BY <1>2, <1>4, <1>5, <1>8, <1>9 DEF Latest

-----------------------------------------------------------------------------

LEMMA CurrentAtFirst == Init => CInv
<1> SUFFICES ASSUME Init, NEW d \in Device PROVE Current(d)
  BY DEF Init, CInv
<1> DEFINE first == {SignedIn[k] : k \in DOMAIN SignedIn}
           s == [k \in DOMAIN SignedIn |->
                    [dev |-> SignedIn[k], st |-> "live", iat |-> 0, fresh |-> TRUE]]
<1>1. \A c \in CallsOf(d) : call[c] = Quiet
  BY DEF Init, CallsOf
<1>2. acc.tokens = s
  BY DEF Init, NewAccount
<1>3. mem[d] = IF d \in first
               THEN CHOOSE k \in DOMAIN SignedIn : SignedIn[k] = d ELSE NoToken
  BY DEF Init
<1>4. d \in first => \E k \in DOMAIN SignedIn : SignedIn[k] = d
  OBVIOUS
<1> HIDE DEF first
<1>5. mem[d] # NoToken => mem[d] \in DOMAIN SignedIn /\ SignedIn[mem[d]] = d
  BY <1>3, <1>4
<1>6. \A k \in DOMAIN SignedIn : s[k].dev = SignedIn[k] /\ s[k].st = "live"
  OBVIOUS
<1> HIDE DEF s
<1>7. Unspent(mem[d], d)
  BY <1>2, <1>5, <1>6 DEF Unspent
<1> QED
  BY <1>1, <1>7 DEF Current, Unspent, Quiet

(* The tokens of device d are as they were, or fewer of them exchanged. *)
Spares(d) ==
    \A j \in DOMAIN acc.tokens : acc.tokens[j].dev = d =>
        /\ acc'.tokens[j].dev = d
        /\ acc'.tokens[j].st = "rotated" => acc.tokens[j].st = "rotated"

LEMMA SparedToken ==
    ASSUME AInv, NEW d, Spares(d), NEW k \in 0 .. Len(acc.tokens), Unspent(k, d)
    PROVE  k # NoToken => acc'.tokens[k].dev = d /\ acc'.tokens[k].st # "rotated"
<1>1. k # NoToken => k \in DOMAIN acc.tokens
  BY Tokens, AccountFields DEF NoToken
<1> QED
  BY <1>1 DEF Unspent, Spares

LEMMA CurrentElsewhere ==
    ASSUME AInv, NEW d \in Device, Current(d), Spares(d), mem'[d] = mem[d],
           \A c \in CallsOf(d) : call'[c] = call[c]
    PROVE  Current(d)'
<1>1. CallsOf(d)' = CallsOf(d)
  BY DEF CallsOf
<1>2. mem[d] \in 0 .. Len(acc.tokens)
  BY DEF AInv, Devices
<1>3. mem'[d] # NoToken => acc'.tokens[mem'[d]].dev = d
  <2>1. mem[d] # NoToken => mem[d] \in DOMAIN acc.tokens
    BY <1>2, Tokens, AccountFields DEF NoToken
  <2> QED
    BY <2>1 DEF Current, Spares
<1>4. (\A c \in CallsOf(d) : call[c].pc \notin {"reply", "memory"})' => Unspent(mem[d], d)'
  BY <1>1, <1>2, SparedToken DEF Current, Unspent
<1>5. ASSUME NEW c \in CallsOf(d)
      PROVE  /\ call'[c].pc = "send" /\ call'[c].op = "refresh" => call'[c].tok = mem'[d]
             /\ call'[c].pc \in {"reply", "memory"} => Unspent(call[c].put, d)'
  <2>1. call[c].put \in 0 .. Len(acc.tokens)
    BY CallFields DEF CallsOf
  <2> QED
    BY <2>1, SparedToken DEF Current, Unspent
<1> QED
  BY <1>1, <1>3, <1>4, <1>5 DEF Current

LEMMA CurrentHere ==
    ASSUME AInv, NEW c \in Call, NEW r, Goto(c, r),
           \A b \in CallsOf(Owner[c]) : b # c => call[b].pc = "idle",
           (mem[Owner[c]] # NoToken => acc.tokens[mem[Owner[c]]].dev = Owner[c])',
           r.pc \notin {"reply", "memory"} => Unspent(mem[Owner[c]], Owner[c])',
           r.pc = "send" /\ r.op = "refresh" => r.tok = mem'[Owner[c]],
           r.pc \in {"reply", "memory"} => Unspent(r.put, Owner[c])'
    PROVE  Current(Owner[c])'
<1> DEFINE d == Owner[c]
<1>1. call'[c] = r /\ \A b \in Call : b # c => call'[b] = call[b]
  BY DEF AInv, Calls, Goto
<1>2. c \in CallsOf(d) /\ CallsOf(d)' = CallsOf(d) /\ CallsOf(d) \subseteq Call
  BY DEF CallsOf
<1>3. \A b \in CallsOf(d) : b # c => call'[b].pc = "idle"
  BY <1>1, <1>2
<1>4. (\A b \in CallsOf(d) : call[b].pc \notin {"reply", "memory"})' => Unspent(mem[d], d)'
  BY <1>1, <1>2
<1>5. (call[c].pc \in {"reply", "memory"} => Unspent(call[c].put, d))'
  BY <1>1 DEF Unspent
<1>6. (call[c].pc = "send" /\ call[c].op = "refresh" => call[c].tok = mem[d])'
  BY <1>1
<1> QED
  BY <1>2, <1>3, <1>4, <1>5, <1>6 DEF Current

(* A step of call c, with no cause for an alarm so far. *)
LEMMA CauseStep ==
    ASSUME AInv, CInv, NEW c \in Call, NEW r, Goto(c, r),
           astray' = {} /\ ~unsure' => astray = {} /\ ~unsure,
           astray' = {} /\ ~unsure' =>
              /\ ~alarm'
              /\ \A d \in Device : d # Owner[c] => Spares(d) /\ mem'[d] = mem[d]
              /\ \A b \in CallsOf(Owner[c]) : b # c => call[b].pc = "idle"
              /\ (mem[Owner[c]] # NoToken => acc.tokens[mem[Owner[c]]].dev = Owner[c])'
              /\ r.pc \notin {"reply", "memory"} => Unspent(mem[Owner[c]], Owner[c])'
              /\ r.pc = "send" /\ r.op = "refresh" => r.tok = mem'[Owner[c]]
              /\ r.pc \in {"reply", "memory"} => Unspent(r.put, Owner[c])'
    PROVE  CInv'
<1> SUFFICES ASSUME astray' = {}, ~unsure' PROVE ~alarm' /\ \A d \in Device : Current(d)'
  BY DEF CInv
<1> SUFFICES ASSUME NEW d \in Device PROVE Current(d)'
  OBVIOUS
<1>1. CASE d = Owner[c]
  BY <1>1, CurrentHere
<1>2. CASE d # Owner[c]
  <2>1. \A b \in CallsOf(d) : call'[b] = call[b]
    BY <1>2 DEF CallsOf, Goto, AInv, Calls
  <2> QED
    BY <1>2, <2>1, CurrentElsewhere DEF CInv
<1> QED
  BY <1>1, <1>2

Calm == astray = {} /\ ~unsure

LEMMA KeptIsSpared == ASSUME AInv, Keeps(acc, acc') PROVE \A d \in Device : Spares(d)
  BY DEF Keeps, Spares

LEMMA SameIsSpared == ASSUME AInv, UNCHANGED acc PROVE \A d \in Device : Spares(d)
  BY DEF Spares

(* What the calm have of a device on which c is under way. *)
LEMMA CalmCall ==
    ASSUME AInv, DInv, CInv, Calm, NEW c \in Call
    PROVE  /\ Current(Owner[c]) /\ Tidy(Owner[c]) /\ ~alarm /\ Owner[c] \in Device
           /\ c \in CallsOf(Owner[c])
           /\ call[c].pc # "idle" => \A b \in CallsOf(Owner[c]) : b # c => call[b].pc = "idle"
<1>1. Owner[c] \in Device /\ c \in CallsOf(Owner[c])
  BY OwnerDevice DEF CallsOf
<1> QED
  BY <1>1 DEF Calm, CInv, DInv, Tidy

LEMMA CauseAfterStart == ASSUME AInv, DInv, CInv, NEW c \in Call, Start(c) PROVE CInv'
<1> DEFINE d == Owner[c]
<1>1. Begin(c)
  BY DEF Start, StartLogin, StartRefresh, StartLogout, GetValidToken
<1>2. /\ UNCHANGED <<mem, acc, alarm, unsure>> /\ call[c].pc = "idle"
      /\ astray' = IF \E b \in CallsOf(d) : call[b].pc # "idle"
                   THEN astray \cup {d} ELSE astray
  BY <1>1 DEF Begin, client, server
<1>3. Calm' => Calm /\ \A b \in CallsOf(d) : call[b].pc = "idle"
  BY <1>2 DEF Calm
<1>4. PICK r : /\ Goto(c, r) /\ r.pc \in {"send", "reply"}
               /\ r.pc = "send" /\ r.op = "refresh" => r.tok = mem[d]
               /\ r.pc = "reply" => r.put = NoToken
  <2> DEFINE Goes(r) == /\ Goto(c, r) /\ r.pc \in {"send", "reply"}
                        /\ r.pc = "send" /\ r.op = "refresh" => r.tok = mem[d]
                        /\ r.pc = "reply" => r.put = NoToken
  <2>1. ASSUME NEW op, NEW tok, NEW then, Request(c, op, tok, then),
               op = "refresh" => tok = mem[d]
        PROVE  \E r : Goes(r)
    <3> DEFINE q == [Quiet EXCEPT !.pc = "send", !.op = op, !.tok = tok, !.then = then]
    <3>1. q.pc = "send" /\ q.op = op /\ q.tok = tok
      BY DEF Quiet
    <3>2. Goto(c, q)
      BY <2>1 DEF Request
    <3> HIDE DEF q
    <3> QED
      BY <2>1, <3>1, <3>2
  <2>2. ASSUME Goto(c, [Quiet EXCEPT !.pc = "reply", !.op = "logout", !.end = "LoggedOut"])
        PROVE  \E r : Goes(r)
    <3> DEFINE q == [Quiet EXCEPT !.pc = "reply", !.op = "logout", !.end = "LoggedOut"]
    <3>1. q.pc = "reply" /\ q.put = NoToken
      BY DEF Quiet
    <3>2. Goto(c, q)
      BY <2>2
    <3> HIDE DEF q
    <3> QED
      BY <3>1, <3>2
  <2>3. \/ Goto(c, [Quiet EXCEPT !.pc = "reply", !.op = "logout", !.end = "LoggedOut"])
        \/ \E op, tok, then : Request(c, op, tok, then) /\ (op = "refresh" => tok = mem[d])
    BY DEF Start, StartLogin, StartRefresh, StartLogout, GetValidToken
  <2> QED
    BY <2>1, <2>2, <2>3
<1>5. \A e \in Device : Spares(e)
  BY <1>2, SameIsSpared
<1>6. Calm' => /\ mem[d] # NoToken => acc.tokens[mem[d]].dev = d
               /\ ~alarm
  BY <1>3, CalmCall DEF Current
<1>7. r.pc \in {"reply", "memory"} => Unspent(r.put, d)'
  BY <1>4 DEF Unspent
<1>8. Calm' => Unspent(mem[d], d)'
  <2>1. Calm' => Unspent(mem[d], d)
    BY <1>3, CalmCall DEF Current
  <2> QED
    BY <1>2, <2>1 DEF Unspent
<1>9. UNCHANGED alarm /\ \A e \in Device : mem'[e] = mem[e]
  BY <1>2
<1> QED
  BY <1>2, <1>3, <1>4, <1>5, <1>6, <1>7, <1>8, <1>9, CauseStep DEF Calm

(* The server answers call c, or goes on with it. *)
LEMMA CauseAnswered ==
    ASSUME AInv, DInv, CInv, NEW c \in Call, UNCHANGED client, UNCHANGED <<astray, unsure>>,
           call[c].pc \in {"send", "admitted"}, NEW r, Goto(c, r),
           r.pc \in {"idle", "admitted", "reply"}, Calm => ~alarm',
           Calm => \A d \in Device : d # Owner[c] \/ r.pc # "reply" => Spares(d),
           Calm => \A j \in DOMAIN acc.tokens : acc'.tokens[j].dev = acc.tokens[j].dev,
           Calm /\ r.pc = "reply" => Unspent(r.put, Owner[c])'
    PROVE  CInv'
<1> DEFINE d == Owner[c]
<1>1. UNCHANGED mem /\ call[c].pc # "idle"
  BY DEF client
<1>2. Calm => Current(d) /\ d \in Device /\ c \in CallsOf(d)
              /\ \A b \in CallsOf(d) : b # c => call[b].pc = "idle"
  BY <1>1, CalmCall
<1>3. mem[d] \in 0 .. Len(acc.tokens)
  BY OwnerDevice DEF AInv, Devices
<1>4. Calm => (mem[d] # NoToken => acc.tokens[mem[d]].dev = d)'
  <2>1. mem[d] # NoToken => mem[d] \in DOMAIN acc.tokens
    BY <1>3, Tokens, AccountFields DEF NoToken
  <2> QED
    BY <1>1, <1>2, <2>1 DEF Current
<1>5. Calm /\ r.pc # "reply" => Unspent(mem[d], d)'
  <2>1. Calm => Unspent(mem[d], d)
    BY <1>1, <1>2 DEF Current
  <2> QED
    BY <1>1, <1>2, <1>3, <2>1, SparedToken DEF Unspent
<1> QED
  BY <1>1, <1>2, <1>4, <1>5, CauseStep DEF Calm

LEMMA CauseAfterReply ==
    ASSUME AInv, DInv, CInv, NEW c \in Call, UNCHANGED client, UNCHANGED <<astray, unsure>>,
           call[c].pc \in {"send", "admitted"}, NEW put, NEW end, Reply(c, put, end),
           Calm => ~alarm',
           Calm => \A d \in Device : d # Owner[c] => Spares(d),
           Calm => \A j \in DOMAIN acc.tokens : acc'.tokens[j].dev = acc.tokens[j].dev,
           put = NoToken \/ (put = Len(acc'.tokens) /\ (Calm => Latest(acc', Owner[c])))
    PROVE  CInv'
<1>1. PICK r : Goto(c, r) /\ r.pc = "reply" /\ r.put = put
  BY ReplyIs
<1>2. Calm => Unspent(r.put, Owner[c])'
  BY <1>1 DEF Unspent, Latest
<1> QED
  BY <1>1, <1>2, CauseAnswered

LEMMA CauseAfterHandle == ASSUME AInv, DInv, CInv, NEW c \in Call, Handle(c) PROVE CInv'
<1> DEFINE d == Owner[c]
<1>1. /\ UNCHANGED client /\ UNCHANGED <<astray, unsure>>
      /\ call[c].pc \in {"send", "admitted"} /\ d \in Device
  BY OwnerDevice DEF Handle, Admit, HandleRefresh, CommitLogin, CommitLogout, CommitPassword,
         CommitRemove, CommitDelete, Handling, Committing, history
<1>2. Sound(acc) /\ (Calm => ~alarm)
  BY DEF AInv, CInv, Calm
<1>3. ASSUME Keeps(acc, acc'), UNCHANGED alarm,
             \/ Goto(c, Quiet)
             \/ \E t : Goto(c, [call[c] EXCEPT !.pc = "admitted", !.time = t])
             \/ \E end : Reply(c, NoToken, end)
             \/ \E end : Reply(c, Len(acc'.tokens), end) /\ Latest(acc', d)
      PROVE  CInv'
  <2>1. /\ \A e \in Device : Spares(e)
        /\ \A j \in DOMAIN acc.tokens : acc'.tokens[j].dev = acc.tokens[j].dev
    BY <1>3, KeptIsSpared DEF Keeps
  <2>2. ASSUME NEW r, Goto(c, r), r.pc \in {"idle", "admitted"} PROVE CInv'
    BY <1>1, <1>2, <1>3, <2>1, <2>2, CauseAnswered
  <2>3. CASE Goto(c, Quiet)
    BY <2>2, <2>3 DEF Quiet
  <2>4. ASSUME NEW t, Goto(c, [call[c] EXCEPT !.pc = "admitted", !.time = t]) PROVE CInv'
    <3> DEFINE q == [call[c] EXCEPT !.pc = "admitted", !.time = t]
    <3>1. q.pc = "admitted"
      BY CallFields DEF CallAt
    <3>2. Goto(c, q)
      BY <2>4
    <3> HIDE DEF q
    <3> QED
      BY <2>2, <3>1, <3>2
  <2>5. CASE \/ \E end : Reply(c, NoToken, end)
             \/ \E end : Reply(c, Len(acc'.tokens), end) /\ Latest(acc', d)
    BY <1>1, <1>2, <1>3, <2>1, <2>5, CauseAfterReply
  <2> QED
    BY <1>3, <2>3, <2>4, <2>5
<1>4. acc' = acc => Keeps(acc, acc')
  BY DEF Keeps
<1>5. CASE Admit(c)
  BY <1>3, <1>4, <1>5 DEF Admit
<1>6. CASE CommitLogin(c)
  <2>1. acc' = Login(acc, d, call[c].time) /\ UNCHANGED alarm
        /\ Reply(c, Len(acc'.tokens), "Authenticated")
    BY <1>6 DEF CommitLogin, Committing
  <2>2. Keeps(acc, acc') /\ Latest(acc', d)
    BY <1>1, <1>2, <2>1, LoginKeeps, CallFields
  <2> QED
    BY <1>3, <2>1, <2>2
<1>7. CASE CommitLogout(c) \/ CommitPassword(c) \/ CommitRemove(c) \/ CommitDelete(c)
  <2>1. Keeps(acc, acc')
    BY <1>1, <1>2, <1>7, EndKeeps, CallFields
    DEF CommitLogout, CommitPassword, CommitRemove, CommitDelete
  <2> QED
    BY <1>3, <1>7, <2>1 DEF CommitLogout, CommitPassword, CommitRemove, CommitDelete, Committing
<1>8. CASE HandleRefresh(c)
  <2> DEFINE k == call[c].tok
  <2>1. /\ k \in DOMAIN acc.tokens /\ k # NoToken
        /\ call[c].pc = "send" /\ call[c].op = "refresh"
    BY <1>8, CallFields, Tokens, AccountFields DEF HandleRefresh, Handling, Ready, NoToken
  <2>2. PICK t \in Readings :
            /\ Reads(t)
            /\ IF CanRefresh(acc, k, t)
               THEN acc' = Refresh(acc, k, t) /\ UNCHANGED alarm
               ELSE IF IsReuse(acc, k)
               THEN acc' = EndAllSessions(acc, t) /\ alarm' = TRUE
               ELSE UNCHANGED <<acc, alarm>>
            /\ IF CanRefresh(acc, k, t)
               THEN Reply(c, Len(acc'.tokens), "Authenticated")
               ELSE Reply(c, NoToken, "NeedsReLogin")
    BY <1>8 DEF HandleRefresh
  <2>3. t \in Nat
    BY <2>2, ReadingTyped
  <2>4. Calm => acc.tokens[k].dev = d /\ acc.tokens[k].st # "rotated"
    <3>1. Calm => Current(d) /\ c \in CallsOf(d)
                  /\ \A b \in CallsOf(d) : b # c => call[b].pc = "idle"
      BY <2>1, CalmCall
    <3>2. Calm => k = mem[d] /\ Unspent(mem[d], d)
      BY <2>1, <3>1 DEF Current
    <3> QED
      BY <2>1, <3>2 DEF Unspent
  <2> HIDE DEF k
  <2>5. CASE CanRefresh(acc, k, t)
    <3>1. /\ Latest(acc', acc.tokens[k].dev)
          /\ \A j \in DOMAIN acc.tokens : /\ acc'.tokens[j].dev = acc.tokens[j].dev
                                          /\ j # k => acc'.tokens[j] = acc.tokens[j]
      BY <1>2, <2>1, <2>2, <2>3, <2>5, RefreshExchanges
    <3>2. Calm => \A e \in Device : e # d => Spares(e)
      BY <2>4, <3>1 DEF Spares
    <3> QED
      BY <1>1, <1>2, <2>2, <2>4, <2>5, <3>1, <3>2, CauseAfterReply
  <2>6. CASE ~CanRefresh(acc, k, t)
    <3>1. Calm => UNCHANGED <<acc, alarm>>
      BY <2>2, <2>4, <2>6 DEF IsReuse
    <3>2. Calm => \A e \in Device : Spares(e)
      BY <3>1, SameIsSpared
    <3> QED
      BY <1>1, <1>2, <2>2, <2>6, <3>1, <3>2, CauseAfterReply
  <2> QED
    BY <2>5, <2>6
<1> QED
  BY <1>5, <1>6, <1>7, <1>8 DEF Handle

LEMMA CauseAfterFinish == ASSUME AInv, DInv, CInv, NEW c \in Call, Finish(c) PROVE CInv'
<1> DEFINE d == Owner[c]
           q == call[c]
<1>1. /\ UNCHANGED <<acc, alarm, astray, unsure>>
      /\ q.pc \in {"reply", "memory", "state"} /\ d \in Device
  BY OwnerDevice DEF Finish, StoreFile, StoreToken, StoreState, Ending, server
<1>2. /\ Calm => /\ Current(d) /\ ~alarm /\ c \in CallsOf(d)
                 /\ \A b \in CallsOf(d) : b # c => call[b].pc = "idle"
      /\ Calm' = Calm
  BY <1>1, CalmCall DEF Calm
<1>3. mem \in [Device -> 0 .. Len(acc.tokens)] /\ q \in CallAt(Len(acc.tokens))
  BY CallFields DEF AInv, Devices
<1>4. \A e \in Device : Spares(e)
  BY <1>1, SameIsSpared
<1>5. CASE StoreFile(c)
  <2>1. /\ q.pc = "reply" /\ Goto(c, [q EXCEPT !.pc = "memory"]) /\ UNCHANGED mem
    BY <1>5 DEF StoreFile, Ending
  <2>2. PICK r : r = [q EXCEPT !.pc = "memory"]
    OBVIOUS
  <2>3. r.pc = "memory" /\ r.put = q.put
    BY <1>3, <2>2 DEF CallAt
  <2>4. Calm => (mem[d] # NoToken => acc.tokens[mem[d]].dev = d)'
    BY <1>1, <1>2, <2>1 DEF Current
  <2>5. Calm => Unspent(r.put, d)'
    BY <1>1, <1>2, <2>1, <2>3 DEF Current, Unspent
  <2> QED
    BY <1>1, <1>2, <1>4, <2>1, <2>2, <2>3, <2>4, <2>5, CauseStep DEF Calm
<1>6. CASE StoreToken(c)
  <2>1. /\ q.pc = "memory" /\ Goto(c, [q EXCEPT !.pc = "state"])
        /\ mem' = [mem EXCEPT ![d] = q.put]
    BY <1>6 DEF StoreToken, Ending
  <2>2. PICK r : r = [q EXCEPT !.pc = "state"]
    OBVIOUS
  <2>3. r.pc = "state" /\ mem'[d] = q.put /\ \A e \in Device : e # d => mem'[e] = mem[e]
    BY <1>1, <1>3, <2>1, <2>2 DEF CallAt
  <2>4. Calm => Unspent(mem[d], d)'
    BY <1>1, <1>2, <2>1, <2>3 DEF Current, Unspent
  <2>5. Calm => (mem[d] # NoToken => acc.tokens[mem[d]].dev = d)'
    BY <2>4 DEF Unspent
  <2> QED
    BY <1>1, <1>2, <1>4, <2>1, <2>2, <2>3, <2>4, <2>5, CauseStep DEF Calm
<1>7. CASE StoreState(c)
  <2>1. /\ q.pc = "state" /\ UNCHANGED mem
        /\ \/ q.then # "none" /\ Request(c, q.then, q.put, "none")
           \/ Goto(c, Quiet)
    BY <1>7 DEF StoreState, Ending
  <2>2. q.then \in {"none", "password", "remove", "delete"}
    BY <1>3 DEF CallAt
  <2>3. \E r : Goto(c, r) /\ r.pc \in {"send", "idle"} /\ r.op # "refresh"
    <3> DEFINE s == [Quiet EXCEPT !.pc = "send", !.op = q.then, !.tok = q.put, !.then = "none"]
    <3>1. s.pc = "send" /\ s.op = q.then /\ Quiet.pc = "idle" /\ Quiet.op = "none"
      BY DEF Quiet
    <3>2. Goto(c, Quiet) \/ (q.then # "none" /\ Goto(c, s))
      BY <2>1 DEF Request
    <3> HIDE DEF s, q
    <3> QED
      BY <2>2, <3>1, <3>2
  <2>4. PICK r : Goto(c, r) /\ r.pc \in {"send", "idle"} /\ r.op # "refresh"
    BY <2>3
  <2>5. Calm => Unspent(mem[d], d)'
    BY <1>1, <1>2, <2>1 DEF Current, Unspent
  <2>6. Calm => (mem[d] # NoToken => acc.tokens[mem[d]].dev = d)'
    BY <2>5 DEF Unspent
  <2> QED
    BY <1>1, <1>2, <1>4, <2>1, <2>4, <2>5, <2>6, CauseStep DEF Calm
<1> QED
  BY <1>5, <1>6, <1>7 DEF Finish

(* A restart that cuts no call short finds in the file what was in memory. *)
LEMMA CauseAfterRestart == ASSUME AInv, DInv, CInv, NEW d \in Device, Restart(d) PROVE CInv'
<1> DEFINE cut == {c \in CallsOf(d) : call[c].pc # "idle"}
<1>1. /\ UNCHANGED <<acc, alarm, astray>>
      /\ IF cut = {} THEN UNCHANGED unsure ELSE unsure' = TRUE
      /\ file' = file \/ \E c \in cut : call[c].pc = "reply"
      /\ mem' = [mem EXCEPT ![d] = file'[d]]
      /\ call' = [c \in Call |-> IF c \in cut THEN Quiet ELSE call[c]]
  BY DEF Restart, server
<1> SUFFICES ASSUME Calm' PROVE ~alarm' /\ \A e \in Device : Current(e)'
  BY DEF CInv, Calm
<1>2. cut = {} /\ Calm
  BY <1>1 DEF Calm
<1>3. Agree(d)
  BY <1>2 DEF DInv, Tidy, Calm
<1>4. mem \in [Device -> 0 .. Len(acc.tokens)] /\ call \in [Call -> CallAt(Len(acc.tokens))]
  BY DEF AInv, Devices, Calls
<1>5. mem' = mem /\ call' = call
  BY <1>1, <1>2, <1>3, <1>4 DEF Agree
<1>6. ~alarm /\ \A e \in Device : Current(e)
  BY <1>2 DEF CInv, Calm
<1>7. \A e \in Device : Spares(e)
  BY <1>1, SameIsSpared
<1> QED
  BY <1>1, <1>5, <1>6, <1>7, CurrentElsewhere

(* Time does not make an exchanged token. *)
LEMMA ExpireSpares ==
    ASSUME AInv, NEW k \in DOMAIN acc.tokens, Expire(k)
    PROVE  \A d \in Device : Spares(d)
<1> DEFINE q == acc.tokens[k]
<1>1. \/ acc' = [acc EXCEPT !.tokens[k].fresh = FALSE]
      \/ acc' = [acc EXCEPT !.tokens[k].fresh = FALSE, !.tokens[k].st = "ended"]
  BY DEF Expire
<1>2. acc \in Account /\ Sound(acc)
  BY Tokens DEF AInv
<1>3. q \in Pair
  BY <1>2, PairFields
<1> DEFINE stale == [q EXCEPT !.fresh = FALSE]
           over == [q EXCEPT !.fresh = FALSE, !.st = "ended"]
<1>4. /\ stale \in Pair /\ stale.dev = q.dev /\ stale.st = q.st
      /\ over \in Pair /\ over.dev = q.dev /\ over.st = "ended"
  BY <1>3 DEF Pair
<1>5. acc' = [acc EXCEPT !.tokens[k] = stale] \/ acc' = [acc EXCEPT !.tokens[k] = over]
  BY <1>1, <1>2, <1>3 DEF Account, Pair
<1> HIDE DEF stale, over
<1>6. PICK p : /\ p \in Pair /\ p.dev = q.dev /\ p.st \in {q.st, "ended"}
               /\ acc' = [acc EXCEPT !.tokens[k] = p]
  BY <1>4, <1>5
<1>7. \A j \in DOMAIN acc.tokens : acc'.tokens[j] = IF j = k THEN p ELSE acc.tokens[j]
  BY <1>2, <1>6, RetireSound
<1> QED
  BY <1>6, <1>7 DEF Spares

LEMMA CauseAfterRest ==
    ASSUME AInv, CInv, \A d \in Device : Spares(d),
           UNCHANGED <<client, call, astray, unsure, alarm>>
    PROVE  CInv'
  BY CurrentElsewhere DEF CInv, client

LEMMA CauseStays == AInv /\ DInv /\ CInv /\ [Next]_vars => CInv'
<1> SUFFICES ASSUME AInv, DInv, CInv, [Next]_vars PROVE CInv'
  OBVIOUS
<1>1. CASE \E c \in Call : Start(c) \/ Handle(c) \/ Finish(c)
  BY <1>1, CauseAfterStart, CauseAfterHandle, CauseAfterFinish
<1>2. CASE \E c \in Call : Lose(c) \/ FailWrite(c)
  <2>1. unsure' = TRUE \/ \E d : astray' = astray \cup {d}
    BY <1>2 DEF Lose, FailWrite
  <2>2. unsure' \/ astray' # {}
    BY <2>1
  <2> QED
    BY <2>2, Zenon DEF CInv
<1>3. CASE \E d \in Device : Restart(d)
  BY <1>3, CauseAfterRestart
<1>4. CASE \E k \in DOMAIN acc.tokens : Expire(k)
  BY <1>4, ExpireSpares, CauseAfterRest DEF Expire, Fault
<1>5. CASE UNCHANGED vars
  BY <1>5, SameIsSpared, CauseAfterRest DEF vars, client
<1> QED
  BY <1>1, <1>2, <1>3, <1>4, <1>5 DEF Next

(* The server takes a refresh for a replay, and signs every device out,    *)
(* only after calls of one device overlapped, a token could not be written *)
(* or the outcome of a request was not seen (handlers/auth.rs).            *)
THEOREM NoFalseAlarm == Spec => []AlarmHasCause
<1>1. CInv => AlarmHasCause
  BY DEF CInv, AlarmHasCause
<1> QED
  BY <1>1, Initially, StepKeeps, TidyAtFirst, TidyStep, CurrentAtFirst, CauseStays,
     PTL DEF Spec

-----------------------------------------------------------------------------
(***************************************************************************)
(* Third: a token that was refused stays refused (NoRevival).  Only a      *)
(* login activates a device, and the time it was admitted at may be long   *)
(* past when it commits.  With an ordered clock and at most two requests   *)
(* at the server at once there is no token in between: whatever the other  *)
(* request leaves behind is older than the login.                          *)
(***************************************************************************)

-----------------------------------------------------------------------------
(* The times of an account.                                                *)

\* A transaction that read t: pairs keep their device and time, the cut-off times
\* grow and not beyond t, nothing is undeleted.
Ages(a, b, t) ==
    /\ \A k \in DOMAIN a.tokens : /\ k \in DOMAIN b.tokens
                                  /\ b.tokens[k].dev = a.tokens[k].dev
                                  /\ b.tokens[k].iat = a.tokens[k].iat
    /\ \A d \in Device : /\ a.devCutoff[d] <= b.devCutoff[d]
                         /\ b.devCutoff[d] <= Later(a.devCutoff[d], t)
    /\ a.userCutoff <= b.userCutoff
    /\ a.deleted => b.deleted

LEMMA LaterBounds ==
    ASSUME NEW s \in Nat, NEW t \in Nat
    PROVE  s <= Later(s, t) /\ t <= Later(s, t) /\ Later(s, t) \in Nat
  BY DEF Later

LEMMA CutoffBounds ==
    ASSUME NEW a \in Account, NEW t \in Nat
    PROVE  /\ \A e \in Device : /\ a.devCutoff[e] \in Nat
                                /\ a.devCutoff[e] <= Later(a.devCutoff[e], t)
                                /\ t <= Later(a.devCutoff[e], t)
                                /\ Later(a.devCutoff[e], t) \in Nat
           /\ a.userCutoff \in Nat
           /\ a.userCutoff <= Later(a.userCutoff, t) /\ t <= Later(a.userCutoff, t)
<1>1. a.userCutoff \in Nat /\ \A e \in Device : a.devCutoff[e] \in Nat
  BY AccountFields
<1> QED
  BY <1>1, LaterBounds

LEMMA EndTokensFields ==
    ASSUME NEW a \in Account, NEW ds
    PROVE  LET b == EndTokens(a, ds)
           IN /\ DOMAIN b.tokens = DOMAIN a.tokens
              /\ \A k \in DOMAIN a.tokens : /\ b.tokens[k].dev = a.tokens[k].dev
                                            /\ b.tokens[k].iat = a.tokens[k].iat
              /\ b.known = a.known /\ b.active = a.active
              /\ b.devCutoff = a.devCutoff /\ b.userCutoff = a.userCutoff
              /\ b.deleted = a.deleted
<1> DEFINE end(k) == IF a.tokens[k].dev \in ds /\ a.tokens[k].st = "live"
                     THEN [a.tokens[k] EXCEPT !.st = "ended"] ELSE a.tokens[k]
           s == [k \in DOMAIN a.tokens |-> end(k)]
           b == EndTokens(a, ds)
<1>1. b = [a EXCEPT !.tokens = s]
  BY DEF EndTokens
<1>2. ASSUME NEW k \in DOMAIN a.tokens
      PROVE  end(k).dev = a.tokens[k].dev /\ end(k).iat = a.tokens[k].iat
  BY PairFields DEF Pair
<1>3. DOMAIN s = DOMAIN a.tokens /\ \A k \in DOMAIN a.tokens : s[k] = end(k)
  OBVIOUS
<1> HIDE DEF s, end, b
<1>4. /\ b.tokens = s /\ b.known = a.known /\ b.active = a.active
      /\ b.devCutoff = a.devCutoff /\ b.userCutoff = a.userCutoff /\ b.deleted = a.deleted
  BY <1>1 DEF Account
<1> QED
  BY <1>2, <1>3, <1>4 DEF b

LEMMA RaiseFields ==
    ASSUME NEW a \in Account, NEW ds, NEW t \in Nat
    PROVE  LET b == RaiseCutoff(a, ds, t)
           IN /\ b.tokens = a.tokens /\ b.known = a.known /\ b.active = a.active
              /\ b.userCutoff = a.userCutoff /\ b.deleted = a.deleted
              /\ \A d \in Device : b.devCutoff[d] = IF d \in ds \cap a.known
                                                    THEN Later(a.devCutoff[d], t)
                                                    ELSE a.devCutoff[d]
  BY DEF RaiseCutoff, Account

LEMMA DeactivateFields ==
    ASSUME NEW a \in Account, NEW ds
    PROVE  LET b == Deactivate(a, ds)
           IN /\ b.tokens = a.tokens /\ b.known = a.known /\ b.active = a.active \ ds
              /\ b.devCutoff = a.devCutoff
              /\ b.userCutoff = a.userCutoff /\ b.deleted = a.deleted
  BY DEF Deactivate, Account

LEMMA IssueFields ==
    ASSUME NEW a \in Account, NEW d \in Device, NEW t \in Nat
    PROVE  LET b == Issue(a, d, t)
               n == Len(a.tokens) + 1
           IN /\ DOMAIN b.tokens = DOMAIN a.tokens \cup {n}
              /\ \A k \in DOMAIN a.tokens : b.tokens[k] = a.tokens[k]
              /\ b.tokens[n].dev = d /\ b.tokens[n].iat = t
              /\ b.known = a.known /\ b.active = a.active
              /\ b.devCutoff = a.devCutoff
              /\ b.userCutoff = a.userCutoff /\ b.deleted = a.deleted
<1> DEFINE new == [dev |-> d, st |-> "live", iat |-> t, fresh |-> TRUE]
           s == Append(a.tokens, new)
           n == Len(a.tokens) + 1
           b == Issue(a, d, t)
<1>1. b = [a EXCEPT !.tokens = s]
  BY DEF Issue
<1>2. new \in Pair /\ new.dev = d /\ new.iat = t
  BY DEF Pair
<1> HIDE DEF new
<1>3. /\ a.tokens \in Seq(Pair) /\ DOMAIN a.tokens = 1 .. Len(a.tokens) /\ Len(a.tokens) \in Nat
  BY AccountFields
<1>4. /\ DOMAIN s = DOMAIN a.tokens \cup {n}
      /\ \A k \in DOMAIN a.tokens : s[k] = a.tokens[k]
      /\ s[n] = new
  BY <1>2, <1>3
<1> HIDE DEF s, b, n
<1>5. /\ b.tokens = s /\ b.known = a.known /\ b.active = a.active
      /\ b.devCutoff = a.devCutoff /\ b.userCutoff = a.userCutoff /\ b.deleted = a.deleted
  BY <1>1 DEF Account
<1> QED
  BY <1>2, <1>4, <1>5 DEF b, n

\* The login of device d, which is active from then on and has one more pair.
LEMMA LoginAges ==
    ASSUME NEW a, Sound(a), NEW d \in Device, NEW t \in Nat
    PROVE  LET b == Login(a, d, t)
           IN /\ Ages(a, b, t)
              /\ b.active = a.active \cup {d} /\ b.known = a.known \cup {d}
              /\ t <= b.devCutoff[d] /\ b.userCutoff = a.userCutoff
              /\ \A k \in DOMAIN b.tokens \ DOMAIN a.tokens :
                    b.tokens[k].dev = d /\ b.tokens[k].iat = b.devCutoff[d]
<1> DEFINE ended == EndTokens(a, {d})
           row == [ended EXCEPT !.known = ended.known \cup {d},
                                !.active = ended.active \cup {d}]
           cut == RaiseCutoff(row, {d}, t)
           at == cut.devCutoff[d]
           b == Issue(cut, d, at)
<1>1. a \in Account /\ Sound(ended)
  BY EndTokensEnds DEF Sound
<1>2. Login(a, d, t) = b
  BY DEF Login
<1>3. /\ DOMAIN ended.tokens = DOMAIN a.tokens
      /\ \A k \in DOMAIN a.tokens : /\ ended.tokens[k].dev = a.tokens[k].dev
                                    /\ ended.tokens[k].iat = a.tokens[k].iat
      /\ ended.known = a.known /\ ended.active = a.active
      /\ ended.devCutoff = a.devCutoff /\ ended.userCutoff = a.userCutoff
      /\ ended.deleted = a.deleted
  BY <1>1, EndTokensFields
<1> HIDE DEF ended
<1>4. /\ row \in Account /\ row.tokens = ended.tokens
      /\ row.active = a.active \cup {d} /\ row.known = a.known \cup {d}
      /\ row.devCutoff = a.devCutoff /\ row.userCutoff = a.userCutoff
      /\ row.deleted = a.deleted
  BY <1>1, <1>3 DEF Sound, Account
<1> HIDE DEF row
<1>5. /\ cut.tokens = ended.tokens
      /\ cut.active = a.active \cup {d} /\ cut.known = a.known \cup {d}
      /\ cut.userCutoff = a.userCutoff /\ cut.deleted = a.deleted
      /\ \A e \in Device : cut.devCutoff[e] = IF e = d THEN Later(a.devCutoff[e], t)
                                              ELSE a.devCutoff[e]
  BY <1>4, RaiseFields
<1>6. cut \in Account
  <2>1. cut = [row EXCEPT !.devCutoff = [e \in Device |-> IF e \in {d} \cap row.known
                                          THEN Later(row.devCutoff[e], t) ELSE row.devCutoff[e]]]
    BY DEF RaiseCutoff
  <2>2. \A e \in Device : row.devCutoff[e] \in Nat /\ Later(row.devCutoff[e], t) \in Nat
    BY <1>4, AccountFields, LaterBounds
  <2> HIDE DEF cut
  <2>3. QED
    BY <1>4, <2>1, <2>2 DEF Account
<1> HIDE DEF cut
<1>7. at \in Nat
  BY <1>6, AccountFields
<1>8. /\ \A k \in DOMAIN a.tokens : k \in DOMAIN b.tokens /\ b.tokens[k] = cut.tokens[k]
      /\ \A k \in DOMAIN b.tokens \ DOMAIN a.tokens : b.tokens[k].dev = d /\ b.tokens[k].iat = at
      /\ b.known = cut.known /\ b.active = cut.active /\ b.devCutoff = cut.devCutoff
      /\ b.userCutoff = cut.userCutoff /\ b.deleted = cut.deleted
  <2> HIDE DEF at
  <2>1. QED
    BY <1>3, <1>5, <1>6, <1>7, IssueFields
<1>9. /\ \A e \in Device : /\ a.devCutoff[e] \in Nat
                           /\ a.devCutoff[e] <= Later(a.devCutoff[e], t)
                           /\ t <= Later(a.devCutoff[e], t)
                           /\ Later(a.devCutoff[e], t) \in Nat
      /\ a.userCutoff \in Nat
      /\ a.userCutoff <= Later(a.userCutoff, t) /\ t <= Later(a.userCutoff, t)
  BY <1>1, CutoffBounds
<1> HIDE DEF b
<1>10. Ages(a, b, t)
  <2>1. \A k \in DOMAIN a.tokens : /\ k \in DOMAIN b.tokens
                                  /\ b.tokens[k].dev = a.tokens[k].dev
                                  /\ b.tokens[k].iat = a.tokens[k].iat
    BY <1>3, <1>5, <1>8, <1>9
  <2>2. ASSUME NEW e \in Device
        PROVE  /\ a.devCutoff[e] <= b.devCutoff[e]
               /\ b.devCutoff[e] <= Later(a.devCutoff[e], t)
    BY <1>3, <1>5, <1>8, <1>9
  <2>3. a.userCutoff <= b.userCutoff
    BY <1>3, <1>5, <1>8, <1>9
  <2>4. a.deleted => b.deleted
    BY <1>3, <1>5, <1>8, <1>9
  <2> QED
    BY <2>1, <2>2, <2>3, <2>4 DEF Ages
<1>11. t <= b.devCutoff[d]
  BY <1>5, <1>8, <1>9
<1> QED
  BY <1>2, <1>5, <1>8, <1>10, <1>11

\* The end of the session of device d.
LEMMA EndSessionAges ==
    ASSUME NEW a, Sound(a), NEW d \in Device, NEW t \in Nat
    PROVE  LET b == EndSession(a, d, t)
           IN /\ Ages(a, b, t)
              /\ b.active = a.active \ {d} /\ b.known = a.known
              /\ d \in a.known => t <= b.devCutoff[d]
              /\ DOMAIN b.tokens = DOMAIN a.tokens
<1> DEFINE ended == EndTokens(a, {d})
           off == Deactivate(ended, {d})
           b == RaiseCutoff(off, {d}, t)
<1>1. a \in Account /\ Sound(ended) /\ SignedOut(ended, {d})
  BY EndTokensEnds DEF Sound
<1>2. EndSession(a, d, t) = b
  BY DEF EndSession
<1>3. /\ DOMAIN ended.tokens = DOMAIN a.tokens
      /\ \A k \in DOMAIN a.tokens : /\ ended.tokens[k].dev = a.tokens[k].dev
                                    /\ ended.tokens[k].iat = a.tokens[k].iat
      /\ ended.known = a.known /\ ended.active = a.active
      /\ ended.devCutoff = a.devCutoff /\ ended.userCutoff = a.userCutoff
      /\ ended.deleted = a.deleted
  BY <1>1, EndTokensFields
<1> HIDE DEF ended
<1>4. /\ off.tokens = ended.tokens /\ off.known = a.known /\ off.active = a.active \ {d}
      /\ off.devCutoff = a.devCutoff /\ off.userCutoff = a.userCutoff
      /\ off.deleted = a.deleted
  BY <1>1, <1>3, DeactivateFields DEF Sound
<1>5. off \in Account
  BY <1>1, DeactivateSound DEF Sound
<1> HIDE DEF off
<1>6. /\ b.tokens = ended.tokens /\ b.active = a.active \ {d} /\ b.known = a.known
      /\ b.userCutoff = a.userCutoff /\ b.deleted = a.deleted
      /\ \A e \in Device : b.devCutoff[e] = IF e \in {d} \cap a.known
                                            THEN Later(a.devCutoff[e], t) ELSE a.devCutoff[e]
  BY <1>4, <1>5, RaiseFields
<1> HIDE DEF b
<1>7. /\ \A e \in Device : /\ a.devCutoff[e] \in Nat
                           /\ a.devCutoff[e] <= Later(a.devCutoff[e], t)
                           /\ t <= Later(a.devCutoff[e], t)
                           /\ Later(a.devCutoff[e], t) \in Nat
      /\ a.userCutoff \in Nat
      /\ a.userCutoff <= Later(a.userCutoff, t) /\ t <= Later(a.userCutoff, t)
  BY <1>1, CutoffBounds
<1>8. Ages(a, b, t)
  <2>1. \A k \in DOMAIN a.tokens : /\ k \in DOMAIN b.tokens
                                  /\ b.tokens[k].dev = a.tokens[k].dev
                                  /\ b.tokens[k].iat = a.tokens[k].iat
    BY <1>3, <1>6, <1>7
  <2>2. ASSUME NEW e \in Device
        PROVE  /\ a.devCutoff[e] <= b.devCutoff[e]
               /\ b.devCutoff[e] <= Later(a.devCutoff[e], t)
    BY <1>3, <1>6, <1>7
  <2>3. a.userCutoff <= b.userCutoff
    BY <1>3, <1>6, <1>7
  <2>4. a.deleted => b.deleted
    BY <1>3, <1>6, <1>7
  <2> QED
    BY <2>1, <2>2, <2>3, <2>4 DEF Ages
<1>9. d \in a.known => t <= b.devCutoff[d]
  BY <1>6, <1>7
<1> QED
  BY <1>2, <1>3, <1>6, <1>8, <1>9

\* The end of every session.
LEMMA EndAllSessionsAges ==
    ASSUME NEW a, Sound(a), NEW t \in Nat,
           NEW b \in {EndAllSessions(a, t), DeleteAccount(a, t)}
    PROVE  /\ Ages(a, b, t)
           /\ b.active = {} /\ b.known = a.known /\ t <= b.userCutoff
           /\ DOMAIN b.tokens = DOMAIN a.tokens
<1> DEFINE ended == EndTokens(a, Device)
           off == Deactivate(ended, Device)
           cut == RaiseCutoff(off, Device, t)
           all == [cut EXCEPT !.userCutoff = Later(cut.userCutoff, t)]
<1>1. a \in Account /\ Sound(ended) /\ SignedOut(ended, Device)
  BY EndTokensEnds DEF Sound
<1>2. EndAllSessions(a, t) = all /\ DeleteAccount(a, t) = [all EXCEPT !.deleted = TRUE]
  BY DEF EndAllSessions, DeleteAccount
<1>3. /\ DOMAIN ended.tokens = DOMAIN a.tokens
      /\ \A k \in DOMAIN a.tokens : /\ ended.tokens[k].dev = a.tokens[k].dev
                                    /\ ended.tokens[k].iat = a.tokens[k].iat
      /\ ended.known = a.known /\ ended.active = a.active
      /\ ended.devCutoff = a.devCutoff /\ ended.userCutoff = a.userCutoff
      /\ ended.deleted = a.deleted
  BY <1>1, EndTokensFields
<1> HIDE DEF ended
<1>4. /\ off.tokens = ended.tokens /\ off.known = a.known /\ off.active = a.active \ Device
      /\ off.devCutoff = a.devCutoff /\ off.userCutoff = a.userCutoff
      /\ off.deleted = a.deleted
  BY <1>1, <1>3, DeactivateFields DEF Sound
<1>5. Sound(off)
  BY <1>1, DeactivateSound
<1> HIDE DEF off
<1>6. /\ cut.tokens = ended.tokens /\ cut.active = {} /\ cut.known = a.known
      /\ cut.userCutoff = a.userCutoff /\ cut.deleted = a.deleted
      /\ \A e \in Device : cut.devCutoff[e] = IF e \in Device \cap a.known
                                              THEN Later(a.devCutoff[e], t) ELSE a.devCutoff[e]
  <2>1. a.active \ Device = {}
    BY <1>1, AccountFields
  <2>2. QED
    BY <1>4, <1>5, <2>1, RaiseFields DEF Sound
<1>7. cut \in Account
  BY <1>5, CutoffOnly DEF Sound
<1> HIDE DEF cut
<1>8. /\ \A e \in Device : /\ a.devCutoff[e] \in Nat
                           /\ a.devCutoff[e] <= Later(a.devCutoff[e], t)
                           /\ t <= Later(a.devCutoff[e], t)
                           /\ Later(a.devCutoff[e], t) \in Nat
      /\ a.userCutoff \in Nat
      /\ a.userCutoff <= Later(a.userCutoff, t) /\ t <= Later(a.userCutoff, t)
  BY <1>1, CutoffBounds
<1>9. /\ b.tokens = cut.tokens /\ b.active = cut.active /\ b.known = cut.known
      /\ b.userCutoff = Later(a.userCutoff, t) /\ b.devCutoff = cut.devCutoff
      /\ cut.deleted => b.deleted
  BY <1>2, <1>6, <1>7 DEF Account
<1>10. Ages(a, b, t)
  <2>1. \A k \in DOMAIN a.tokens : /\ k \in DOMAIN b.tokens
                                  /\ b.tokens[k].dev = a.tokens[k].dev
                                  /\ b.tokens[k].iat = a.tokens[k].iat
    BY <1>3, <1>6, <1>8, <1>9
  <2>2. ASSUME NEW e \in Device
        PROVE  /\ a.devCutoff[e] <= b.devCutoff[e]
               /\ b.devCutoff[e] <= Later(a.devCutoff[e], t)
    BY <1>3, <1>6, <1>8, <1>9
  <2>3. a.userCutoff <= b.userCutoff
    BY <1>3, <1>6, <1>8, <1>9
  <2>4. a.deleted => b.deleted
    BY <1>3, <1>6, <1>8, <1>9
  <2> QED
    BY <2>1, <2>2, <2>3, <2>4 DEF Ages
<1>11. t <= b.userCutoff
  BY <1>8, <1>9
<1> QED
  BY <1>3, <1>6, <1>9, <1>10, <1>11

\* The exchange of pair k.
LEMMA RefreshAges ==
    ASSUME NEW a, Sound(a), NEW k \in DOMAIN a.tokens, NEW t \in Nat
    PROVE  LET b == Refresh(a, k, t)
           IN /\ Ages(a, b, t)
              /\ b.active = a.active /\ b.known = a.known
              /\ \A j \in DOMAIN b.tokens \ DOMAIN a.tokens :
                    b.tokens[j].dev = a.tokens[k].dev /\ b.tokens[j].iat = t
<1> DEFINE d == a.tokens[k].dev
           p == [a.tokens[k] EXCEPT !.st = "rotated"]
           rotated == [a EXCEPT !.tokens[k] = p]
           issued == Issue(rotated, d, t)
           b == RaiseCutoff(issued, {d}, t)
<1>1. a \in Account
  BY DEF Sound
<1>2. p \in Pair /\ p.dev = d /\ p.iat = a.tokens[k].iat /\ p.st = "rotated" /\ d \in Device
  BY <1>1, PairFields DEF Pair
<1>3. Refresh(a, k, t) = b
  BY DEF Refresh
<1> HIDE DEF p
<1>4. /\ Sound(rotated) /\ rotated.active = a.active
      /\ DOMAIN rotated.tokens = DOMAIN a.tokens
      /\ \A j \in DOMAIN a.tokens : rotated.tokens[j] = IF j = k THEN p ELSE a.tokens[j]
  BY <1>2, RetireSound
<1>5. /\ rotated.known = a.known /\ rotated.devCutoff = a.devCutoff
      /\ rotated.userCutoff = a.userCutoff /\ rotated.deleted = a.deleted
  BY <1>1 DEF Account
<1> HIDE DEF rotated
<1>6. /\ DOMAIN issued.tokens = DOMAIN a.tokens \cup {Len(rotated.tokens) + 1}
      /\ \A j \in DOMAIN a.tokens : issued.tokens[j] = rotated.tokens[j]
      /\ issued.tokens[Len(rotated.tokens) + 1].dev = d
      /\ issued.tokens[Len(rotated.tokens) + 1].iat = t
      /\ issued.known = a.known /\ issued.active = a.active
      /\ issued.devCutoff = a.devCutoff
      /\ issued.userCutoff = a.userCutoff /\ issued.deleted = a.deleted
  <2> HIDE DEF d
  <2>1. QED
    BY <1>2, <1>4, <1>5, IssueFields DEF Sound
<1>7. issued = [rotated EXCEPT !.tokens = issued.tokens] /\ issued.tokens \in Seq(Pair)
  <2>1. /\ issued = [rotated EXCEPT !.tokens = Append(rotated.tokens,
                        [dev |-> d, st |-> "live", iat |-> t, fresh |-> TRUE])]
        /\ rotated \in Account /\ rotated.tokens \in Seq(Pair)
    BY <1>4, AccountFields DEF Issue, Sound
  <2>2. [dev |-> d, st |-> "live", iat |-> t, fresh |-> TRUE] \in Pair
    BY <1>2 DEF Pair
  <2> HIDE DEF issued
  <2>3. QED
    BY <2>1, <2>2 DEF Account
<1> HIDE DEF issued
<1>8. issued \in Account
  BY <1>4, <1>7 DEF Sound, Account
<1>9. /\ b.tokens = issued.tokens /\ b.active = a.active /\ b.known = a.known
      /\ b.userCutoff = a.userCutoff /\ b.deleted = a.deleted
      /\ \A e \in Device : b.devCutoff[e] = IF e \in {d} \cap a.known
                                            THEN Later(a.devCutoff[e], t) ELSE a.devCutoff[e]
  BY <1>6, <1>8, RaiseFields
<1> HIDE DEF b
<1>10. /\ \A e \in Device : /\ a.devCutoff[e] \in Nat
                           /\ a.devCutoff[e] <= Later(a.devCutoff[e], t)
                           /\ t <= Later(a.devCutoff[e], t)
                           /\ Later(a.devCutoff[e], t) \in Nat
      /\ a.userCutoff \in Nat
      /\ a.userCutoff <= Later(a.userCutoff, t) /\ t <= Later(a.userCutoff, t)
  BY <1>1, CutoffBounds
<1>11. Ages(a, b, t)
  <2>1. \A j \in DOMAIN a.tokens : /\ j \in DOMAIN b.tokens
                                  /\ b.tokens[j].dev = a.tokens[j].dev
                                  /\ b.tokens[j].iat = a.tokens[j].iat
    BY <1>2, <1>4, <1>6, <1>9, <1>10
  <2>2. ASSUME NEW e \in Device
        PROVE  /\ a.devCutoff[e] <= b.devCutoff[e]
               /\ b.devCutoff[e] <= Later(a.devCutoff[e], t)
    BY <1>2, <1>4, <1>6, <1>9, <1>10
  <2>3. a.userCutoff <= b.userCutoff
    BY <1>2, <1>4, <1>6, <1>9, <1>10
  <2>4. a.deleted => b.deleted
    BY <1>2, <1>4, <1>6, <1>9, <1>10
  <2> QED
    BY <2>1, <2>2, <2>3, <2>4 DEF Ages
<1> QED
  BY <1>3, <1>6, <1>9, <1>11

-----------------------------------------------------------------------------
(* The invariant, while the clock is ordered.                              *)

Admitted(c) == call[c].pc = "admitted"
Underway(c) == call[c].pc \in {"send", "admitted"}

\* At most two requests are at the server, or on their way to it.
TwoAtOnce ==
    \A b, c, d \in Call : Underway(b) /\ Underway(c) /\ Underway(d) => b = c \/ c = d \/ b = d

\* No time that the server keeps is to come.
InPast ==
    /\ acc.active \subseteq acc.known
    /\ \A k \in DOMAIN acc.tokens : acc.tokens[k].iat <= now
    /\ \A d \in Device : acc.devCutoff[d] <= now
    /\ \A c \in Call : Admitted(c) => call[c].time <= now

\* While two requests are admitted no token is as late as both of them.
NoneLater ==
    \A b, c \in Call : b # c /\ Admitted(b) /\ Admitted(c) =>
        \A k \in DOMAIN acc.tokens :
            acc.tokens[k].iat < call[b].time \/ acc.tokens[k].iat < call[c].time

\* Were a signed out device active again, a token of it that would be accepted
\* is older than the login that may make it so.
Outdated ==
    \A c \in Call, k \in DOMAIN acc.tokens :
        /\ Admitted(c) /\ call[c].op = "login"
        /\ acc.tokens[k].dev = Owner[c] /\ Owner[c] \notin acc.active
        /\ acc.tokens[k].iat >= acc.userCutoff
        /\ acc.tokens[k].iat >= acc.devCutoff[Owner[c]]
        => acc.tokens[k].iat < call[c].time

RInv == clock = "ordered" => InPast /\ NoneLater /\ Outdated

\* No pair is accepted after the step that was refused before it.
NoneRevived == \A k \in DOMAIN acc.tokens : Authorized(acc', k) => Authorized(acc, k)

LEMMA Times ==
    ASSUME AInv
    PROVE  /\ now \in Nat /\ acc.userCutoff \in Nat /\ acc.deleted \in BOOLEAN
           /\ acc.active \subseteq Device
           /\ \A d \in Device : acc.devCutoff[d] \in Nat
           /\ \A k \in DOMAIN acc.tokens : acc.tokens[k].iat \in Nat /\ acc.tokens[k].dev \in Device
           /\ \A c \in Call : call[c].time \in Nat /\ Owner[c] \in Device
<1>1. acc \in Account /\ now \in Nat
  BY Tokens DEF AInv, Rest
<1>2. acc.userCutoff \in Nat /\ acc.active \subseteq Device /\ acc.deleted \in BOOLEAN
      /\ \A d \in Device : acc.devCutoff[d] \in Nat
  BY <1>1, AccountFields
<1>3. \A k \in DOMAIN acc.tokens : acc.tokens[k].iat \in Nat /\ acc.tokens[k].dev \in Device
  BY <1>1, PairFields
<1>4. \A c \in Call : call[c].time \in Nat /\ Owner[c] \in Device
  BY CallFields, OwnerDevice
<1> QED
  BY <1>1, <1>2, <1>3, <1>4

LEMMA AgesAtFirst == Init => RInv
<1> SUFFICES ASSUME Init PROVE RInv
  OBVIOUS
<1> DEFINE first == {SignedIn[k] : k \in DOMAIN SignedIn}
           s == [k \in DOMAIN SignedIn |->
                     [dev |-> SignedIn[k], st |-> "live", iat |-> 0, fresh |-> TRUE]]
<1>1. acc = [NewAccount EXCEPT !.known = first, !.active = first, !.tokens = s]
  BY DEF Init
<1>2. \A k \in DOMAIN s : s[k].iat = 0
  OBVIOUS
<1> HIDE DEF first, s
<1>3. /\ acc.known = first /\ acc.active = first /\ acc.tokens = s
      /\ acc.devCutoff = [d \in Device |-> 0]
  BY <1>1 DEF NewAccount
<1>4. now = 0 /\ \A c \in Call : ~Admitted(c)
  BY DEF Init, Quiet, Admitted
<1>5. InPast
  BY <1>2, <1>3, <1>4 DEF InPast
<1> QED
  BY <1>4, <1>5 DEF RInv, NoneLater, Outdated

-----------------------------------------------------------------------------
(* The steps.                                                              *)

\* b keeps the times of a.
SameAges(a, b) ==
    /\ DOMAIN b.tokens = DOMAIN a.tokens
    /\ \A k \in DOMAIN a.tokens : /\ b.tokens[k].dev = a.tokens[k].dev
                                  /\ b.tokens[k].iat = a.tokens[k].iat
    /\ b.known = a.known /\ b.active = a.active
    /\ b.devCutoff = a.devCutoff /\ b.userCutoff = a.userCutoff /\ b.deleted = a.deleted

\* A step that commits and admits nothing.
LEMMA QuietAges ==
    ASSUME AInv, AInv', RInv, SameAges(acc, acc'), clock' = clock, now <= now',
           \A c \in Call : Admitted(c)' => call'[c] = call[c]
    PROVE  RInv' /\ NoneRevived
<1>1. NoneRevived
  BY DEF NoneRevived, Authorized, SameAges
<1>2. ASSUME clock = "ordered"
      PROVE  InPast' /\ NoneLater' /\ Outdated'
  <2>1. InPast /\ NoneLater /\ Outdated
    BY <1>2 DEF RInv
  <2>2. \A c \in Call : Admitted(c)' => Admitted(c) /\ call'[c] = call[c]
    BY DEF Admitted
  <2> HIDE DEF Admitted
  <2>3. now \in Nat /\ now' \in Nat /\ (\A c \in Call : call[c].time \in Nat)
        /\ (\A d \in Device : acc.devCutoff[d] \in Nat)
        /\ \A k \in DOMAIN acc.tokens : acc.tokens[k].iat \in Nat
    BY Times DEF AInv, Rest
  <2>4. InPast'
    BY <2>1, <2>2, <2>3 DEF InPast, SameAges
  <2>5. NoneLater'
    BY <2>1, <2>2 DEF NoneLater, SameAges
  <2>6. Outdated'
    BY <2>1, <2>2 DEF Outdated, SameAges
  <2> QED
    BY <2>4, <2>5, <2>6
<1> QED
  BY <1>1, <1>2 DEF RInv

\* The transaction of request x, which read t.
LEMMA TransactionAges ==
    ASSUME AInv, AInv', RInv, TwoAtOnce, clock' = clock, now <= now',
           NEW x \in Call, Underway(x), NEW r, r.pc # "admitted", Goto(x, r),
           NEW t \in Nat, t <= now', t > now \/ (Admitted(x) /\ call[x].time = t),
           Ages(acc, acc', t), acc'.active \subseteq acc'.known,
           \A k \in DOMAIN acc'.tokens \ DOMAIN acc.tokens :
               acc'.tokens[k].dev \in acc'.active /\ acc'.tokens[k].iat <= now',
           \A d \in acc.active \ acc'.active : t <= acc'.userCutoff \/ t <= acc'.devCutoff[d]
    PROVE  clock = "ordered" => InPast' /\ NoneLater' /\ Outdated'
<1> SUFFICES ASSUME clock = "ordered" PROVE InPast' /\ NoneLater' /\ Outdated'
  OBVIOUS
<1>1. InPast /\ NoneLater /\ Outdated
  BY DEF RInv
<1>2. \A c \in Call : Admitted(c)' => c # x /\ Admitted(c) /\ call'[c] = call[c]
  BY DEF Admitted, Goto, AInv, Calls
<1>3. \A c \in Call : Admitted(c) => Underway(c)
  BY DEF Admitted, Underway
<1> HIDE DEF Admitted, Underway
<1>4. now \in Nat /\ now' \in Nat /\ acc.userCutoff \in Nat /\ acc'.userCutoff \in Nat
  BY Times DEF AInv, Rest, Sound, Account
<1>5. /\ \A d \in Device : acc.devCutoff[d] \in Nat /\ acc'.devCutoff[d] \in Nat
      /\ \A k \in DOMAIN acc.tokens : acc.tokens[k].iat \in Nat
      /\ \A c \in Call : call[c].time \in Nat /\ Owner[c] \in Device
  <2>1. acc' \in Account
    BY DEF AInv, Sound
  <2> QED
    BY <2>1, Times, AccountFields
<1>6. InPast'
  <2>1. \A k \in DOMAIN acc'.tokens : acc'.tokens[k].iat <= now'
    BY <1>1, <1>4, <1>5 DEF InPast, Ages
  <2>2. \A d \in Device : acc'.devCutoff[d] <= now'
    BY <1>1, <1>4, <1>5 DEF InPast, Ages, Later
  <2>3. \A c \in Call : Admitted(c)' => call'[c].time <= now'
    BY <1>1, <1>2, <1>4, <1>5 DEF InPast
  <2> QED
    BY <2>1, <2>2, <2>3 DEF InPast
<1>7. NoneLater'
  BY <1>2, <1>3 DEF NoneLater, TwoAtOnce
<1>8. ASSUME NEW c \in Call, NEW k \in DOMAIN acc'.tokens,
             Admitted(c)', call'[c].op = "login",
             acc'.tokens[k].dev = Owner[c], Owner[c] \notin acc'.active,
             acc'.tokens[k].iat >= acc'.userCutoff,
             acc'.tokens[k].iat >= acc'.devCutoff[Owner[c]]
      PROVE  acc'.tokens[k].iat < call'[c].time
  <2> DEFINE i == acc.tokens[k].iat
             d == Owner[c]
  <2>1. c # x /\ Admitted(c) /\ call'[c] = call[c] /\ call[c].op = "login" /\ d \in Device
    BY <1>2, <1>5, <1>8
  <2>2. /\ k \in DOMAIN acc.tokens /\ acc'.tokens[k].iat = i /\ acc.tokens[k].dev = d
        /\ i \in Nat
    BY <1>5, <1>8 DEF Ages
  <2>3. i >= acc'.userCutoff /\ i >= acc'.devCutoff[d] /\ d \notin acc'.active
    BY <1>8, <2>2
  <2>4. CASE d \in acc.active
    <3>1. i >= t /\ i <= now
      BY <1>1, <1>4, <1>5, <2>1, <2>2, <2>3, <2>4 DEF InPast
    <3>2. Admitted(x) /\ call[x].time = t
      BY <1>4, <2>2, <3>1
    <3>3. i < call[x].time \/ i < call[c].time
      BY <1>1, <2>1, <2>2, <3>2 DEF NoneLater
    <3> QED
      BY <2>1, <2>2, <3>1, <3>2, <3>3
  <2>5. CASE d \notin acc.active
    <3>1. i >= acc.userCutoff /\ i >= acc.devCutoff[d]
      <4>1. acc.userCutoff <= acc'.userCutoff /\ acc.devCutoff[d] <= acc'.devCutoff[d]
        BY <2>1 DEF Ages
      <4> QED
        BY <1>4, <1>5, <2>1, <2>2, <2>3, <4>1
    <3>2. i < call[c].time
      BY <1>1, <2>1, <2>2, <2>5, <3>1 DEF Outdated
    <3> QED
      BY <2>1, <2>2, <3>2
  <2> QED
    BY <2>4, <2>5
<1>9. Outdated'
  BY <1>8 DEF Outdated
<1> QED
  BY <1>6, <1>7, <1>9

\* A transaction that activates no device revives no token.
LEMMA NoneActivated ==
    ASSUME AInv, AInv', NEW t \in Nat, Ages(acc, acc', t), acc'.active \subseteq acc.active
    PROVE  NoneRevived
<1> SUFFICES ASSUME NEW k \in DOMAIN acc.tokens, Authorized(acc', k) PROVE Authorized(acc, k)
  BY DEF NoneRevived
<1> DEFINE d == acc.tokens[k].dev
           i == acc.tokens[k].iat
<1>1. acc'.tokens[k].dev = d /\ acc'.tokens[k].iat = i
  BY DEF Ages
<1>2. d \in acc'.active /\ i >= acc'.userCutoff /\ i >= acc'.devCutoff[d]
  BY <1>1 DEF Authorized
<1>3. i \in Nat /\ d \in Device /\ acc.userCutoff \in Nat /\ acc.devCutoff[d] \in Nat
  BY Times
<1>4. acc'.userCutoff \in Nat /\ acc'.devCutoff[d] \in Nat
  BY <1>3, AccountFields DEF AInv, Sound
<1>5. acc.userCutoff <= acc'.userCutoff /\ acc.devCutoff[d] <= acc'.devCutoff[d]
  BY <1>3 DEF Ages
<1>6. i >= acc.userCutoff /\ i >= acc.devCutoff[d]
  BY <1>2, <1>3, <1>4, <1>5
<1>7. ~acc.deleted
  BY DEF Authorized, Ages
<1> QED
  BY <1>2, <1>6, <1>7 DEF Authorized

LEMMA RestAges ==
    ASSUME AInv, AInv', RInv, UNCHANGED <<acc, clock, now>>,
           \A c \in Call : Admitted(c)' => call'[c] = call[c]
    PROVE  RInv' /\ NoneRevived
<1>1. now <= now'
  BY Times
<1>2. SameAges(acc, acc')
  BY DEF SameAges
<1> QED
  BY <1>1, <1>2, QuietAges

\* One call goes on to r, without being admitted.
LEMMA CallGoesOn ==
    ASSUME AInv, NEW c \in Call, NEW r, r.pc # "admitted", Goto(c, r)
    PROVE  \A b \in Call : Admitted(b)' => call'[b] = call[b]
<1>1. call'[c] = r /\ \A b \in Call : b # c => call'[b] = call[b]
  BY DEF AInv, Calls, Goto
<1>2. ~Admitted(c)'
  BY <1>1 DEF Admitted
<1> QED
  BY <1>1, <1>2

LEMMA AgesAfterStart == ASSUME AInv, AInv', RInv, NEW c \in Call, Start(c)
                        PROVE  RInv' /\ NoneRevived
<1>1. Begin(c)
  BY DEF Start, StartLogin, StartRefresh, StartLogout, GetValidToken
<1>2. UNCHANGED <<acc, clock, now>>
  BY <1>1 DEF Begin, server
<1>3. PICK r : r.pc # "admitted" /\ Goto(c, r)
  <2>1. ASSUME NEW op, NEW tok, NEW then, Request(c, op, tok, then)
        PROVE  \E r : r.pc # "admitted" /\ Goto(c, r)
    <3> DEFINE r == [Quiet EXCEPT !.pc = "send", !.op = op, !.tok = tok, !.then = then]
    <3>1. r.pc # "admitted"
      BY DEF Quiet
    <3> QED
      BY <2>1, <3>1 DEF Request
  <2>2. ASSUME Goto(c, [Quiet EXCEPT !.pc = "reply", !.op = "logout", !.end = "LoggedOut"])
        PROVE  \E r : r.pc # "admitted" /\ Goto(c, r)
    <3> DEFINE r == [Quiet EXCEPT !.pc = "reply", !.op = "logout", !.end = "LoggedOut"]
    <3>1. r.pc # "admitted"
      BY DEF Quiet
    <3> QED
      BY <2>2, <3>1
  <2>3. \/ \E op, tok, then : Request(c, op, tok, then)
        \/ Goto(c, [Quiet EXCEPT !.pc = "reply", !.op = "logout", !.end = "LoggedOut"])
    BY DEF Start, StartLogin, StartRefresh, StartLogout, GetValidToken
  <2> QED
    BY <2>1, <2>2, <2>3
<1> QED
  BY <1>2, <1>3, CallGoesOn, RestAges

LEMMA AgesAfterFinish == ASSUME AInv, AInv', RInv, NEW c \in Call, Finish(c)
                         PROVE  RInv' /\ NoneRevived
<1>1. \E pc \in {"reply", "memory", "state"} : Ending(c, pc)
  BY DEF Finish, StoreFile, StoreToken, StoreState
<1>2. UNCHANGED <<acc, clock, now>>
  BY <1>1 DEF Ending, server
<1>3. PICK r : r.pc # "admitted" /\ Goto(c, r)
  <2> DEFINE going(r) == r.pc # "admitted" /\ Goto(c, r)
             m == [call[c] EXCEPT !.pc = "memory"]
             s == [call[c] EXCEPT !.pc = "state"]
             n == [Quiet EXCEPT !.pc = "send", !.op = call[c].then, !.tok = call[c].put,
                                !.then = "none"]
  <2>1. m.pc # "admitted" /\ s.pc # "admitted" /\ n.pc # "admitted" /\ Quiet.pc # "admitted"
    BY CallFields DEF Quiet, CallAt
  <2>2. Goto(c, m) \/ Goto(c, s) \/ Goto(c, n) \/ Goto(c, Quiet)
    BY DEF Finish, StoreFile, StoreToken, StoreState, Request
  <2> HIDE DEF m, s, n
  <2> QED
    BY <2>1, <2>2
<1> QED
  BY <1>2, <1>3, CallGoesOn, RestAges

LEMMA AgesAfterLoss == ASSUME AInv, AInv', RInv, NEW c \in Call, Lose(c) \/ FailWrite(c)
                       PROVE  RInv' /\ NoneRevived
<1>1. UNCHANGED <<acc, clock, now>>
  BY DEF Lose, FailWrite, Fault
<1>2. PICK r : r.pc # "admitted" /\ Goto(c, r)
  <2> DEFINE m == [call[c] EXCEPT !.pc = "memory"]
  <2>1. m.pc # "admitted" /\ Quiet.pc # "admitted" /\ Failed(c).pc # "admitted"
    BY CallFields DEF Quiet, CallAt, Failed
  <2>2. Goto(c, m) \/ Goto(c, Failed(c)) \/ Goto(c, Quiet)
    BY DEF Lose, FailWrite
  <2> HIDE DEF m
  <2> QED
    BY <2>1, <2>2
<1> QED
  BY <1>1, <1>2, CallGoesOn, RestAges

LEMMA AgesAfterRestart == ASSUME AInv, AInv', RInv, NEW d \in Device, Restart(d)
                          PROVE  RInv' /\ NoneRevived
<1>1. UNCHANGED <<acc, clock, now>>
  BY DEF Restart, server
<1>2. \A c \in Call : call'[c] = Quiet \/ call'[c] = call[c]
  BY DEF Restart
<1>3. Quiet.pc # "admitted"
  BY DEF Quiet
<1>4. \A c \in Call : Admitted(c)' => call'[c] = call[c]
  BY <1>2, <1>3 DEF Admitted
<1> QED
  BY <1>1, <1>4, RestAges

LEMMA AgesAfterExpiry == ASSUME AInv, AInv', RInv, NEW k \in DOMAIN acc.tokens, Expire(k)
                         PROVE  RInv' /\ NoneRevived
<1> DEFINE q == acc.tokens[k]
           stale == [q EXCEPT !.fresh = FALSE]
           over == [q EXCEPT !.fresh = FALSE, !.st = "ended"]
<1>1. /\ UNCHANGED <<clock, now, call>>
      /\ \/ acc' = [acc EXCEPT !.tokens[k].fresh = FALSE]
         \/ acc' = [acc EXCEPT !.tokens[k].fresh = FALSE, !.tokens[k].st = "ended"]
  BY DEF Expire, Fault
<1>2. acc \in Account /\ q \in Pair
  BY Tokens, PairFields
<1>3. /\ stale.dev = q.dev /\ stale.iat = q.iat
      /\ over.dev = q.dev /\ over.iat = q.iat
  BY <1>2 DEF Pair
<1>4. acc' = [acc EXCEPT !.tokens[k] = stale] \/ acc' = [acc EXCEPT !.tokens[k] = over]
  BY <1>1, <1>2 DEF Account, Pair
<1> HIDE DEF stale, over, q
<1>5. PICK p : p.dev = q.dev /\ p.iat = q.iat /\ acc' = [acc EXCEPT !.tokens[k] = p]
  BY <1>3, <1>4
<1>6. /\ acc'.tokens = [acc.tokens EXCEPT ![k] = p]
      /\ acc'.known = acc.known /\ acc'.active = acc.active
      /\ acc'.devCutoff = acc.devCutoff /\ acc'.userCutoff = acc.userCutoff
      /\ acc'.deleted = acc.deleted
  BY <1>2, <1>5 DEF Account
<1>7. DOMAIN acc'.tokens = DOMAIN acc.tokens
  BY <1>6
<1>8. ASSUME NEW j \in DOMAIN acc.tokens
      PROVE  acc'.tokens[j].dev = acc.tokens[j].dev /\ acc'.tokens[j].iat = acc.tokens[j].iat
  <2>1. acc.tokens \in Seq(Pair)
    BY <1>2, AccountFields
  <2>2. acc'.tokens[j] = IF j = k THEN p ELSE acc.tokens[j]
    BY <1>6, <2>1
  <2> QED
    BY <1>5, <2>2 DEF q
<1>9. SameAges(acc, acc') /\ now <= now'
  BY <1>1, <1>6, <1>7, <1>8, Times DEF SameAges
<1> QED
  BY <1>1, <1>9, QuietAges

\* A request is admitted later than everything that the server has seen.
LEMMA AgesAfterAdmission ==
    ASSUME AInv, AInv', RInv, NEW c \in Call, Admit(c)
    PROVE  RInv' /\ NoneRevived
<1>1. UNCHANGED <<acc, clock>>
  BY DEF Admit, Handling
<1>2. CASE UNCHANGED now /\ (Reply(c, NoToken, "LoggedOut") \/ Goto(c, Quiet))
  <2> DEFINE r == [call[c] EXCEPT !.pc = "reply", !.put = NoToken, !.end = "LoggedOut"]
  <2>1. r.pc # "admitted" /\ Quiet.pc # "admitted"
    BY CallFields DEF Quiet, CallAt
  <2>2. Goto(c, r) \/ Goto(c, Quiet)
    BY <1>2 DEF Reply
  <2> HIDE DEF r
  <2> QED
    BY <1>1, <1>2, <2>1, <2>2, CallGoesOn, RestAges
<1>3. CASE \E t \in Readings : /\ Reads(t)
                               /\ Goto(c, [call[c] EXCEPT !.pc = "admitted", !.time = t])
  <2> PICK t \in Readings : Reads(t) /\ Goto(c, [call[c] EXCEPT !.pc = "admitted", !.time = t])
    BY <1>3
  <2>1. NoneRevived
    BY <1>1 DEF NoneRevived
  <2>2. ASSUME clock = "ordered"
        PROVE  InPast' /\ NoneLater' /\ Outdated'
    <3>1. InPast /\ NoneLater /\ Outdated
      BY <2>2 DEF RInv
    <3>2. t = now + 1 /\ now' = now + 1 /\ now \in Nat
      BY <2>2, Times DEF Readings, Reads
    <3>3. call'[c].time = t /\ \A b \in Call : b # c => call'[b] = call[b]
      BY CallFields DEF AInv, Calls, Goto, CallAt
    <3>4. \A b \in Call : b # c /\ Admitted(b)' => Admitted(b) /\ call'[b] = call[b]
      BY <3>3 DEF Admitted
    <3> HIDE DEF Admitted
    <3>5. /\ \A d \in Device : acc.devCutoff[d] \in Nat
          /\ \A k \in DOMAIN acc.tokens : acc.tokens[k].iat \in Nat
          /\ \A b \in Call : call[b].time \in Nat
      BY Times
    <3>6. \A k \in DOMAIN acc.tokens : acc.tokens[k].iat < call'[c].time
      BY <3>1, <3>2, <3>3, <3>5 DEF InPast
    <3>7. InPast'
      <4>1. \A k \in DOMAIN acc.tokens : acc.tokens[k].iat <= now'
        BY <3>1, <3>2, <3>5 DEF InPast
      <4>2. \A d \in Device : acc.devCutoff[d] <= now'
        BY <3>1, <3>2, <3>5 DEF InPast
      <4>3. ASSUME NEW b \in Call, Admitted(b)' PROVE call'[b].time <= now'
        <5>1. CASE b = c
          BY <3>2, <3>3, <5>1
        <5>2. CASE b # c
          BY <3>1, <3>2, <3>4, <3>5, <4>3, <5>2 DEF InPast
        <5> QED
          BY <5>1, <5>2
      <4> QED
        BY <1>1, <3>1, <4>1, <4>2, <4>3 DEF InPast
    <3>8. NoneLater'
      BY <1>1, <3>1, <3>4, <3>6 DEF NoneLater
    <3>9. Outdated'
      <4>1. ASSUME NEW b \in Call, NEW k \in DOMAIN acc.tokens, Admitted(b)',
                   call'[b].op = "login", acc.tokens[k].dev = Owner[b],
                   Owner[b] \notin acc.active, acc.tokens[k].iat >= acc.userCutoff,
                   acc.tokens[k].iat >= acc.devCutoff[Owner[b]]
            PROVE  acc.tokens[k].iat < call'[b].time
        <5>1. CASE b = c
          BY <3>6, <5>1
        <5>2. CASE b # c
          BY <3>1, <3>4, <4>1, <5>2 DEF Outdated
        <5> QED
          BY <5>1, <5>2
      <4> QED
        BY <1>1, <4>1 DEF Outdated
    <3> QED
      BY <3>7, <3>8, <3>9
  <2> QED
    BY <1>1, <2>1, <2>2 DEF RInv
<1> QED
  BY <1>2, <1>3 DEF Admit

\* A commit: the call was admitted at its time.
LEMMA CommitPast ==
    ASSUME AInv, RInv, clock = "ordered", NEW c \in Call, NEW op, Committing(c, op)
    PROVE  /\ Underway(c) /\ Admitted(c) /\ call[c].op = op
           /\ UNCHANGED <<clock, now>> /\ now <= now'
           /\ call[c].time \in Nat /\ call[c].time <= now'
           /\ Sound(acc) /\ acc.active \subseteq acc.known /\ Owner[c] \in Device
<1>1. Admitted(c) /\ call[c].op = op /\ UNCHANGED <<clock, now>>
  BY DEF Committing, Admitted
<1>2. call[c].time <= now /\ acc.active \subseteq acc.known
  BY <1>1 DEF RInv, InPast
<1> QED
  BY <1>1, <1>2, Times DEF AInv, Admitted, Underway

LEMMA AgesAfterCommit ==
    ASSUME AInv, AInv', RInv, TwoAtOnce, clock = "ordered", NEW c \in Call,
           \/ CommitLogin(c) \/ CommitLogout(c)
           \/ CommitPassword(c) \/ CommitRemove(c) \/ CommitDelete(c)
    PROVE  RInv' /\ NoneRevived
<1> DEFINE t == call[c].time
           d == Owner[c]
<1>1. PICK op : Committing(c, op)
  BY DEF CommitLogin, CommitLogout, CommitPassword, CommitRemove, CommitDelete
<1>2. /\ Underway(c) /\ Admitted(c)
      /\ UNCHANGED <<clock, now>> /\ now <= now'
      /\ t \in Nat /\ t <= now'
      /\ Sound(acc) /\ acc.active \subseteq acc.known /\ d \in Device
  BY <1>1, CommitPast
<1>3. PICK r : r.pc # "admitted" /\ Goto(c, r)
  <2> DEFINE reply(p, e) == [call[c] EXCEPT !.pc = "reply", !.put = p, !.end = e]
  <2>1. /\ \A p, e : reply(p, e).pc # "admitted"
        /\ Quiet.pc # "admitted"
    BY CallFields DEF Quiet, CallAt
  <2>2. (\E p, e : Goto(c, reply(p, e))) \/ Goto(c, Quiet)
    BY DEF CommitLogin, CommitLogout, CommitPassword, CommitRemove, CommitDelete, Reply
  <2> HIDE DEF reply
  <2> QED
    BY <2>1, <2>2
<1>4. CASE CommitLogin(c)
  <2>1. acc' = Login(acc, d, t) /\ call[c].op = "login"
    BY <1>4 DEF CommitLogin, Committing
  <2>2. /\ Ages(acc, acc', t)
        /\ acc'.active = acc.active \cup {d} /\ acc'.known = acc.known \cup {d}
        /\ t <= acc'.devCutoff[d] /\ acc'.userCutoff = acc.userCutoff
        /\ \A k \in DOMAIN acc'.tokens \ DOMAIN acc.tokens :
              acc'.tokens[k].dev = d /\ acc'.tokens[k].iat = acc'.devCutoff[d]
    BY <1>2, <2>1, LoginAges
  <2>3. acc'.devCutoff[d] <= now'
    <3>1. acc'.devCutoff[d] <= Later(acc.devCutoff[d], t)
      BY <1>2, <2>2 DEF Ages
    <3>2. acc.devCutoff[d] <= now /\ acc.devCutoff[d] \in Nat /\ now \in Nat
      BY <1>2, Times DEF RInv, InPast
    <3>3. acc'.devCutoff[d] \in Nat
      BY <1>2, AccountFields DEF AInv, Sound
    <3> QED
      BY <1>2, <3>1, <3>2, <3>3 DEF Later
  <2>4. RInv'
    BY <1>2, <1>3, <2>2, <2>3, TransactionAges DEF RInv
  <2>5. ASSUME NEW k \in DOMAIN acc.tokens, Authorized(acc', k)
        PROVE  Authorized(acc, k)
    <3> DEFINE i == acc.tokens[k].iat
               e == acc.tokens[k].dev
    <3>1. /\ acc'.tokens[k].dev = e /\ acc'.tokens[k].iat = i
          /\ i \in Nat /\ e \in Device /\ acc.devCutoff[e] \in Nat /\ acc.userCutoff \in Nat
      BY <2>2, Times DEF Ages
    <3>2. e \in acc'.active /\ i >= acc.userCutoff /\ i >= acc'.devCutoff[e]
      BY <2>2, <2>5, <3>1 DEF Authorized
    <3>3. acc'.devCutoff[e] \in Nat /\ acc.devCutoff[e] <= acc'.devCutoff[e]
      BY <2>2, <3>1, AccountFields DEF Ages, AInv, Sound
    <3>4. i >= acc.devCutoff[e]
      BY <3>1, <3>2, <3>3
    <3>5. e \in acc.active
      <4> SUFFICES ASSUME e \notin acc.active PROVE FALSE
        OBVIOUS
      <4>1. e = d
        BY <2>2, <3>2
      <4>2. i < t
        BY <1>2, <2>1, <3>2, <3>4, <4>1 DEF RInv, Outdated
      <4>3. i >= t
        BY <1>2, <2>2, <3>1, <3>2, <3>3, <4>1
      <4> QED
        BY <1>2, <3>1, <4>2, <4>3
    <3>6. ~acc.deleted
      BY <2>2, <2>5 DEF Authorized, Ages
    <3> QED
      BY <3>2, <3>4, <3>5, <3>6 DEF Authorized
  <2> QED
    BY <2>4, <2>5 DEF NoneRevived
<1>5. CASE CommitLogout(c) \/ CommitRemove(c)
  <2>1. PICK e \in Device : acc' = EndSession(acc, e, t)
    BY <1>2, <1>5 DEF CommitLogout, CommitRemove
  <2>2. /\ Ages(acc, acc', t)
        /\ acc'.active = acc.active \ {e} /\ acc'.known = acc.known
        /\ e \in acc.known => t <= acc'.devCutoff[e]
        /\ DOMAIN acc'.tokens = DOMAIN acc.tokens
    BY <1>2, <2>1, EndSessionAges
  <2>3. RInv'
    BY <1>2, <1>3, <2>2, TransactionAges DEF RInv
  <2> QED
    BY <1>2, <2>2, <2>3, NoneActivated
<1>6. CASE CommitPassword(c) \/ CommitDelete(c)
  <2>1. acc' \in {EndAllSessions(acc, t), DeleteAccount(acc, t)}
    BY <1>6 DEF CommitPassword, CommitDelete
  <2>2. /\ Ages(acc, acc', t)
        /\ acc'.active = {} /\ acc'.known = acc.known /\ t <= acc'.userCutoff
        /\ DOMAIN acc'.tokens = DOMAIN acc.tokens
    BY <1>2, <2>1, EndAllSessionsAges
  <2>3. RInv'
    BY <1>2, <1>3, <2>2, TransactionAges DEF RInv
  <2> QED
    BY <1>2, <2>2, <2>3, NoneActivated
<1> QED
  BY <1>4, <1>5, <1>6

LEMMA AgesAfterRefresh ==
    ASSUME AInv, AInv', RInv, TwoAtOnce, clock = "ordered", NEW c \in Call, HandleRefresh(c)
    PROVE  RInv' /\ NoneRevived
<1> DEFINE k == call[c].tok
           reply(p, e) == [call[c] EXCEPT !.pc = "reply", !.put = p, !.end = e]
<1> PICK t \in Readings :
        /\ Reads(t)
        /\ IF CanRefresh(acc, k, t)
           THEN acc' = Refresh(acc, k, t)
           ELSE IF IsReuse(acc, k) THEN acc' = EndAllSessions(acc, t) ELSE UNCHANGED acc
        /\ \E p, e : Goto(c, reply(p, e))
  BY DEF HandleRefresh, Reply
<1>1. /\ t = now + 1 /\ now' = now + 1 /\ now \in Nat /\ t \in Nat /\ now <= now' /\ t <= now'
      /\ t > now /\ clock' = clock /\ Sound(acc) /\ acc.active \subseteq acc.known
  BY Times DEF Readings, Reads, HandleRefresh, Handling, AInv, RInv, InPast
<1>2. Underway(c) /\ k \in DOMAIN acc.tokens
  BY CallFields, Tokens, AccountFields DEF HandleRefresh, Handling, Ready, NoToken, Underway
<1>3. PICK r : r.pc # "admitted" /\ Goto(c, r)
  <2>1. \A p, e : reply(p, e).pc # "admitted"
    BY CallFields DEF CallAt
  <2> HIDE DEF reply
  <2> QED
    BY <2>1
<1> HIDE DEF k
<1>4. CASE acc' = Refresh(acc, k, t) /\ CanRefresh(acc, k, t)
  <2>1. /\ Ages(acc, acc', t)
        /\ acc'.active = acc.active /\ acc'.known = acc.known
        /\ \A j \in DOMAIN acc'.tokens \ DOMAIN acc.tokens :
              acc'.tokens[j].dev = acc.tokens[k].dev /\ acc'.tokens[j].iat = t
    BY <1>1, <1>2, <1>4, RefreshAges
  <2>2. acc.tokens[k].dev \in acc'.active
    BY <1>4, <2>1 DEF CanRefresh
  <2>3. RInv'
    BY <1>1, <1>2, <1>3, <2>1, <2>2, TransactionAges DEF RInv
  <2> QED
    BY <1>1, <2>1, <2>3, NoneActivated
<1>5. CASE acc' = EndAllSessions(acc, t)
  <2>1. /\ Ages(acc, acc', t)
        /\ acc'.active = {} /\ acc'.known = acc.known /\ t <= acc'.userCutoff
        /\ DOMAIN acc'.tokens = DOMAIN acc.tokens
    BY <1>1, <1>5, EndAllSessionsAges
  <2>2. RInv'
    BY <1>1, <1>2, <1>3, <2>1, TransactionAges DEF RInv
  <2> QED
    BY <1>1, <2>1, <2>2, NoneActivated
<1>6. CASE UNCHANGED acc
  <2>1. SameAges(acc, acc')
    BY <1>6 DEF SameAges
  <2> QED
    BY <1>1, <1>3, <2>1, CallGoesOn, QuietAges
<1> QED
  BY <1>4, <1>5, <1>6

LEMMA AgesStay ==
    AInv /\ RInv /\ TwoAtOnce /\ [Next]_vars => RInv' /\ (clock = "ordered" => NoneRevived)
<1> SUFFICES ASSUME AInv, RInv, TwoAtOnce, [Next]_vars
             PROVE  RInv' /\ (clock = "ordered" => NoneRevived)
  OBVIOUS
<1>1. AInv'
  BY StepKeeps
<1>2. CASE clock # "ordered"
  <2>1. clock' = clock
    <3>1. CASE \E c \in Call : Start(c)
      BY <3>1 DEF Start, StartLogin, StartRefresh, StartLogout, GetValidToken, Begin
    <3>2. CASE \E c \in Call : Handle(c)
      BY <3>2 DEF Handle, Admit, Handling, HandleRefresh, CommitLogin, CommitLogout,
                  CommitPassword, CommitRemove, CommitDelete, Committing
    <3>3. CASE \E c \in Call : Finish(c) \/ Lose(c) \/ FailWrite(c)
      BY <3>3 DEF Finish, StoreFile, StoreToken, StoreState, Ending, Lose, FailWrite, Fault
    <3>4. CASE \/ \E d \in Device : Restart(d)
               \/ \E k \in DOMAIN acc.tokens : Expire(k)
               \/ UNCHANGED vars
      BY <3>4 DEF Restart, Expire, Fault, vars
    <3> QED
      BY <3>1, <3>2, <3>3, <3>4 DEF Next
  <2> QED
    BY <1>2, <2>1 DEF RInv
<1>3. CASE clock = "ordered"
  <2>1. CASE \E c \in Call : Start(c) \/ Finish(c) \/ Lose(c) \/ FailWrite(c)
    BY <1>1, <2>1, AgesAfterStart, AgesAfterFinish, AgesAfterLoss
  <2>2. CASE \E c \in Call : Handle(c)
    BY <1>1, <1>3, <2>2, AgesAfterAdmission, AgesAfterCommit, AgesAfterRefresh DEF Handle
  <2>3. CASE \E d \in Device : Restart(d)
    BY <1>1, <2>3, AgesAfterRestart
  <2>4. CASE \E k \in DOMAIN acc.tokens : Expire(k)
    BY <1>1, <2>4, AgesAfterExpiry
  <2>5. CASE UNCHANGED vars
    <3>1. UNCHANGED <<acc, clock, now, call>>
      BY <2>5 DEF vars
    <3> QED
      BY <1>1, <3>1, RestAges
  <2> QED
    BY <2>1, <2>2, <2>3, <2>4, <2>5 DEF Next
<1> QED
  BY <1>2, <1>3

(* With a clock that only goes forward and never more than two requests at *)
(* the server at once, of any number of calls, an access token that the    *)
(* middleware refused is refused from then on, whatever logins, exchanges  *)
(* and sign-outs commit in whatever order (handlers/auth.rs,               *)
(* middleware.rs).                                                         *)
THEOREM RefusedStaysRefused ==
    Spec /\ []TwoAtOnce => [][clock = "ordered" => NoneRevived]_vars
  BY Initially, StepKeeps, AgesAtFirst, AgesStay, PTL DEF Spec

LEMMA TwoCalls == ASSUME IsFiniteSet(Call), Cardinality(Call) <= 2 PROVE TwoAtOnce
<1> SUFFICES ASSUME NEW b \in Call, NEW c \in Call, NEW d \in Call, b # c, c # d, b # d
             PROVE  FALSE
  BY DEF TwoAtOnce
<1>1. IsFiniteSet({b, c}) /\ Cardinality({b, c}) = 2
  <2>1. IsFiniteSet({c}) /\ Cardinality({c}) = 1
    BY FS_Singleton
  <2>2. {b, c} = {c} \cup {b} /\ b \notin {c}
    OBVIOUS
  <2> QED
    BY <2>1, <2>2, FS_AddElement
<1>2. IsFiniteSet({b, c, d}) /\ Cardinality({b, c, d}) = 3
  <2> DEFINE s == {b, c}
  <2>1. {b, c, d} = s \cup {d} /\ d \notin s
    OBVIOUS
  <2>2. IsFiniteSet(s) /\ Cardinality(s) = 2
    BY <1>1
  <2> HIDE DEF s
  <2>3. IsFiniteSet(s \cup {d}) /\ Cardinality(s \cup {d}) = 3
    BY <2>1, <2>2, FS_AddElement
  <2> QED
    BY <2>1, <2>3
<1>3. Cardinality({b, c, d}) <= Cardinality(Call)
  BY FS_Subset
<1>4. Cardinality(Call) \in Nat
  BY FS_CardinalityType
<1> QED
  BY <1>2, <1>3, <1>4

(* The same of two calls, as the runs check it: two requests cannot make a *)
(* token that was refused come back (handlers/auth.rs, middleware.rs).     *)
THEOREM TwoReviveNone == ASSUME IsFiniteSet(Call) PROVE Spec => NoRevival
<1>1. CASE Cardinality(Call) <= 2
  <2>1. TwoAtOnce
    BY <1>1, TwoCalls
  <2>2. AInv /\ RInv /\ [Next]_vars => RInv' /\
          (clock = "ordered" /\ Cardinality(Call) <= 2 =>
               \A k \in DOMAIN acc.tokens : Authorized(acc', k) => Authorized(acc, k))
    BY <2>1, AgesStay DEF NoneRevived
  <2> QED
    BY <2>2, Initially, StepKeeps, AgesAtFirst, PTL DEF Spec, NoRevival
<1>2. CASE ~(Cardinality(Call) <= 2)
  <2>1. clock = "ordered" /\ Cardinality(Call) <= 2 =>
            \A k \in DOMAIN acc.tokens : Authorized(acc', k) => Authorized(acc, k)
    BY <1>2
  <2> QED
    BY <2>1, PTL DEF NoRevival
<1> QED
  BY <1>1, <1>2
=============================================================================
