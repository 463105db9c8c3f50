-------------------------------- MODULE Access --------------------------------
(***************************************************************************)
(* Who gets in (backend/internal/auth, token, and the checks made by the    *)
(* relay and the endpoints): admins exchange a Firebase identity for a      *)
(* token, guests a room's code, under a sliding-window limit per address;   *)
(* tokens expire, and are checked when a request or a handshake arrives.    *)
(*                                                                         *)
(* Time is a counter.  An identity is a user, a code is what the guest      *)
(* typed once trimmed and in upper case, an address is what clientIP        *)
(* returns.  Tokens are records: signatures are assumed to be unforgeable.  *)
(***************************************************************************)
EXTENDS Naturals, FiniteSets, Sequences

CONSTANTS
    Addresses, Users, Rooms, Codes,
    Allowlist,   \* the users who are admins
    NoRoom,      \* the room claim of an admin's token; a room that is not there
    NoGrant,     \* nothing has been granted yet
    Max, Window, \* the limiter's: allowed attempts per length of time
    TTL,         \* how long a token is good
    MaxTime,     \* the clock stops here (a bound)
    MaxAttempts, \* allowed attempts of an address (a bound)
    MaxProofs    \* sign-ins and right codes (a bound)

ASSUME AccessAssumption ==
    /\ Allowlist \subseteq Users
    /\ NoRoom \notin Rooms
    /\ Max \in Nat \ {0}
    /\ {Window, TTL, MaxTime, MaxAttempts, MaxProofs} \subseteq Nat

VARIABLES
    now,
    log,      \* history: the times of an address's allowed attempts
    hits,     \* rateLimiter.hits: the attempts it remembers, as positions in log
    code,     \* the code each room has, or will have
    fresh,    \* room ids not yet drawn
    live,     \* rooms in the registry
    tokens,   \* tokens issued
    pending,  \* rooms with a connection that has not authenticated yet
    proofs,   \* history: which user signed in, which room's code was given, when
    grant     \* history: the last access granted

vars == <<now, log, hits, code, fresh, live, tokens, pending, proofs, grant>>
limiterVars == <<log, hits>>
roomVars == <<code, fresh, live>>

Token == [role : {"admin"}, room : {NoRoom}, sub : Users, exp : Nat]
    \cup [role : {"guest"}, room : Rooms, exp : Nat]
Proof == [role : {"admin"}, sub : Users, at : Nat]
    \cup [role : {"guest"}, room : Rooms, at : Nat]
Grant == [role : {"admin", "guest"}, room : Rooms \cup {NoRoom}, at : Nat]

TypeOK ==
    /\ now \in Nat
    /\ log \in [Addresses -> Seq(Nat)]
    /\ hits \in [Addresses -> SUBSET Nat]
    /\ \A a \in Addresses : hits[a] \subseteq 1..Len(log[a])
    /\ code \in [Rooms -> Codes]
    /\ fresh \subseteq Rooms
    /\ live \subseteq Rooms \ fresh
    /\ tokens \subseteq Token
    /\ pending \subseteq Rooms \ fresh
    /\ proofs \subseteq Proof
    /\ grant \in Grant \cup {NoGrant}

Init ==
    /\ now = 0
    /\ log = [a \in Addresses |-> << >>]
    /\ hits = [a \in Addresses |-> {}]
    /\ code \in [Rooms -> Codes]
    /\ fresh = Rooms
    /\ live = {}
    /\ tokens = {}
    /\ pending = {}
    /\ proofs = {}
    /\ grant = NoGrant

Tick ==
    /\ now < MaxTime
    /\ now' = now + 1
    /\ UNCHANGED <<limiterVars, roomVars, tokens, pending, proofs, grant>>

-----------------------------------------------------------------------------
(* The limiter: Allow runs under its mutex and reads the clock there.       *)

\* Fault: an attempt is forgotten one unit of time early.
KeptTooFew(a) == {i \in hits[a] : log[a][i] + Window > now + 1}

\* t.After(now.Add(-window))
Kept(a) == {i \in hits[a] : log[a][i] + Window > now}

Allow(a) ==
    /\ Cardinality(Kept(a)) < Max
    /\ log' = [log EXCEPT ![a] = Append(@, now)]
    /\ hits' = [hits EXCEPT ![a] = Kept(a) \cup {Len(log[a]) + 1}]

Deny(a) ==
    /\ Cardinality(Kept(a)) >= Max
    /\ hits' = [hits EXCEPT ![a] = Kept(a)]
    /\ UNCHANGED log

-----------------------------------------------------------------------------
(* Logins.                                                                  *)

GuestToken(r) == [role |-> "guest", room |-> r, exp |-> now + TTL]
AdminToken(u) == [role |-> "admin", room |-> NoRoom, sub |-> u, exp |-> now + TTL]

\* For the history.
CodeGiven(r) == [role |-> "guest", room |-> r, at |-> now]
SignedIn(u) == [role |-> "admin", sub |-> u, at |-> now]

\* Nothing that another request does between the lookup and the answer
\* matters: a room's id and code never change.
GuestLogin ==
    \E a \in Addresses, r \in Rooms, k \in Codes :
        /\ Len(log[a]) < MaxAttempts
        /\ Allow(a)
        /\ tokens' = tokens \cup IF r \in live /\ code[r] = k THEN {GuestToken(r)} ELSE {}
        /\ proofs' = proofs \cup IF code[r] = k THEN {CodeGiven(r)} ELSE {}
        /\ Cardinality(proofs') <= MaxProofs
        /\ UNCHANGED <<now, roomVars, pending, grant>>

GuestLoginDenied ==
    \E a \in Addresses :
        /\ Deny(a)
        /\ UNCHANGED <<now, roomVars, tokens, pending, proofs, grant>>

AdminLogin ==
    \E u \in Users :
        /\ tokens' = tokens \cup IF u \in Allowlist THEN {AdminToken(u)} ELSE {}
        /\ proofs' = proofs \cup {SignedIn(u)}
        /\ Cardinality(proofs') <= MaxProofs
        /\ UNCHANGED <<now, limiterVars, roomVars, pending, grant>>

-----------------------------------------------------------------------------
(* The use of tokens.                                                       *)

\* Fault: a token is good until the end of its last unit of time.
ParseLate(t) == t \in tokens /\ now <= t.exp

\* Issuer.Parse: ours, and not expired.
Parse(t) == t \in tokens /\ now < t.exp

AuthorizeRoom(t, r) ==
    \/ t.role = "guest" /\ t.room = r
    \/ t.role = "admin" /\ r \in live

\* Middleware, and the handlers' requireAdmin.
RequireAdmin(t) ==
    /\ Parse(t)
    /\ t.role = "admin"
    /\ grant' = [role |-> t.role, room |-> NoRoom, at |-> now]

\* Fault: an id is drawn again.
CreateRoomAgain ==
    \E t \in tokens, r \in fresh :
        /\ RequireAdmin(t)
        /\ live' = live \cup {r}
        /\ UNCHANGED <<now, limiterVars, code, fresh, tokens, pending, proofs>>

CreateRoom ==
    \E t \in tokens, r \in fresh :
        /\ RequireAdmin(t)
        /\ fresh' = fresh \ {r}
        /\ live' = live \cup {r}
        /\ UNCHANGED <<now, limiterVars, code, tokens, pending, proofs>>

CloseRoom ==
    \E t \in tokens, r \in live :
        /\ RequireAdmin(t)
        /\ live' = live \ {r}
        /\ UNCHANGED <<now, limiterVars, code, fresh, tokens, pending, proofs>>

\* A socket arrives for a room that is there ...
Connect ==
    \E r \in live \ pending :
        /\ pending' = pending \cup {r}
        /\ UNCHANGED <<now, limiterVars, roomVars, tokens, proofs, grant>>

\* ... and sends its token, possibly much later, ...
Authenticate ==
    \E r \in pending, t \in tokens :
        /\ Parse(t)
        /\ AuthorizeRoom(t, r)
        /\ pending' = pending \ {r}
        /\ grant' = [role |-> t.role, room |-> r, at |-> now]
        /\ UNCHANGED <<now, limiterVars, roomVars, tokens, proofs>>

\* ... or one that is refused, or nothing that is a token.
AuthenticateFails ==
    \E r \in pending :
        /\ pending' = pending \ {r}
        /\ UNCHANGED <<now, limiterVars, roomVars, tokens, proofs, grant>>

Next ==
    \/ Tick \/ GuestLogin \/ GuestLoginDenied \/ AdminLogin
    \/ CreateRoom \/ CloseRoom \/ Connect \/ Authenticate \/ AuthenticateFails

Spec == Init /\ [][Next]_vars
-----------------------------------------------------------------------------
(***************************************************************************)
(* "Cap guest code attempts": whatever the spacing of the requests, an      *)
(* allowed attempt comes at least a window after the one that is Max        *)
(* before it, so no half-open window has more than Max of them.             *)
(***************************************************************************)
WindowBound ==
    \A a \in Addresses : \A i \in 1..Len(log[a]) :
        i > Max => log[a][i] >= log[a][i - Max] + Window

(***************************************************************************)
(* Access to a room, or to an endpoint for admins, was granted to an admin  *)
(* who signed in as a user of the allowlist less than TTL before, or to a   *)
(* guest who then gave the code of that very room.                          *)
(***************************************************************************)
AccessWasProved ==
    grant # NoGrant =>
        \E p \in proofs :
            /\ p.role = grant.role
            /\ p.at <= grant.at /\ grant.at < p.at + TTL
            /\ \/ p.role = "admin" /\ p.sub \in Allowlist
               \/ p.role = "guest" /\ p.room = grant.room
=============================================================================
