----------------------------- MODULE AccessProofs -----------------------------
(***************************************************************************)
(* The limiter's bound and the safety of tokens, for any number of          *)
(* addresses, users, rooms and codes, any limit, window and TTL.            *)
(***************************************************************************)
EXTENDS Access, FiniteSetTheorems, TLAPS

-----------------------------------------------------------------------------
(* Types.                                                                   *)

\* The initial state is typed.
LEMMA TypeInit == Init => TypeOK
BY DEF Init, TypeOK

\* What the limiter does keeps positions within the log.
LEMMA LimiterTyped ==
    ASSUME TypeOK, NEW a \in Addresses, Allow(a) \/ Deny(a)
    PROVE  /\ log' \in [Addresses -> Seq(Nat)]
           /\ hits' \in [Addresses -> SUBSET Nat]
           /\ \A b \in Addresses : hits'[b] \subseteq 1..Len(log'[b])
<1>1. Kept(a) \subseteq hits[a] /\ hits[a] \subseteq 1..Len(log[a])
  BY DEF Kept, TypeOK
<1>2. Len(log[a]) \in Nat /\ now \in Nat
  BY DEF TypeOK
<1>3. CASE Allow(a)
  <2>1. log' = [log EXCEPT ![a] = Append(log[a], now)]
    BY <1>3 DEF Allow
  <2>2. hits' = [hits EXCEPT ![a] = Kept(a) \cup {Len(log[a]) + 1}]
    BY <1>3 DEF Allow
  <2>3. Append(log[a], now) \in Seq(Nat) /\ Len(Append(log[a], now)) = Len(log[a]) + 1
    BY DEF TypeOK
  <2>4. Kept(a) \cup {Len(log[a]) + 1} \subseteq 1..(Len(log[a]) + 1)
    BY <1>1, <1>2
  <2> QED BY <2>1, <2>2, <2>3, <2>4, <1>2 DEF TypeOK
<1>4. CASE Deny(a)
  BY <1>1, <1>2, <1>4 DEF Deny, TypeOK
<1> QED BY <1>3, <1>4

\* Every step keeps the state typed.
LEMMA TypeNext == TypeOK /\ [Next]_vars => TypeOK'
<1> SUFFICES ASSUME TypeOK, [Next]_vars PROVE TypeOK'
  OBVIOUS
<1> USE AccessAssumption
<1>1. CASE Tick
  BY <1>1 DEF Tick, TypeOK, limiterVars, roomVars
<1>2. CASE GuestLogin
  <2>1. PICK a \in Addresses, r \in Rooms, k \in Codes :
          /\ Allow(a)
          /\ tokens' \subseteq tokens \cup {GuestToken(r)}
          /\ proofs' \subseteq proofs \cup {CodeGiven(r)}
          /\ UNCHANGED <<now, roomVars, pending, grant>>
    BY <1>2 DEF GuestLogin
  <2>2. GuestToken(r) \in Token /\ CodeGiven(r) \in Proof
    BY DEF GuestToken, CodeGiven, Token, Proof, TypeOK
  <2>3. tokens' \subseteq Token /\ proofs' \subseteq Proof
    BY <2>1, <2>2 DEF TypeOK
  <2> QED BY <2>1, <2>3, LimiterTyped DEF TypeOK, roomVars
<1>3. CASE GuestLoginDenied
  <2>1. PICK a \in Addresses : Deny(a) /\ UNCHANGED <<now, roomVars, tokens, pending, proofs, grant>>
    BY <1>3 DEF GuestLoginDenied
  <2> QED BY <2>1, LimiterTyped DEF TypeOK, roomVars
<1>4. CASE AdminLogin
  <2>1. PICK u \in Users :
          /\ tokens' \subseteq tokens \cup {AdminToken(u)}
          /\ proofs' = proofs \cup {SignedIn(u)}
          /\ UNCHANGED <<now, limiterVars, roomVars, pending, grant>>
    BY <1>4 DEF AdminLogin
  <2>2. AdminToken(u) \in Token /\ SignedIn(u) \in Proof
    BY DEF AdminToken, SignedIn, Token, Proof, TypeOK
  <2> QED BY <2>1, <2>2 DEF TypeOK, limiterVars, roomVars
<1>5. CASE CreateRoom
  BY <1>5 DEF CreateRoom, RequireAdmin, TypeOK, Grant, limiterVars
<1>6. CASE CloseRoom
  BY <1>6 DEF CloseRoom, RequireAdmin, TypeOK, Grant, limiterVars
<1>7. CASE Connect
  BY <1>7 DEF Connect, TypeOK, limiterVars, roomVars
<1>8. CASE Authenticate
  BY <1>8 DEF Authenticate, AuthorizeRoom, TypeOK, Grant, limiterVars, roomVars
<1>9. CASE AuthenticateFails
  BY <1>9 DEF AuthenticateFails, TypeOK, limiterVars, roomVars
<1>10. CASE UNCHANGED vars
  BY <1>10 DEF vars, TypeOK
<1> QED BY <1>1, <1>2, <1>3, <1>4, <1>5, <1>6, <1>7, <1>8, <1>9, <1>10 DEF Next

\* Tokens, remembered attempts and what was granted are always of their types.
THEOREM AccessTypeCorrect == Spec => []TypeOK
BY TypeInit, TypeNext, PTL DEF Spec

-----------------------------------------------------------------------------
(* The limiter.                                                             *)

\* The log is in order of time and ends by now.
InOrderOfTime ==
    \A a \in Addresses : \A i \in 1..Len(log[a]) :
        /\ log[a][i] <= now
        /\ \A j \in i..Len(log[a]) : log[a][i] <= log[a][j]

\* What is younger than the window is remembered.
RecentRemembered ==
    \A a \in Addresses : \A i \in 1..Len(log[a]) :
        log[a][i] + Window > now => i \in hits[a]

LimiterInv == TypeOK /\ InOrderOfTime /\ RecentRemembered /\ WindowBound

\* When an attempt is allowed, the one Max before it is out of the window: of
\* the last Max attempts one is forgotten, and the log is in order.
LEMMA AllowedInTime ==
    ASSUME LimiterInv, NEW a \in Addresses, Allow(a), Len(log[a]) >= Max
    PROVE  now >= log[a][Len(log[a]) + 1 - Max] + Window
<1> DEFINE n == Len(log[a])
           last == (n + 1 - Max)..n
<1>0. /\ n \in Nat /\ Max \in Nat /\ Max > 0 /\ now \in Nat /\ Window \in Nat
      /\ \A i \in 1..n : log[a][i] \in Nat
  BY AccessAssumption DEF LimiterInv, TypeOK
<1>1. IsFiniteSet(last) /\ Cardinality(last) = Max
  <2>1. n + 1 - Max \in Int /\ n \in Int /\ n + 1 - Max <= n
    BY <1>0
  <2>2. /\ IsFiniteSet(last)
        /\ Cardinality(last) = IF n + 1 - Max > n THEN 0 ELSE n - (n + 1 - Max) + 1
    <3> HIDE DEF n
    <3> QED BY <2>1, FS_Interval
  <2>3. n - (n + 1 - Max) + 1 = Max
    BY <1>0
  <2> HIDE DEF last, n
  <2> QED BY <2>1, <2>2, <2>3, <1>0
<1>2. IsFiniteSet(Kept(a))
  <2>1. Kept(a) \subseteq 1..n
    BY DEF Kept, LimiterInv, TypeOK
  <2>2. IsFiniteSet(1..n)
    BY <1>0, FS_Interval
  <2> QED BY <2>1, <2>2, FS_Subset
<1>3. Cardinality(Kept(a)) < Max
  BY DEF Allow
<1>4. ~(last \subseteq Kept(a))
  <2>1. SUFFICES ASSUME last \subseteq Kept(a) PROVE FALSE
    OBVIOUS
  <2>2. Cardinality(last) <= Cardinality(Kept(a))
    BY <2>1, <1>2, FS_Subset
  <2>3. Cardinality(Kept(a)) \in Nat
    BY <1>2, FS_CardinalityType
  <2> QED BY <2>2, <2>3, <1>1, <1>3, <1>0
<1>5. PICK j \in last : j \notin Kept(a)
  BY <1>4
<1>6. j \in 1..n /\ n + 1 - Max \in 1..n /\ j \in (n + 1 - Max)..n
  BY <1>0, <1>5
<1>7. log[a][j] + Window <= now
  BY <1>0, <1>5, <1>6 DEF Kept, LimiterInv, RecentRemembered
<1>8. log[a][n + 1 - Max] <= log[a][j]
  BY <1>6 DEF LimiterInv, InOrderOfTime
<1>9. log[a][n + 1 - Max] \in Nat /\ log[a][j] \in Nat
  BY <1>0, <1>6
<1> HIDE DEF n
<1>10. now >= log[a][n + 1 - Max] + Window
  BY <1>0, <1>7, <1>8, <1>9
<1> QED BY <1>10 DEF n

\* An allowed attempt keeps the limiter's invariant.
LEMMA AllowKeepsInv ==
    ASSUME LimiterInv, NEW a \in Addresses, Allow(a), now' = now, TypeOK'
    PROVE  LimiterInv'
<1> DEFINE n == Len(log[a])
<1>0. /\ n \in Nat /\ Max \in Nat /\ Max > 0 /\ now \in Nat /\ Window \in Nat
      /\ log[a] \in Seq(Nat)
  BY AccessAssumption DEF LimiterInv, TypeOK
<1>1. /\ \A b \in Addresses \ {a} : log'[b] = log[b] /\ hits'[b] = hits[b]
      /\ log'[a] = Append(log[a], now)
      /\ hits'[a] = Kept(a) \cup {n + 1}
  BY DEF Allow, LimiterInv, TypeOK
<1>2. /\ Len(log'[a]) = n + 1
      /\ log'[a][n + 1] = now
      /\ \A i \in 1..n : log'[a][i] = log[a][i]
  BY <1>0, <1>1
<1>3. InOrderOfTime'
  <2> SUFFICES ASSUME NEW b \in Addresses, NEW i \in 1..Len(log'[b])
               PROVE  /\ log'[b][i] <= now'
                      /\ \A j \in i..Len(log'[b]) : log'[b][i] <= log'[b][j]
    BY DEF InOrderOfTime
  <2>1. CASE b # a
    BY <1>1, <2>1 DEF LimiterInv, InOrderOfTime
  <2>2. CASE b = a
    <3>1. log'[a][i] <= now
      BY <1>0, <1>2, <2>2 DEF LimiterInv, InOrderOfTime
    <3>2. ASSUME NEW j \in i..Len(log'[a]) PROVE log'[a][i] <= log'[a][j]
      <4>1. CASE j = n + 1
        BY <3>1, <4>1, <1>2
      <4>2. CASE j # n + 1
        <5>1. j \in 1..n /\ i \in 1..n /\ j \in i..n
          BY <1>0, <1>2, <2>2, <4>2
        <5> QED BY <5>1, <1>2 DEF LimiterInv, InOrderOfTime
      <4> QED BY <4>1, <4>2
    <3> QED BY <2>2, <3>1, <3>2
  <2> QED BY <2>1, <2>2
<1>4. RecentRemembered'
  <2> SUFFICES ASSUME NEW b \in Addresses, NEW i \in 1..Len(log'[b]), log'[b][i] + Window > now
               PROVE  i \in hits'[b]
    BY DEF RecentRemembered
  <2>1. CASE b # a
    BY <1>1, <2>1 DEF LimiterInv, RecentRemembered
  <2>2. CASE b = a /\ i = n + 1
    BY <1>1, <2>2
  <2>3. CASE b = a /\ i # n + 1
    <3>1. i \in 1..n
      BY <1>0, <1>2, <2>3
    <3> QED BY <3>1, <1>1, <1>2, <2>3 DEF LimiterInv, RecentRemembered, Kept
  <2> QED BY <2>1, <2>2, <2>3
<1>5. WindowBound'
  <2> SUFFICES ASSUME NEW b \in Addresses, NEW i \in 1..Len(log'[b]), i > Max
               PROVE  log'[b][i] >= log'[b][i - Max] + Window
    BY DEF WindowBound
  <2>1. CASE b # a
    BY <1>1, <2>1 DEF LimiterInv, WindowBound
  <2>2. CASE b = a /\ i = n + 1
    <3>1. n >= Max /\ n + 1 - Max \in 1..n
      BY <1>0, <2>2
    <3>2. now >= log[a][n + 1 - Max] + Window
      BY <3>1, AllowedInTime
    <3>3. log'[a][n + 1] = now /\ log'[a][n + 1 - Max] = log[a][n + 1 - Max]
      BY <3>1, <1>2
    <3>4. log'[a][n + 1] >= log'[a][n + 1 - Max] + Window
      BY <3>2, <3>3
    <3>5. log'[b] = log'[a] /\ i = n + 1 /\ i - Max = n + 1 - Max
      BY <1>0, <2>2
    <3> QED BY <3>4, <3>5
  <2>3. CASE b = a /\ i # n + 1
    <3>1. i \in 1..n /\ i - Max \in 1..n
      BY <1>0, <1>2, <2>3
    <3> QED BY <3>1, <1>2, <2>3 DEF LimiterInv, WindowBound
  <2> QED BY <2>1, <2>2, <2>3
<1> QED BY <1>3, <1>4, <1>5 DEF LimiterInv

\* A refused attempt only forgets what is out of the window.
LEMMA DenyKeepsInv ==
    ASSUME LimiterInv, NEW a \in Addresses, Deny(a), now' = now, TypeOK'
    PROVE  LimiterInv'
<1>1. RecentRemembered'
  <2> SUFFICES ASSUME NEW b \in Addresses, NEW i \in 1..Len(log[b]), log[b][i] + Window > now
               PROVE  i \in hits'[b]
    BY DEF Deny, RecentRemembered
  <2>1. i \in hits[b]
    BY DEF LimiterInv, RecentRemembered
  <2> QED BY <2>1 DEF Deny, Kept, LimiterInv, TypeOK
<1> QED BY <1>1 DEF Deny, LimiterInv, InOrderOfTime, WindowBound

\* Time passes: nothing becomes younger.
LEMMA TickKeepsInv ==
    ASSUME LimiterInv, Tick, TypeOK'
    PROVE  LimiterInv'
<1>0. /\ now \in Nat /\ now' = now + 1 /\ Window \in Nat
      /\ UNCHANGED <<log, hits>>
      /\ \A a \in Addresses : \A i \in 1..Len(log[a]) : log[a][i] \in Nat
  BY AccessAssumption DEF LimiterInv, TypeOK, Tick, limiterVars
<1>1. InOrderOfTime'
  BY <1>0 DEF LimiterInv, InOrderOfTime
<1>2. RecentRemembered'
  BY <1>0 DEF LimiterInv, RecentRemembered
<1> QED BY <1>0, <1>1, <1>2 DEF LimiterInv, WindowBound

\* Every step keeps the limiter's invariant.
LEMMA LimiterNext == LimiterInv /\ [Next]_vars => LimiterInv'
<1> SUFFICES ASSUME LimiterInv, [Next]_vars PROVE LimiterInv'
  OBVIOUS
<1>0. TypeOK'
  BY TypeNext DEF LimiterInv
<1>1. CASE Tick
  BY <1>0, <1>1, TickKeepsInv
<1>2. CASE GuestLogin
  BY <1>0, <1>2, AllowKeepsInv DEF GuestLogin
<1>3. CASE GuestLoginDenied
  BY <1>0, <1>3, DenyKeepsInv DEF GuestLoginDenied
<1>4. CASE UNCHANGED <<now, limiterVars>>
  BY <1>0, <1>4 DEF LimiterInv, InOrderOfTime, RecentRemembered, WindowBound, limiterVars
<1>5. CASE AdminLogin \/ CreateRoom \/ CloseRoom \/ Connect \/ Authenticate \/ AuthenticateFails \/ UNCHANGED vars
  BY <1>4, <1>5 DEF AdminLogin, CreateRoom, CloseRoom, Connect, Authenticate, AuthenticateFails, vars, limiterVars
<1> QED BY <1>1, <1>2, <1>3, <1>5 DEF Next

\* rateLimiter.Allow: for any limit and window and however the requests are
\* spaced, no window has more than Max allowed attempts of an address.
THEOREM AttemptsAreLimited == Spec => []WindowBound
<1>1. Init => LimiterInv
  BY TypeInit DEF Init, LimiterInv, InOrderOfTime, RecentRemembered, WindowBound
<1>2. LimiterInv => WindowBound
  BY DEF LimiterInv
<1> QED BY <1>1, <1>2, LimiterNext, PTL DEF Spec

-----------------------------------------------------------------------------
(* Tokens.                                                                  *)

\* p is what the token t was issued for.
IssuedFor(t, p) ==
    /\ p.at <= now /\ t.exp = p.at + TTL
    /\ \/ t.role = "admin" /\ p.role = "admin" /\ p.sub \in Allowlist
       \/ t.role = "guest" /\ p.role = "guest" /\ p.room = t.room

TokensProved == \A t \in tokens : \E p \in proofs : IssuedFor(t, p)

TokenInv == TypeOK /\ TokensProved /\ AccessWasProved

\* Steps that issue no token and grant nothing keep the invariant, time included.
LEMMA QuietKeepsTokens ==
    ASSUME TokenInv, TypeOK', UNCHANGED <<tokens, grant>>, proofs \subseteq proofs',
           now' \in {now, now + 1}
    PROVE  TokenInv'
<1>1. \A p \in proofs : p.at \in Nat
  BY DEF TokenInv, TypeOK, Proof
<1>2. TokensProved'
  <2> SUFFICES ASSUME NEW t \in tokens PROVE \E p \in proofs' : IssuedFor(t, p)'
    BY DEF TokensProved
  <2>1. PICK p \in proofs : IssuedFor(t, p)
    BY DEF TokenInv, TokensProved
  <2>2. p.at \in Nat /\ now \in Nat
    BY <1>1 DEF TokenInv, TypeOK
  <2>3. IssuedFor(t, p)'
    BY <2>1, <2>2 DEF IssuedFor
  <2> QED BY <2>3
<1>3. AccessWasProved'
  BY DEF TokenInv, AccessWasProved
<1> QED BY <1>2, <1>3 DEF TokenInv

\* A login issues a token together with its reason.
LEMMA LoginKeepsTokens ==
    ASSUME TokenInv, TypeOK', UNCHANGED <<now, grant>>,
           NEW t \in Token, NEW q \in Proof, IssuedFor(t, q),
           tokens' = tokens \cup {t}, proofs' = proofs \cup {q}
    PROVE  TokenInv'
<1>1. TokensProved'
  <2> SUFFICES ASSUME NEW x \in tokens' PROVE \E p \in proofs' : IssuedFor(x, p)'
    BY DEF TokensProved
  <2>1. \E p \in proofs' : IssuedFor(x, p)
    BY DEF TokenInv, TokensProved
  <2> QED BY <2>1 DEF IssuedFor
<1>2. AccessWasProved'
  BY DEF TokenInv, AccessWasProved
<1> QED BY <1>1, <1>2 DEF TokenInv

\* What is granted to the holder of a valid token rests on the token's reason.
LEMMA GrantKeepsTokens ==
    ASSUME TokenInv, TypeOK', UNCHANGED <<now, tokens, proofs>>,
           NEW t \in tokens, Parse(t), NEW r \in Rooms \cup {NoRoom},
           t.role = "admin" \/ t.room = r,
           grant' = [role |-> t.role, room |-> r, at |-> now]
    PROVE  TokenInv'
<1>1. TokensProved'
  BY DEF TokenInv, TokensProved, IssuedFor
<1>2. PICK p \in proofs : IssuedFor(t, p)
  BY DEF TokenInv, TokensProved
<1>3. grant'.role = t.role /\ grant'.room = r /\ grant'.at = now
  OBVIOUS
<1>4. p.at <= now /\ now < p.at + TTL
  BY <1>2 DEF IssuedFor, Parse
<1>5. /\ p.role = t.role
      /\ (p.role = "admin" /\ p.sub \in Allowlist) \/ (p.role = "guest" /\ p.room = r)
  BY <1>2 DEF IssuedFor
<1>6. AccessWasProved'
  BY <1>3, <1>4, <1>5 DEF AccessWasProved
<1> QED BY <1>1, <1>6 DEF TokenInv

\* Every step keeps the invariant of tokens.
LEMMA TokenNext == TokenInv /\ [Next]_vars => TokenInv'
<1> SUFFICES ASSUME TokenInv, [Next]_vars PROVE TokenInv'
  OBVIOUS
<1>0. TypeOK' /\ now \in Nat /\ TTL \in Nat
  BY TypeNext, AccessAssumption DEF TokenInv, TypeOK
<1>1. CASE GuestLogin
  <2>1. PICK r \in Rooms :
          /\ \/ tokens' = tokens \cup {GuestToken(r)} /\ proofs' = proofs \cup {CodeGiven(r)}
             \/ UNCHANGED tokens /\ proofs \subseteq proofs'
          /\ UNCHANGED <<now, grant>>
    BY <1>1 DEF GuestLogin
  <2>2. GuestToken(r) \in Token /\ CodeGiven(r) \in Proof /\ IssuedFor(GuestToken(r), CodeGiven(r))
    BY <1>0 DEF GuestToken, CodeGiven, Token, Proof, IssuedFor
  <2>3. CASE UNCHANGED tokens /\ proofs \subseteq proofs'
    BY <1>0, <2>1, <2>3, QuietKeepsTokens
  <2>4. CASE tokens' = tokens \cup {GuestToken(r)} /\ proofs' = proofs \cup {CodeGiven(r)}
    BY <1>0, <2>1, <2>2, <2>4, LoginKeepsTokens
  <2> QED BY <2>1, <2>3, <2>4
<1>2. CASE AdminLogin
  <2>1. PICK u \in Users :
          /\ \/ /\ u \in Allowlist
                /\ tokens' = tokens \cup {AdminToken(u)}
                /\ proofs' = proofs \cup {SignedIn(u)}
             \/ UNCHANGED tokens /\ proofs \subseteq proofs'
          /\ UNCHANGED <<now, grant>>
    BY <1>2 DEF AdminLogin
  <2>2. u \in Allowlist => AdminToken(u) \in Token /\ SignedIn(u) \in Proof /\ IssuedFor(AdminToken(u), SignedIn(u))
    BY <1>0 DEF AdminToken, SignedIn, Token, Proof, IssuedFor
  <2>3. CASE UNCHANGED tokens /\ proofs \subseteq proofs'
    BY <1>0, <2>1, <2>3, QuietKeepsTokens
  <2>4. CASE u \in Allowlist /\ tokens' = tokens \cup {AdminToken(u)} /\ proofs' = proofs \cup {SignedIn(u)}
    BY <1>0, <2>1, <2>2, <2>4, LoginKeepsTokens
  <2> QED BY <2>1, <2>3, <2>4
<1>3. CASE CreateRoom \/ CloseRoom
  <2>1. PICK t \in tokens : RequireAdmin(t) /\ UNCHANGED <<now, tokens, proofs>>
    BY <1>3 DEF CreateRoom, CloseRoom
  <2> QED BY <1>0, <2>1, GrantKeepsTokens DEF RequireAdmin
<1>4. CASE Authenticate
  <2>1. PICK r \in pending, t \in tokens :
          /\ Parse(t)
          /\ AuthorizeRoom(t, r)
          /\ grant' = [role |-> t.role, room |-> r, at |-> now]
          /\ UNCHANGED <<now, tokens, proofs>>
    BY <1>4 DEF Authenticate
  <2>2. r \in Rooms \cup {NoRoom} /\ (t.role = "admin" \/ t.room = r)
    BY <2>1 DEF AuthorizeRoom, TokenInv, TypeOK
  <2> QED BY <1>0, <2>1, <2>2, GrantKeepsTokens
<1>5. CASE Tick \/ GuestLoginDenied \/ Connect \/ AuthenticateFails \/ UNCHANGED vars
  <2>1. UNCHANGED <<tokens, proofs, grant>> /\ now' \in {now, now + 1}
    BY <1>5 DEF Tick, GuestLoginDenied, Connect, AuthenticateFails, vars
  <2> QED BY <1>0, <2>1, QuietKeepsTokens
<1> QED BY <1>1, <1>2, <1>3, <1>4, <1>5 DEF Next

\* token.Issuer, AuthorizeRoom and requireAdmin: whatever is granted was proved
\* less than TTL before, by an allowlisted user or with the room's own code.
THEOREM GrantsAreProved == Spec => []AccessWasProved
<1>1. Init => TokenInv
  BY TypeInit DEF Init, TokenInv, TokensProved, AccessWasProved
<1>2. TokenInv => AccessWasProved
  BY DEF TokenInv
<1> QED BY <1>1, <1>2, TokenNext, PTL DEF Spec
=============================================================================
