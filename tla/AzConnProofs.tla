---------------------------- MODULE AzConnProofs ----------------------------
(***************************************************************************)
(* Proofs about the connections of AzTransfer: each has one user, and what *)
(* it still owes is the response of the request that holds it, unless some *)
(* request of its dysk was ended without its own.                          *)
(*                                                                         *)
(* The second part is about the counters of the pools.  A counter is the   *)
(* number of sockets in the pool and with the requests of its dysk, and    *)
(* only two steps can make it wrong: a connect that fails, whose socket is *)
(* used and not counted, and the end of a send task that holds a           *)
(* connection, which is forgotten and stays counted.  In the good network  *)
(* of PromptSpec neither happens, and the library takes only steps of      *)
(* BlockDevice.                                                            *)
(***************************************************************************)
EXTENDS AzTransferProofs, MCAzTransferLive

(***************************************************************************)
(* What one connection taken, given back, torn down, written to or read    *)
(* from does to the facts that every connection has one user and owes its  *)
(* responses to a known request.  The lemmas speak of values, so that the  *)
(* steps of the transfer library, which do several of these at once, can   *)
(* be put together.                                                        *)
(***************************************************************************)
\* H: the connection each request holds; ff: the pools; sk: the sockets;
\* w: the responses each connection owes.
ConnTypes(H, ff, sk, w) ==
  /\ H \in [Reqs -> Conns \cup {None}]
  /\ ff \in [Dysks -> Seq(Conns)]
  /\ sk \in [Conns -> SockStates]
  /\ w \in [Conns -> Seq(Message)]

\* A connection is at one place of one pool, or held by one request, and is
\* then a socket.
OnePlace(H, ff, sk) ==
  /\ \A d, e \in Dysks : \A i \in 1..Len(ff[d]), j \in 1..Len(ff[e]) :
       ff[d][i] = ff[e][j] => d = e /\ i = j
  /\ \A r, q \in Reqs : H[r] = H[q] /\ H[r] # None => r = q
  /\ \A r \in Reqs, d \in Dysks : \A i \in 1..Len(ff[d]) : ff[d][i] # H[r]
  /\ \A d \in Dysks : \A i \in 1..Len(ff[d]) : sk[ff[d][i]] # "none"
  /\ \A r \in Reqs : H[r] # None => sk[H[r]] # "none"

\* Unless its dysk is in L, a pooled connection owes nothing, and one that is
\* held owes nothing or, to a request of S, that request's response.
OwesOwn(H, S, ff, sk, w, L) ==
  /\ \A d \in Dysks : \A i \in 1..Len(ff[d]) : w[ff[d][i]] = <<>> \/ d \in L
  /\ \A r \in Reqs :
       H[r] # None =>
         \/ w[H[r]] = <<>>
         \/ DyskOf[r] \in L
         \/ r \in S /\ Len(w[H[r]]) = 1 /\ w[H[r]][1].req = r
  /\ \A c \in Conns : sk[c] = "none" => w[c] = <<>>

ConnOn(H, S, ff, sk, w, L) == OnePlace(H, ff, sk) /\ OwesOwn(H, S, ff, sk, w, L)

\* A request that holds none takes the oldest idle connection of its dysk.
LEMMA TakeIdle ==
  ASSUME NEW H, NEW S, NEW ff, NEW sk, NEW w, NEW L,
         ConnTypes(H, ff, sk, w), ConnOn(H, S, ff, sk, w, L),
         NEW r \in Reqs, H[r] = None, ff[DyskOf[r]] # <<>>
  PROVE  ConnOn([H EXCEPT ![r] = Head(ff[DyskOf[r]])], S,
                [ff EXCEPT ![DyskOf[r]] = Tail(@)], sk, w, L)
<1> DEFINE d == DyskOf[r]
           c == Head(ff[d])
           G == [H EXCEPT ![r] = c]
           f == [ff EXCEPT ![d] = Tail(@)]
<1>1. /\ d \in Dysks
      /\ H \in [Reqs -> Conns \cup {None}] /\ ff \in [Dysks -> Seq(Conns)]
      /\ sk \in [Conns -> SockStates] /\ w \in [Conns -> Seq(Message)]
  BY AzParametersAssumption DEF ConnTypes
<1>2. /\ c = ff[d][1] /\ 1 \in 1..Len(ff[d]) /\ c \in Conns /\ c # None
      /\ \A e \in Dysks : e # d => f[e] = ff[e]
      /\ Len(f[d]) = Len(ff[d]) - 1
      /\ \A i \in 1..Len(f[d]) : i + 1 \in 1..Len(ff[d]) /\ f[d][i] = ff[d][i + 1]
  BY <1>1, PoolTail, AzParametersAssumption
<1>3. /\ G[r] = c
      /\ \A q \in Reqs : q # r => G[q] = H[q]
  BY <1>1
<1> HIDE DEF c, G, f, d
\* Where an element of the new pools was.
<1>4. \A e \in Dysks : \A i \in 1..Len(f[e]) :
        LET k == IF e = d THEN i + 1 ELSE i IN
        k \in 1..Len(ff[e]) /\ f[e][i] = ff[e][k]
  BY <1>2
<1>5. ASSUME NEW e \in Dysks, NEW i \in 1..Len(f[e])
      PROVE  f[e][i] # c
  <2> DEFINE k == IF e = d THEN i + 1 ELSE i
  <2>1. k \in 1..Len(ff[e]) /\ f[e][i] = ff[e][k]
    BY <1>4
  <2>2. f[e][i] = c => e = d /\ k = 1
    BY <1>1, <1>2, <2>1 DEF ConnOn, OnePlace
  <2> QED BY <2>2
<1>6. OnePlace(G, f, sk)
  <2>1. ASSUME NEW e \in Dysks, NEW b \in Dysks, NEW i \in 1..Len(f[e]), NEW j \in 1..Len(f[b]),
               f[e][i] = f[b][j]
        PROVE  e = b /\ i = j
    <3> DEFINE k == IF e = d THEN i + 1 ELSE i
               m == IF b = d THEN j + 1 ELSE j
    <3>1. /\ k \in 1..Len(ff[e]) /\ f[e][i] = ff[e][k]
          /\ m \in 1..Len(ff[b]) /\ f[b][j] = ff[b][m]
      BY <1>4
    <3> HIDE DEF k, m
    <3>2. ff[e][k] = ff[b][m]
      BY <2>1, <3>1
    <3>3. e = b /\ k = m
      BY <3>1, <3>2 DEF ConnOn, OnePlace
    <3> QED BY <3>3 DEF k, m
  <2>2. ASSUME NEW p \in Reqs, NEW q \in Reqs, G[p] = G[q], G[p] # None
        PROVE  p = q
    <3>1. \A b \in Reqs : H[b] # c
      BY <1>1, <1>2 DEF ConnOn, OnePlace
    <3>2. \A a, b \in Reqs : H[a] = H[b] /\ H[a] # None => a = b
      BY DEF ConnOn, OnePlace
    <3> QED BY <1>3, <2>2, <3>1, <3>2
  <2>3. ASSUME NEW q \in Reqs, NEW e \in Dysks, NEW i \in 1..Len(f[e])
        PROVE  f[e][i] # G[q]
    BY <1>3, <1>4, <1>5, SMTT(30) DEF ConnOn, OnePlace
  <2>4. ASSUME NEW e \in Dysks, NEW i \in 1..Len(f[e])
        PROVE  sk[f[e][i]] # "none"
    BY <1>4 DEF ConnOn, OnePlace
  <2>5. ASSUME NEW q \in Reqs, G[q] # None
        PROVE  sk[G[q]] # "none"
    BY <1>1, <1>2, <1>3, <2>5 DEF ConnOn, OnePlace
  <2> QED BY <2>1, <2>2, <2>3, <2>4, <2>5 DEF OnePlace
<1>7. OwesOwn(G, S, f, sk, w, L)
  <2>1. ASSUME NEW e \in Dysks, NEW i \in 1..Len(f[e])
        PROVE  w[f[e][i]] = <<>> \/ e \in L
    BY <1>4 DEF ConnOn, OwesOwn
  <2>2. ASSUME NEW q \in Reqs, G[q] # None
        PROVE  \/ w[G[q]] = <<>>
               \/ DyskOf[q] \in L
               \/ q \in S /\ Len(w[G[q]]) = 1 /\ w[G[q]][1].req = q
    BY <1>1, <1>2, <1>3, <2>2 DEF ConnOn, OwesOwn, d
  <2> QED BY <2>1, <2>2 DEF OwesOwn, ConnOn
<1> QED BY <1>6, <1>7 DEF ConnOn, G, f, c, d

\* A request that holds none makes a socket of its own.
LEMMA TakeNew ==
  ASSUME NEW H, NEW S, NEW ff, NEW sk, NEW w, NEW L,
         ConnTypes(H, ff, sk, w), ConnOn(H, S, ff, sk, w, L),
         NEW r \in Reqs, H[r] = None, NEW c \in Conns, sk[c] = "none", NEW s, s # "none"
  PROVE  ConnOn([H EXCEPT ![r] = c], S, ff, [sk EXCEPT ![c] = s], w, L)
<1> DEFINE G == [H EXCEPT ![r] = c]
           k == [sk EXCEPT ![c] = s]
<1>1. /\ H \in [Reqs -> Conns \cup {None}] /\ ff \in [Dysks -> Seq(Conns)]
      /\ sk \in [Conns -> SockStates] /\ w \in [Conns -> Seq(Message)]
      /\ c # None
  BY AzParametersAssumption DEF ConnTypes
<1>2. /\ G[r] = c /\ \A q \in Reqs : q # r => G[q] = H[q]
      /\ k[c] = s /\ \A b \in Conns : b # c => k[b] = sk[b]
  BY <1>1
<1>3. /\ \A q \in Reqs : H[q] # None => H[q] \in Conns /\ H[q] # c
      /\ \A e \in Dysks : \A i \in 1..Len(ff[e]) : ff[e][i] \in Conns /\ ff[e][i] # c
  BY <1>1, ElementOfSeq DEF ConnOn, OnePlace
<1> HIDE DEF G, k
<1>4. OnePlace(G, ff, k)
  <2>1. \A p, q \in Reqs : G[p] = G[q] /\ G[p] # None => p = q
    BY <1>1, <1>2, <1>3 DEF ConnOn, OnePlace
  <2>2. \A q \in Reqs, e \in Dysks : \A i \in 1..Len(ff[e]) : ff[e][i] # G[q]
    BY <1>2, <1>3 DEF ConnOn, OnePlace
  <2>3. \A e \in Dysks : \A i \in 1..Len(ff[e]) : k[ff[e][i]] # "none"
    BY <1>2, <1>3 DEF ConnOn, OnePlace
  <2>4. \A q \in Reqs : G[q] # None => k[G[q]] # "none"
    BY <1>2, <1>3 DEF ConnOn, OnePlace
  <2> QED BY <2>1, <2>2, <2>3, <2>4 DEF ConnOn, OnePlace
<1>5. OwesOwn(G, S, ff, k, w, L)
  <2>1. w[c] = <<>>
    BY DEF ConnOn, OwesOwn
  <2>2. ASSUME NEW q \in Reqs, G[q] # None
        PROVE  \/ w[G[q]] = <<>>
               \/ DyskOf[q] \in L
               \/ q \in S /\ Len(w[G[q]]) = 1 /\ w[G[q]][1].req = q
    <3>1. CASE q = r
      BY <1>2, <2>1, <3>1
    <3>2. CASE q # r
      BY <1>2, <2>2, <3>2 DEF ConnOn, OwesOwn
    <3> QED BY <3>1, <3>2
  <2>3. \A b \in Conns : k[b] = "none" => w[b] = <<>>
    BY <1>2, <2>1 DEF ConnOn, OwesOwn
  <2> QED BY <2>2, <2>3 DEF ConnOn, OwesOwn
<1> QED BY <1>4, <1>5 DEF ConnOn, G, k
\* A request gives up the connection it holds to nobody.
LEMMA Leave ==
  ASSUME NEW H, NEW S, NEW ff, NEW sk, NEW w, NEW L,
         ConnTypes(H, ff, sk, w), ConnOn(H, S, ff, sk, w, L), NEW r \in Reqs
  PROVE  ConnOn([H EXCEPT ![r] = None], S, ff, sk, w, L)
<1> DEFINE G == [H EXCEPT ![r] = None]
<1>1. /\ H \in [Reqs -> Conns \cup {None}] /\ ff \in [Dysks -> Seq(Conns)]
      /\ None \notin Conns
  BY AzParametersAssumption DEF ConnTypes
<1>2. G[r] = None /\ \A q \in Reqs : q # r => G[q] = H[q]
  BY <1>1
<1>3. \A e \in Dysks : \A i \in 1..Len(ff[e]) : ff[e][i] \in Conns
  BY <1>1, ElementOfSeq
<1> HIDE DEF G
<1>4. OnePlace(G, ff, sk)
  <2>1. \A p, q \in Reqs : G[p] = G[q] /\ G[p] # None => p = q
    BY <1>2 DEF ConnOn, OnePlace
  <2>2. \A q \in Reqs, e \in Dysks : \A i \in 1..Len(ff[e]) : ff[e][i] # G[q]
    BY <1>1, <1>2, <1>3 DEF ConnOn, OnePlace
  <2>3. \A q \in Reqs : G[q] # None => sk[G[q]] # "none"
    BY <1>2 DEF ConnOn, OnePlace
  <2> QED BY <2>1, <2>2, <2>3 DEF ConnOn, OnePlace
<1>5. OwesOwn(G, S, ff, sk, w, L)
  <2>1. ASSUME NEW q \in Reqs, G[q] # None
        PROVE  \/ w[G[q]] = <<>>
               \/ DyskOf[q] \in L
               \/ q \in S /\ Len(w[G[q]]) = 1 /\ w[G[q]][1].req = q
    <3>1. q # r /\ G[q] = H[q]
      BY <1>2, <2>1
    <3> QED BY <2>1, <3>1 DEF ConnOn, OwesOwn
  <2> QED BY <2>1 DEF ConnOn, OwesOwn
<1> QED BY <1>4, <1>5 DEF ConnOn, G

\* A request tears down the connection it holds.
LEMMA TearDown ==
  ASSUME NEW H, NEW S, NEW ff, NEW sk, NEW w, NEW L,
         ConnTypes(H, ff, sk, w), ConnOn(H, S, ff, sk, w, L),
         NEW r \in Reqs, NEW c \in Conns, H[r] = c
  PROVE  ConnOn([H EXCEPT ![r] = None], S, ff, [sk EXCEPT ![c] = "none"],
                [w EXCEPT ![c] = <<>>], L)
<1> DEFINE G == [H EXCEPT ![r] = None]
           k == [sk EXCEPT ![c] = "none"]
           v == [w EXCEPT ![c] = <<>>]
<1>1. /\ H \in [Reqs -> Conns \cup {None}] /\ ff \in [Dysks -> Seq(Conns)]
      /\ sk \in [Conns -> SockStates] /\ w \in [Conns -> Seq(Message)]
      /\ None \notin Conns
  BY AzParametersAssumption DEF ConnTypes
<1>2. /\ G[r] = None /\ \A q \in Reqs : q # r => G[q] = H[q]
      /\ k[c] = "none" /\ \A b \in Conns : b # c => k[b] = sk[b]
      /\ v[c] = <<>> /\ \A b \in Conns : b # c => v[b] = w[b]
  BY <1>1
<1>3. ConnOn(G, S, ff, sk, w, L)
  BY Leave
<1>4. \A e \in Dysks : \A i \in 1..Len(ff[e]) : ff[e][i] \in Conns /\ ff[e][i] # c
  BY <1>1, <1>2, ElementOfSeq DEF ConnOn, OnePlace
<1>5. \A q \in Reqs : G[q] # None => G[q] \in Conns /\ G[q] # c
  BY <1>1, <1>2 DEF ConnOn, OnePlace
<1> HIDE DEF G, k, v
<1>6. OnePlace(G, ff, k)
  <2>1. \A e \in Dysks : \A i \in 1..Len(ff[e]) : k[ff[e][i]] # "none"
    BY <1>2, <1>3, <1>4 DEF ConnOn, OnePlace
  <2>2. \A q \in Reqs : G[q] # None => k[G[q]] # "none"
    BY <1>2, <1>3, <1>5 DEF ConnOn, OnePlace
  <2> QED BY <1>3, <2>1, <2>2 DEF ConnOn, OnePlace
<1>7. OwesOwn(G, S, ff, k, v, L)
  <2>1. ASSUME NEW q \in Reqs, G[q] # None
        PROVE  \/ v[G[q]] = <<>>
               \/ DyskOf[q] \in L
               \/ q \in S /\ Len(v[G[q]]) = 1 /\ v[G[q]][1].req = q
    <3>1. v[G[q]] = w[G[q]]
      BY <1>2, <1>5, <2>1
    <3> QED BY <1>3, <2>1, <3>1 DEF ConnOn, OwesOwn
  <2>2. \A e \in Dysks : \A i \in 1..Len(ff[e]) : v[ff[e][i]] = <<>> \/ e \in L
    BY <1>2, <1>3, <1>4 DEF ConnOn, OwesOwn
  <2>3. \A b \in Conns : k[b] = "none" => v[b] = <<>>
    BY <1>2, <1>3 DEF ConnOn, OwesOwn
  <2> QED BY <2>1, <2>2, <2>3 DEF OwesOwn
<1> QED BY <1>6, <1>7 DEF ConnOn, G, k, v

\* A request gives its connection back to its dysk's pool; it must owe
\* nothing, unless the dysk is known to have connections that do.
LEMMA GiveBack ==
  ASSUME NEW H, NEW S, NEW ff, NEW sk, NEW w, NEW L,
         ConnTypes(H, ff, sk, w), ConnOn(H, S, ff, sk, w, L),
         NEW r \in Reqs, NEW c \in Conns, H[r] = c, w[c] = <<>> \/ DyskOf[r] \in L
  PROVE  ConnOn([H EXCEPT ![r] = None], S, [ff EXCEPT ![DyskOf[r]] = Append(@, c)], sk, w, L)
<1> DEFINE d == DyskOf[r]
           G == [H EXCEPT ![r] = None]
           f == [ff EXCEPT ![d] = Append(@, c)]
<1>1. /\ d \in Dysks
      /\ H \in [Reqs -> Conns \cup {None}] /\ ff \in [Dysks -> Seq(Conns)]
      /\ None \notin Conns
  BY AzParametersAssumption DEF ConnTypes
<1>2. /\ \A e \in Dysks : e # d => f[e] = ff[e]
      /\ Len(f[d]) = Len(ff[d]) + 1 /\ Len(ff[d]) \in Nat
      /\ f[d][Len(ff[d]) + 1] = c
      /\ \A i \in 1..Len(ff[d]) : f[d][i] = ff[d][i]
  BY <1>1, PoolAppend
<1>3. G[r] = None /\ \A q \in Reqs : q # r => G[q] = H[q]
  BY <1>1
<1>4. ConnOn(G, S, ff, sk, w, L)
  BY Leave
<1>5. \A e \in Dysks : \A i \in 1..Len(ff[e]) : ff[e][i] # c
  BY DEF ConnOn, OnePlace
<1>6. sk[c] # "none" /\ \A q \in Reqs : G[q] # c
  BY <1>1, <1>3 DEF ConnOn, OnePlace
<1> HIDE DEF G, f, d
\* An element of the new pools was there, or is the one given back.
<1>7. \A e \in Dysks : \A i \in 1..Len(f[e]) :
        \/ i \in 1..Len(ff[e]) /\ f[e][i] = ff[e][i]
        \/ e = d /\ i = Len(ff[d]) + 1 /\ f[e][i] = c
  BY <1>2
<1>8. OnePlace(G, f, sk)
  <2>1. ASSUME NEW e \in Dysks, NEW b \in Dysks, NEW i \in 1..Len(f[e]), NEW j \in 1..Len(f[b]),
               f[e][i] = f[b][j]
        PROVE  e = b /\ i = j
    <3>1. CASE f[e][i] = c
      <4>1. e = d /\ i = Len(ff[d]) + 1
        BY <1>5, <1>7, <3>1
      <4>2. b = d /\ j = Len(ff[d]) + 1
        BY <1>5, <1>7, <2>1, <3>1
      <4> QED BY <4>1, <4>2
    <3>2. CASE f[e][i] # c
      <4>1. i \in 1..Len(ff[e]) /\ j \in 1..Len(ff[b]) /\ ff[e][i] = ff[b][j]
        BY <1>7, <2>1, <3>2
      <4> QED BY <1>4, <4>1 DEF ConnOn, OnePlace
    <3> QED BY <3>1, <3>2
  <2>2. \A q \in Reqs, e \in Dysks : \A i \in 1..Len(f[e]) : f[e][i] # G[q]
    BY <1>4, <1>6, <1>7 DEF ConnOn, OnePlace
  <2>3. \A e \in Dysks : \A i \in 1..Len(f[e]) : sk[f[e][i]] # "none"
    BY <1>4, <1>6, <1>7 DEF ConnOn, OnePlace
  <2> QED BY <1>4, <2>1, <2>2, <2>3 DEF ConnOn, OnePlace
<1>9. OwesOwn(G, S, f, sk, w, L)
  <2>1. \A e \in Dysks : \A i \in 1..Len(f[e]) : w[f[e][i]] = <<>> \/ e \in L
    BY <1>4, <1>7 DEF ConnOn, OwesOwn, d
  <2> QED BY <1>4, <2>1 DEF ConnOn, OwesOwn
<1> QED BY <1>8, <1>9 DEF ConnOn, G, f, d

\* What a connection owes changes: only to its holder's own response, or to
\* less, or to another state of what is owed.
LEMMA Owe ==
  ASSUME NEW H, NEW S, NEW ff, NEW sk, NEW w, NEW L,
         ConnTypes(H, ff, sk, w), ConnOn(H, S, ff, sk, w, L),
         NEW c \in Conns, sk[c] # "none", NEW m, m # <<>> => w[c] # <<>>,
         \A r \in Reqs : H[r] = c /\ Len(w[c]) = 1 /\ w[c][1].req = r /\ m # <<>>
                          => Len(m) = 1 /\ m[1].req = r
  PROVE  ConnOn(H, S, ff, sk, [w EXCEPT ![c] = m], L)
<1> DEFINE v == [w EXCEPT ![c] = m]
<1>1. /\ H \in [Reqs -> Conns \cup {None}] /\ ff \in [Dysks -> Seq(Conns)]
      /\ w \in [Conns -> Seq(Message)]
  BY DEF ConnTypes
<1>2. v[c] = m /\ \A b \in Conns : b # c => v[b] = w[b]
  BY <1>1
<1>3. \A e \in Dysks : \A i \in 1..Len(ff[e]) : ff[e][i] \in Conns
  BY <1>1, ElementOfSeq
<1> HIDE DEF v
<1>4. \A e \in Dysks : \A i \in 1..Len(ff[e]) : v[ff[e][i]] = <<>> \/ e \in L
  BY <1>2, <1>3 DEF ConnOn, OwesOwn
<1>5. ASSUME NEW q \in Reqs, H[q] # None
      PROVE  \/ v[H[q]] = <<>>
             \/ DyskOf[q] \in L
             \/ q \in S /\ Len(v[H[q]]) = 1 /\ v[H[q]][1].req = q
  <2>1. \/ w[H[q]] = <<>>
        \/ DyskOf[q] \in L
        \/ q \in S /\ Len(w[H[q]]) = 1 /\ w[H[q]][1].req = q
    BY <1>5 DEF ConnOn, OwesOwn
  <2>2. CASE H[q] = c
    BY <1>2, <2>1, <2>2
  <2>3. CASE H[q] # c
    BY <1>1, <1>2, <1>5, <2>1, <2>3
  <2> QED BY <2>2, <2>3
<1>6. \A b \in Conns : sk[b] = "none" => v[b] = <<>>
  BY <1>2 DEF ConnOn, OwesOwn
<1> QED BY <1>4, <1>5, <1>6 DEF ConnOn, OwesOwn, v

\* A request hands its message to the connection it holds, which owed nothing.
LEMMA HandOver ==
  ASSUME NEW H, NEW S, NEW ff, NEW sk, NEW w, NEW L,
         ConnTypes(H, ff, sk, w), ConnOn(H, S, ff, sk, w, L),
         NEW r \in Reqs, r \notin S, NEW c \in Conns, H[r] = c, NEW m \in Message, m.req = r
  PROVE  ConnOn(H, S \cup {r}, ff, sk, [w EXCEPT ![c] = Append(@, m)], L)
<1> DEFINE v == [w EXCEPT ![c] = Append(@, m)]
<1>1. /\ H \in [Reqs -> Conns \cup {None}] /\ ff \in [Dysks -> Seq(Conns)]
      /\ w \in [Conns -> Seq(Message)] /\ None \notin Conns
  BY AzParametersAssumption DEF ConnTypes
<1>2. v[c] = Append(w[c], m) /\ \A b \in Conns : b # c => v[b] = w[b]
  BY <1>1
<1>3. \A e \in Dysks : \A i \in 1..Len(ff[e]) : ff[e][i] \in Conns /\ ff[e][i] # c
  BY <1>1, ElementOfSeq DEF ConnOn, OnePlace
<1>4. \A q \in Reqs : q # r => H[q] # c
  BY <1>1 DEF ConnOn, OnePlace
<1>5. w[c] = <<>> => Len(v[c]) = 1 /\ v[c][1] = m
  BY <1>2
<1> HIDE DEF v
<1>6. \A e \in Dysks : \A i \in 1..Len(ff[e]) : v[ff[e][i]] = <<>> \/ e \in L
  BY <1>2, <1>3 DEF ConnOn, OwesOwn
<1>7. ASSUME NEW q \in Reqs, H[q] # None
      PROVE  \/ v[H[q]] = <<>>
             \/ DyskOf[q] \in L
             \/ q \in S \cup {r} /\ Len(v[H[q]]) = 1 /\ v[H[q]][1].req = q
  <2>1. \/ w[H[q]] = <<>>
        \/ DyskOf[q] \in L
        \/ q \in S /\ Len(w[H[q]]) = 1 /\ w[H[q]][1].req = q
    BY <1>7 DEF ConnOn, OwesOwn
  <2>2. CASE q = r
    BY <1>5, <2>1, <2>2
  <2>3. CASE q # r
    BY <1>1, <1>2, <1>4, <1>7, <2>1, <2>3
  <2> QED BY <2>2, <2>3
<1>8. \A b \in Conns : sk[b] = "none" => v[b] = <<>>
  <2>1. sk[c] # "none"
    BY <1>1 DEF ConnOn, OnePlace
  <2> QED BY <1>2, <2>1 DEF ConnOn, OwesOwn
<1> QED BY <1>6, <1>7, <1>8 DEF ConnOn, OwesOwn, v

\* More requests may be owed a response, and more dysks may have connections
\* that owe one to nobody.
LEMMA Relax ==
  ASSUME NEW H, NEW S, NEW ff, NEW sk, NEW w, NEW L, NEW S2, NEW L2,
         ConnOn(H, S, ff, sk, w, L),
         \A r \in Reqs : r \in S /\ H[r] # None => r \in S2 \/ w[H[r]] = <<>> \/ DyskOf[r] \in L,
         L \subseteq L2
  PROVE  ConnOn(H, S2, ff, sk, w, L2)
  BY DEF ConnOn, OwesOwn

-----------------------------------------------------------------------------
(***************************************************************************)
(* The connections of the requests and the pools.                          *)
(***************************************************************************)
\* The connection a request holds, in the state of its send or receive task.
Holder == [r \in Reqs |-> IF reqst[r].c # None THEN reqst[r].c ELSE resst[r].c]

\* The requests whose connection may owe them their response.
Owing ==
  {r \in Reqs : reqst[r].body_sent \/ (resst[r].c # None /\ ~resst[r].try_new_request)}

LateDysks == {d \in Dysks : OwedOn(d)}

ConnInv == ConnOn(Holder, Owing, fifo, sock, wire, LateDysks)

AzConnInv == AzInv /\ ConnInv /\ AnswersMatch

\* The values ConnInv speaks of have the types its lemmas ask for.
LEMMA HolderTypes ==
  ASSUME AzInv
  PROVE  ConnTypes(Holder, fifo, sock, wire)
<1>1. \A r \in Reqs : reqst[r].c \in Conns \cup {None} /\ resst[r].c \in Conns \cup {None}
  BY DEF AzInv, RequestsInv, ReqTypes, SendState, RecvState
<1> QED BY <1>1 DEF ConnTypes, Holder, AzInv, PoolTypes

\* What a change of one request's states changes.
LEMMA HolderStep ==
  ASSUME AzInv, NEW m \in Reqs, NEW x \in SendState, NEW y \in RecvState,
         reqst' = [reqst EXCEPT ![m] = x], resst' = [resst EXCEPT ![m] = y]
  PROVE  /\ Holder' = [Holder EXCEPT ![m] = IF x.c # None THEN x.c ELSE y.c]
         /\ \A r \in Reqs : r # m => (r \in Owing' <=> r \in Owing)
         /\ (m \in Owing' <=> x.body_sent \/ (y.c # None /\ ~y.try_new_request))
<1>1. /\ reqst'[m] = x /\ \A r \in Reqs : r # m => reqst'[r] = reqst[r]
      /\ resst'[m] = y /\ \A r \in Reqs : r # m => resst'[r] = resst[r]
  BY DEF AzInv, RequestsInv, ReqTypes
<1>2. Holder' = [Holder EXCEPT ![m] = IF x.c # None THEN x.c ELSE y.c]
  <2> DEFINE At(r) == IF reqst[r].c # None THEN reqst[r].c ELSE resst[r].c
             z == IF x.c # None THEN x.c ELSE y.c
  <2>1. At(m)' = z /\ \A r \in Reqs : r # m => At(r)' = At(r)
    BY <1>1
  <2>2. Holder = [r \in Reqs |-> At(r)] /\ Holder' = [r \in Reqs |-> At(r)']
    BY DEF Holder
  <2> HIDE DEF At, z
  <2>3. Holder' = [Holder EXCEPT ![m] = z]
    BY <2>1, <2>2
  <2> QED BY <2>3 DEF z
<1>3. \A r \in Reqs : r # m => (r \in Owing' <=> r \in Owing)
  BY <1>1 DEF Owing
<1>4. m \in Owing' <=> x.body_sent \/ (y.c # None /\ ~y.try_new_request)
  BY <1>1 DEF Owing
<1> QED BY <1>2, <1>3, <1>4

\* A request that was ended without a response stays so.
LEMMA LateGrows ==
  ASSUME AzInv, StepOk
  PROVE  LateDysks \subseteq LateDysks'
<1>1. SUFFICES ASSUME NEW d \in LateDysks
               PROVE  d \in LateDysks'
  OBVIOUS
<1>2. PICK q \in Reqs : DyskOf[q] = d /\ result[q] = "OK" /\ got[q] = None
  BY DEF LateDysks, OwedOn
<1>3. bio[q] = "ended"
  BY <1>2 DEF AzInv, RequestsInv, BioInv
<1>4. result'[q] = "OK" /\ got'[q] = None
  BY <1>2, <1>3 DEF StepOk, EndsUnlocked
<1> QED BY <1>2, <1>4 DEF LateDysks, OwedOn

\* No response is read.
LEMMA AnswersSame ==
  ASSUME AnswersMatch, LateDysks \subseteq LateDysks', got' = got
  PROVE  AnswersMatch'
<1>1. \A r \in Reqs : DyskOf[r] \in Dysks
  BY AzParametersAssumption
<1> QED BY <1>1 DEF AnswersMatch, LateDysks

\* The connections are left alone; the request keeps the one it has.
LEMMA ConnSame ==
  ASSUME ConnInv, UNCHANGED poolVars, Holder' = Holder,
         \A r \in Reqs : r \in Owing /\ Holder[r] # None
                          => r \in Owing' \/ wire[Holder[r]] = <<>> \/ DyskOf[r] \in LateDysks,
         LateDysks \subseteq LateDysks'
  PROVE  ConnInv'
<1>1. ConnOn(Holder, Owing', fifo, sock, wire, LateDysks')
  BY Relax DEF ConnInv
<1> QED BY <1>1 DEF ConnInv, poolVars

\* connection_pool_get: the request has the connection it had, the oldest
\* idle one, or a new one (az.c 288-315).
LEMMA TakesConn ==
  ASSUME AzInv, ConnInv, NEW m \in Reqs, NEW c \in Conns, Takes(DyskOf[m], Holder[m], c)
  PROVE  LET H == [Holder EXCEPT ![m] = c]
             f == FifoAfter(DyskOf[m], Holder[m])
             k == SockAfter(DyskOf[m], Holder[m], c) IN
         ConnTypes(H, f, k, wire) /\ ConnOn(H, Owing, f, k, wire, LateDysks)
<1> DEFINE d == DyskOf[m]
           H == [Holder EXCEPT ![m] = c]
           f == FifoAfter(d, Holder[m])
           k == SockAfter(d, Holder[m], c)
<1>1. ConnTypes(Holder, fifo, sock, wire) /\ ConnOn(Holder, Owing, fifo, sock, wire, LateDysks)
  BY HolderTypes DEF ConnInv
<1>2. d \in Dysks /\ None \notin Conns /\ PoolTypes
  BY AzParametersAssumption DEF AzInv
<1>3. ConnTypes(H, f, k, wire)
  <2>1. f \in [Dysks -> Seq(Conns)] /\ k \in [Conns -> SockStates]
    BY <1>2, TakesTypes
  <2>2. H \in [Reqs -> Conns \cup {None}] /\ wire \in [Conns -> Seq(Message)]
    BY <1>1 DEF ConnTypes
  <2> HIDE DEF f, k, H
  <2> QED BY <2>1, <2>2 DEF ConnTypes
<1>4. CASE Holder[m] = c
  <2>1. H = Holder
    BY <1>1, <1>4 DEF ConnTypes
  <2>2. f = fifo /\ k = sock
    BY <1>2, <1>4 DEF FifoAfter, SockAfter, TakesNew
  <2> QED BY <1>1, <1>3, <2>1, <2>2
<1>5. CASE TakesIdle(d, Holder[m], c)
  <2>1. Holder[m] = None /\ fifo[d] # <<>> /\ c = Head(fifo[d])
    BY <1>5 DEF TakesIdle
  <2>2. f = [fifo EXCEPT ![d] = Tail(@)] /\ k = sock
    BY <2>1 DEF FifoAfter, SockAfter, TakesNew
  <2>3. ConnOn([Holder EXCEPT ![m] = Head(fifo[d])], Owing, [fifo EXCEPT ![d] = Tail(@)], sock,
               wire, LateDysks)
    BY <1>1, <2>1, TakeIdle
  <2> QED BY <1>3, <2>1, <2>2, <2>3
<1>6. CASE TakesNew(d, Holder[m], c)
  <2>1. Holder[m] = None /\ fifo[d] = <<>> /\ sock[c] = "none"
    BY <1>6 DEF TakesNew
  <2>2. f = fifo /\ k = [sock EXCEPT ![c] = "open"]
    BY <1>6, <2>1 DEF FifoAfter, SockAfter
  <2>3. ConnOn(H, Owing, fifo, [sock EXCEPT ![c] = "open"], wire, LateDysks)
    BY <1>1, <2>1, TakeNew
  <2> QED BY <1>3, <2>2, <2>3
<1> QED BY <1>4, <1>5, <1>6 DEF Takes

\* connection_pool_put of a good connection: a full pool leaves it to nobody
\* (az.c 283).
LEMMA PutsConn ==
  ASSUME NEW H, NEW S, NEW sk, NEW w, NEW L,
         ConnTypes(H, fifo, sk, w), ConnOn(H, S, fifo, sk, w, L),
         NEW m \in Reqs, NEW c \in Conns \cup {None}, PutOk(DyskOf[m], c),
         c # None => H[m] = c /\ (w[c] = <<>> \/ DyskOf[m] \in L)
  PROVE  ConnOn([H EXCEPT ![m] = None], S, fifo', sk, w, L)
<1>1. CASE c # None /\ Len(fifo[DyskOf[m]]) < MAX_CONNECTIONS
  <2>1. fifo' = [fifo EXCEPT ![DyskOf[m]] = Append(@, c)]
    BY <1>1 DEF PutOk
  <2>2. ConnOn([H EXCEPT ![m] = None], S, [fifo EXCEPT ![DyskOf[m]] = Append(@, c)], sk, w, L)
    BY <1>1, GiveBack
  <2> QED BY <2>1, <2>2
<1>2. CASE ~(c # None /\ Len(fifo[DyskOf[m]]) < MAX_CONNECTIONS)
  <2>1. fifo' = fifo
    BY <1>2 DEF PutOk
  <2> QED BY <2>1, Leave
<1> QED BY <1>1, <1>2

-----------------------------------------------------------------------------
(***************************************************************************)
(* The steps of the send task.                                             *)
(***************************************************************************)
\* What a step must show of the connections.
ConnOk == ConnInv' /\ AnswersMatch'

\* What is held and owed when the worker is in a task.
LEMMA MineHolds ==
  ASSUME AzInv, wpc \notin {"pass", "stopped"}
  PROVE  /\ Mine \in Reqs /\ Current.d = DyskOf[Mine] /\ None \notin Conns
         /\ Current.fn = "send" =>
              /\ Holder[Mine] = reqst[Mine].c
              /\ (Mine \in Owing <=> reqst[Mine].body_sent)
              /\ (resst' = resst => resst' = [resst EXCEPT ![Mine] = BlankRecv])
         /\ Current.fn = "recv" =>
              /\ Holder[Mine] = resst[Mine].c
              /\ (Mine \in Owing <=> resst[Mine].c # None /\ ~resst[Mine].try_new_request)
              /\ (reqst' = reqst => reqst' = [reqst EXCEPT ![Mine] = BlankSend])
<1>1. /\ Mine \in Reqs /\ Current.d = DyskOf[Mine] /\ None \notin Conns
      /\ reqst \in [Reqs -> SendState] /\ resst \in [Reqs -> RecvState]
  BY MineFacts, AzParametersAssumption DEF AzInv, RequestsInv, ReqTypes
<1>2. CASE Current.fn = "send"
  <2>1. resst[Mine] = BlankRecv
    BY <1>2, MineFacts
  <2> QED BY <1>1, <1>2, <2>1 DEF Holder, Owing, BlankRecv
<1>3. CASE Current.fn = "recv"
  <2>1. reqst[Mine] = BlankSend
    BY <1>3, MineFacts
  <2> QED BY <1>1, <1>3, <2>1 DEF Holder, Owing, BlankSend
<1> QED BY <1>1, <1>2, <1>3

\* A state without a connection is left, for another attempt.
LEMMA AgainHolder ==
  ASSUME AzInv, Sending, NEW x \in SendState, x.c = None, ~x.body_sent, NEW mem \in BOOLEAN,
         QueueSendAgain(Mine, x, mem), resst' = resst
  PROVE  /\ Holder' = [Holder EXCEPT ![Mine] = None]
         /\ \A r \in Reqs : r # Mine => (r \in Owing' <=> r \in Owing)
<1> DEFINE z == IF mem THEN BlankSend ELSE [x EXCEPT !.try_new_request = TRUE]
<1>1. z \in SendState /\ z.c = None /\ reqst' = [reqst EXCEPT ![Mine] = z]
  BY BlanksAreStates DEF QueueSendAgain, SendState, BlankSend
<1>2. Mine \in Reqs /\ resst' = [resst EXCEPT ![Mine] = BlankRecv]
  BY MineHolds DEF Sending
<1> HIDE DEF z
<1>3. BlankRecv \in RecvState /\ BlankRecv.c = None
  BY BlanksAreStates DEF BlankRecv
<1>4. Holder' = [Holder EXCEPT ![Mine] = IF z.c # None THEN z.c ELSE BlankRecv.c]
  BY <1>1, <1>2, <1>3, HolderStep, ZenonT(40)
<1>5. \A r \in Reqs : r # Mine => (r \in Owing' <=> r \in Owing)
  BY <1>1, <1>2, <1>3, HolderStep
<1> QED BY <1>1, <1>3, <1>4, <1>5

\* A state that has sent everything is left, or its connection is handed to
\* the receive task.
LEMMA ReceiveHolder ==
  ASSUME AzInv, Sending, NEW x \in SendState, x.c # None, x.body_sent, NEW mem \in BOOLEAN,
         QueueReceive(Mine, x, mem)
  PROVE  /\ Holder' = [Holder EXCEPT ![Mine] = x.c]
         /\ \A r \in Reqs : r # Mine => (r \in Owing' <=> r \in Owing)
         /\ Mine \in Owing'
<1>1. Mine \in Reqs /\ (resst' = resst => resst' = [resst EXCEPT ![Mine] = BlankRecv])
  BY MineHolds DEF Sending
<1>2. PICK z \in SendState, y \in RecvState :
        /\ reqst' = [reqst EXCEPT ![Mine] = z] /\ resst' = [resst EXCEPT ![Mine] = y]
        /\ (IF z.c # None THEN z.c ELSE y.c) = x.c
        /\ z.body_sent \/ (y.c # None /\ ~y.try_new_request)
  <2> DEFINE z == IF mem THEN BlankSend ELSE x
             y == IF mem THEN [BlankRecv EXCEPT !.c = x.c] ELSE BlankRecv
  <2>1. /\ z \in SendState /\ reqst' = [reqst EXCEPT ![Mine] = z]
        /\ y \in RecvState /\ resst' = [resst EXCEPT ![Mine] = y]
    BY <1>1, BlanksAreStates DEF QueueReceive, BlankRecv, RecvState, SendState
  <2>2. /\ (IF z.c # None THEN z.c ELSE y.c) = x.c
        /\ z.body_sent \/ (y.c # None /\ ~y.try_new_request)
    BY DEF BlankSend, BlankRecv
  <2> QED BY <2>1, <2>2
<1>3. /\ Holder' = [Holder EXCEPT ![Mine] = IF z.c # None THEN z.c ELSE y.c]
      /\ \A r \in Reqs : r # Mine => (r \in Owing' <=> r \in Owing)
      /\ (Mine \in Owing' <=> z.body_sent \/ (y.c # None /\ ~y.try_new_request))
  <2>1. AzInv /\ Mine \in Reqs /\ z \in SendState /\ y \in RecvState
    BY <1>1
  <2>2. reqst' = [reqst EXCEPT ![Mine] = z] /\ resst' = [resst EXCEPT ![Mine] = y]
    BY <1>2
  <2> QED BY ONLY <2>1, <2>2, HolderStep
<1> QED BY <1>2, <1>3

\* A call that goes no further than the state it has.
LEMMA SendKeepsConn ==
  ASSUME AzConnInv, StepOk, Sending, NEW x \in SendState,
         reqst' = [reqst EXCEPT ![Mine] = x], resst' = resst, UNCHANGED poolVars, got' = got,
         x.c = reqst[Mine].c, x.body_sent = reqst[Mine].body_sent
  PROVE  ConnOk
<1>1. AzInv /\ ConnInv /\ AnswersMatch /\ LateDysks \subseteq LateDysks'
  BY LateGrows DEF AzConnInv
<1>2. /\ Mine \in Reqs /\ resst' = [resst EXCEPT ![Mine] = BlankRecv]
      /\ Holder[Mine] = reqst[Mine].c /\ (Mine \in Owing <=> reqst[Mine].body_sent)
  BY <1>1, MineHolds DEF Sending
<1>3. BlankRecv \in RecvState /\ BlankRecv.c = None
  BY BlanksAreStates DEF BlankRecv
<1>4. /\ Holder' = [Holder EXCEPT ![Mine] = IF x.c # None THEN x.c ELSE BlankRecv.c]
      /\ \A r \in Reqs : r # Mine => (r \in Owing' <=> r \in Owing)
      /\ x.body_sent => Mine \in Owing'
  BY <1>1, <1>2, <1>3, HolderStep
<1>5. Holder' = Holder
  BY <1>1, <1>2, <1>3, <1>4, HolderTypes DEF ConnTypes
<1>6. \A r \in Reqs : r \in Owing => r \in Owing'
  BY <1>2, <1>4
<1> QED BY <1>1, <1>5, <1>6, ConnSame, AnswersSame DEF ConnOk

\* The request took a connection and keeps it.
LEMMA SendBlockedConn ==
  ASSUME AzConnInv, StepOk, NEW c \in Conns, NEW res, SendBlocked(c, res)
  PROVE  ConnOk
<1>1. AzInv /\ ConnInv /\ AnswersMatch /\ LateDysks \subseteq LateDysks'
  BY LateGrows DEF AzConnInv
<1>2. /\ Sending /\ Mine \in Reqs /\ reqst[Mine] \in SendState /\ ~reqst[Mine].body_sent
      /\ HeaderAfter(reqst[Mine].header) \in {"none", "made", "empty"}
      /\ Current.d = DyskOf[Mine]
  BY <1>1, SendsBytesFacts DEF SendBlocked
<1>3. /\ Holder[Mine] = reqst[Mine].c /\ None \notin Conns
      /\ resst' = [resst EXCEPT ![Mine] = BlankRecv]
  BY <1>1, <1>2, MineHolds DEF Sending, SendBlocked
<1>4. PICK hs \in {reqst[Mine].header_sent, Mine \in Writes} :
        reqst' = [reqst EXCEPT ![Mine] =
          [reqst[Mine] EXCEPT !.c = c, !.header = HeaderAfter(reqst[Mine].header),
                              !.header_sent = hs]]
  BY DEF SendBlocked
<1>5. hs \in BOOLEAN
  <2>1. reqst[Mine].header_sent \in BOOLEAN
    BY <1>2 DEF SendState
  <2>2. (Mine \in Writes) \in BOOLEAN
    OBVIOUS
  <2> QED BY ONLY <2>1, <2>2, Zenon
<1> DEFINE x == [reqst[Mine] EXCEPT !.c = c, !.header = HeaderAfter(reqst[Mine].header),
                                    !.header_sent = hs]
<1>6. x \in SendState /\ x.c = c
  BY <1>2, <1>5 DEF SendState
<1>7. reqst' = [reqst EXCEPT ![Mine] = x]
  BY <1>4
<1> HIDE DEF x
<1>8. BlankRecv \in RecvState
  BY BlanksAreStates
<1>9. /\ Holder' = [Holder EXCEPT ![Mine] = IF x.c # None THEN x.c ELSE BlankRecv.c]
      /\ \A r \in Reqs : r # Mine => (r \in Owing' <=> r \in Owing)
  BY <1>1, <1>2, <1>3, <1>6, <1>7, <1>8, HolderStep
<1>10. Holder' = [Holder EXCEPT ![Mine] = c]
  BY <1>3, <1>6, <1>9
<1>11. /\ fifo' = FifoAfter(DyskOf[Mine], Holder[Mine])
       /\ sock' = SockAfter(DyskOf[Mine], Holder[Mine], c)
       /\ Takes(DyskOf[Mine], Holder[Mine], c)
       /\ wire' = wire /\ got' = got
  BY <1>2, <1>3 DEF SendBlocked, reqVars
<1>12. ConnOn(Holder', Owing, fifo', sock', wire', LateDysks)
  BY <1>1, <1>2, <1>10, <1>11, TakesConn
<1>13. Mine \notin Owing
  BY <1>1, <1>2, MineHolds DEF Sending
<1>14. \A r \in Reqs : r \in Owing => r \in Owing'
  BY <1>9, <1>13
<1>15. ConnInv'
  BY <1>1, <1>12, <1>14, Relax DEF ConnInv
<1> QED BY <1>1, <1>11, <1>15, AnswersSame DEF ConnOk

\* connection_create() left a socket that is not connected (az.c 225-263).
LEMMA SendConnectFailsConn ==
  ASSUME AzConnInv, StepOk, NEW c \in Conns, SendConnectFails(c)
  PROVE  ConnOk
<1>1. AzInv /\ ConnInv /\ AnswersMatch /\ LateDysks \subseteq LateDysks'
  BY LateGrows DEF AzConnInv
<1>2. /\ Sending /\ Mine \in Reqs /\ reqst[Mine] \in SendState /\ ~reqst[Mine].body_sent
      /\ HeaderAfter(reqst[Mine].header) \in {"none", "made", "empty"}
  BY <1>1, SendsBytesFacts DEF SendConnectFails
<1>3. /\ Holder[Mine] = reqst[Mine].c /\ None \notin Conns /\ Mine \notin Owing
      /\ resst' = [resst EXCEPT ![Mine] = BlankRecv]
  BY <1>1, <1>2, MineHolds DEF Sending, SendConnectFails
<1> DEFINE x == [reqst[Mine] EXCEPT !.header = HeaderAfter(reqst[Mine].header), !.c = c]
<1>4. x \in SendState /\ x.c = c /\ reqst' = [reqst EXCEPT ![Mine] = x]
  BY <1>1, <1>2 DEF SendState, SendConnectFails, AzInv, RequestsInv, ReqTypes
<1> HIDE DEF x
<1>5. BlankRecv \in RecvState
  BY BlanksAreStates
<1>6. /\ Holder' = [Holder EXCEPT ![Mine] = IF x.c # None THEN x.c ELSE BlankRecv.c]
      /\ \A r \in Reqs : r # Mine => (r \in Owing' <=> r \in Owing)
  BY <1>1, <1>2, <1>3, <1>4, <1>5, HolderStep
<1>7. Holder' = [Holder EXCEPT ![Mine] = c] /\ \A r \in Reqs : r \in Owing => r \in Owing'
  BY <1>3, <1>4, <1>6
<1>8. /\ Holder[Mine] = None /\ sock[c] = "none" /\ sock' = [sock EXCEPT ![c] = "unconnected"]
      /\ fifo' = fifo /\ wire' = wire /\ got' = got
  BY <1>3 DEF SendConnectFails, TakesNew, reqVars
<1>9. ConnOn(Holder', Owing, fifo', sock', wire', LateDysks)
  BY <1>1, <1>2, <1>7, <1>8, HolderTypes, TakeNew DEF ConnInv
<1>10. ConnInv'
  BY <1>1, <1>7, <1>9, Relax DEF ConnInv
<1> QED BY <1>1, <1>8, <1>10, AnswersSame DEF ConnOk

\* sock_sendmsg() failed: the connection is torn down.
LEMMA SendFailsConn ==
  ASSUME AzConnInv, StepOk, NEW c \in Conns, NEW mem \in BOOLEAN, SendFails(c, mem)
  PROVE  ConnOk
<1>1. AzInv /\ ConnInv /\ AnswersMatch /\ LateDysks \subseteq LateDysks'
  BY LateGrows DEF AzConnInv
<1>2. /\ Sending /\ Mine \in Reqs /\ reqst[Mine] \in SendState /\ ~reqst[Mine].body_sent
      /\ HeaderAfter(reqst[Mine].header) \in {"none", "made", "empty"}
      /\ Current.d = DyskOf[Mine]
  BY <1>1, SendsBytesFacts DEF SendFails
<1>3. Holder[Mine] = reqst[Mine].c
  BY <1>1, <1>2, MineHolds DEF Sending
<1> DEFINE x == [reqst[Mine] EXCEPT !.c = None, !.header = HeaderAfter(reqst[Mine].header)]
<1>4. x \in SendState /\ x.c = None /\ ~x.body_sent /\ QueueSendAgain(Mine, x, mem) /\ resst' = resst
  BY <1>2 DEF SendState, SendFails
<1> HIDE DEF x
<1>5. /\ Holder' = [Holder EXCEPT ![Mine] = None]
      /\ \A r \in Reqs : r # Mine => (r \in Owing' <=> r \in Owing)
  BY <1>1, <1>2, <1>4, AgainHolder
<1> DEFINE H == [Holder EXCEPT ![Mine] = c]
           k == SockAfter(DyskOf[Mine], Holder[Mine], c)
<1>6. /\ fifo' = FifoAfter(DyskOf[Mine], Holder[Mine])
      /\ Takes(DyskOf[Mine], Holder[Mine], c)
      /\ sock' = [k EXCEPT ![c] = "none"] /\ wire' = [wire EXCEPT ![c] = <<>>] /\ got' = got
  BY <1>2, <1>3 DEF SendFails, Drop, reqVars
<1>7. ConnTypes(H, fifo', k, wire) /\ ConnOn(H, Owing, fifo', k, wire, LateDysks)
  BY <1>1, <1>2, <1>6, TakesConn
<1>8. H[Mine] = c /\ [H EXCEPT ![Mine] = None] = Holder'
  BY <1>1, <1>2, <1>5, HolderTypes DEF ConnTypes
<1> HIDE DEF H, k
<1>9. ConnOn(Holder', Owing, fifo', sock', wire', LateDysks)
  BY <1>2, <1>6, <1>7, <1>8, TearDown
<1>10. \A r \in Reqs : r \in Owing /\ Holder'[r] # None => r \in Owing'
  BY <1>1, <1>2, <1>5, HolderTypes DEF ConnTypes
<1>11. ConnInv'
  BY <1>1, <1>9, <1>10, Relax DEF ConnInv
<1> QED BY <1>1, <1>6, <1>11, AnswersSame DEF ConnOk

\* The whole message was handed to a connection that owed nothing.
LEMMA SendAllConn ==
  ASSUME AzConnInv, StepOk, NEW c \in Conns, NEW mem \in BOOLEAN, SendAll(c, mem)
  PROVE  ConnOk
<1>1. AzInv /\ ConnInv /\ AnswersMatch /\ LateDysks \subseteq LateDysks'
  BY LateGrows DEF AzConnInv
<1>2. /\ Sending /\ Mine \in Reqs /\ reqst[Mine] \in SendState /\ ~reqst[Mine].body_sent
      /\ HeaderAfter(reqst[Mine].header) \in {"none", "made", "empty"}
      /\ Current.d = DyskOf[Mine]
  BY <1>1, SendsBytesFacts DEF SendAll
<1>3. Holder[Mine] = reqst[Mine].c /\ Mine \notin Owing /\ None \notin Conns
  BY <1>1, <1>2, MineHolds DEF Sending
<1> DEFINE x == [reqst[Mine] EXCEPT !.c = c, !.header = HeaderAfter(reqst[Mine].header),
                                    !.header_sent = TRUE, !.body_sent = TRUE]
           m == [req |-> Mine, whole |-> x.header = "made", code |-> "none"]
<1>4. x \in SendState /\ x.c = c /\ x.body_sent /\ QueueReceive(Mine, x, mem)
  BY <1>2 DEF SendState, SendAll
<1>5. m \in Message /\ m.req = Mine
  BY <1>2 DEF Message
<1> DEFINE H == [Holder EXCEPT ![Mine] = c]
           k == SockAfter(DyskOf[Mine], Holder[Mine], c)
<1>6. /\ fifo' = FifoAfter(DyskOf[Mine], Holder[Mine])
      /\ Takes(DyskOf[Mine], Holder[Mine], c)
      /\ sock' = k /\ got' = got
      /\ wire' = wire \/ wire' = [wire EXCEPT ![c] = Append(@, m)]
  BY <1>2, <1>3 DEF SendAll, reqVars
<1> HIDE DEF x, m
<1>7. /\ Holder' = H
      /\ \A r \in Reqs : r # Mine => (r \in Owing' <=> r \in Owing)
      /\ Mine \in Owing'
  BY <1>1, <1>2, <1>3, <1>4, ReceiveHolder
<1>8. ConnTypes(H, fifo', sock', wire) /\ ConnOn(H, Owing, fifo', sock', wire, LateDysks)
  BY <1>1, <1>2, <1>6, TakesConn
<1>9. H[Mine] = c
  BY <1>1, <1>2, HolderTypes DEF ConnTypes
<1> HIDE DEF H, k
<1>10. ConnOn(H, Owing \cup {Mine}, fifo', sock', wire', LateDysks)
  <2>1. CASE wire' = wire
    BY <1>8, <2>1, Relax
  <2>2. CASE wire' = [wire EXCEPT ![c] = Append(@, m)]
    BY <1>2, <1>3, <1>5, <1>8, <1>9, <2>2, HandOver
  <2> QED BY <1>6, <2>1, <2>2
<1>11. \A r \in Reqs : r \in Owing \cup {Mine} => r \in Owing'
  BY <1>7
<1>12. ConnInv'
  BY <1>1, <1>7, <1>10, <1>11, Relax DEF ConnInv
<1> QED BY <1>1, <1>6, <1>12, AnswersSame DEF ConnOk

\* Every call of the send function keeps what is known of the connections
\* (__send_az_req 833-1084).
LEMMA SendConn ==
  ASSUME AzConnInv, StepOk, NEW mem \in BOOLEAN,
         \/ SendNoMemory \/ SendNoConnection(mem)
         \/ \E c \in Conns :
              \/ SendConnectFails(c)
              \/ SendBlocked(c, "retry_now") \/ SendBlocked(c, "retry_later")
              \/ SendFails(c, mem) \/ SendAll(c, mem)
         \/ SendMessageSent(mem) \/ SendTryNew(mem)
  PROVE  ConnOk
<1>1. AzInv /\ ConnInv /\ AnswersMatch /\ LateDysks \subseteq LateDysks'
  BY LateGrows DEF AzConnInv
<1>2. reqst \in [Reqs -> SendState] /\ None \notin Conns
  BY <1>1, AzParametersAssumption DEF AzInv, RequestsInv, ReqTypes
<1>3. CASE SendNoMemory \/ SendNoConnection(mem)
  <2>1. PICK h \in {"none", "made", "empty"} :
          /\ SendsBytes /\ reqst' = [reqst EXCEPT ![Mine].header = h]
          /\ resst' = resst /\ UNCHANGED poolVars /\ got' = got
    BY <1>1, <1>3, SendsBytesFacts DEF SendNoMemory, SendNoConnection, reqVars
  <2>2. Sending /\ Mine \in Reqs /\ reqst[Mine] \in SendState
    BY <1>1, <2>1, SendsBytesFacts
  <2> DEFINE x == [reqst[Mine] EXCEPT !.header = h]
  <2>3. x \in SendState /\ x.c = reqst[Mine].c /\ x.body_sent = reqst[Mine].body_sent
    BY <2>2 DEF SendState
  <2>4. reqst' = [reqst EXCEPT ![Mine] = x]
    BY <2>1
  <2> HIDE DEF x
  <2> QED BY <2>1, <2>2, <2>3, <2>4, SendKeepsConn
<1>4. CASE SendMessageSent(mem)
  <2>1. /\ Sending /\ QueueReceive(Mine, reqst[Mine], mem)
        /\ reqst[Mine].body_sent /\ UNCHANGED poolVars /\ got' = got
    BY <1>4 DEF SendMessageSent, SendFresh, SendsBytes, reqVars
  <2>2. /\ Mine \in Reqs /\ reqst[Mine] \in SendState /\ reqst[Mine].c # None
        /\ Holder[Mine] = reqst[Mine].c
    BY <1>1, <1>2, <2>1, MineHolds DEF AzInv, RequestsInv, StatesInv, Sending
  <2>3. /\ Holder' = [Holder EXCEPT ![Mine] = reqst[Mine].c]
        /\ \A r \in Reqs : r # Mine => (r \in Owing' <=> r \in Owing)
        /\ Mine \in Owing'
    BY <1>1, <2>1, <2>2, ReceiveHolder
  <2>4. Holder' = Holder
    BY <1>1, <2>2, <2>3, HolderTypes DEF ConnTypes
  <2>5. \A r \in Reqs : r \in Owing => r \in Owing'
    BY <2>3
  <2> QED BY <1>1, <2>1, <2>4, <2>5, ConnSame, AnswersSame DEF ConnOk
<1>5. CASE SendTryNew(mem)
  <2>1. /\ Sending /\ QueueSendAgain(Mine, reqst[Mine], mem) /\ resst' = resst
        /\ reqst[Mine].try_new_request /\ UNCHANGED poolVars /\ got' = got
    BY <1>5 DEF SendTryNew, reqVars
  <2>2. /\ Mine \in Reqs /\ reqst[Mine] \in SendState /\ reqst[Mine].c = None
        /\ ~reqst[Mine].body_sent /\ Holder[Mine] = reqst[Mine].c
    BY <1>1, <1>2, <2>1, MineHolds DEF AzInv, RequestsInv, StatesInv, Sending
  <2>3. /\ Holder' = [Holder EXCEPT ![Mine] = None]
        /\ \A r \in Reqs : r # Mine => (r \in Owing' <=> r \in Owing)
    BY <1>1, <2>1, <2>2, AgainHolder
  <2>4. Holder' = Holder
    BY <1>1, <2>2, <2>3, HolderTypes DEF ConnTypes
  <2>5. \A r \in Reqs : r \in Owing /\ Holder[r] # None => r \in Owing'
    BY <2>2, <2>3
  <2> QED BY <1>1, <2>1, <2>4, <2>5, ConnSame, AnswersSame DEF ConnOk
<1> QED BY <1>3, <1>4, <1>5, SendConnectFailsConn, SendBlockedConn, SendFailsConn, SendAllConn

-----------------------------------------------------------------------------
(***************************************************************************)
(* The steps of the receive task, and the clean-ups.                       *)
(***************************************************************************)
\* The state of a receive task is kept for another call.
LEMMA RecvHolder ==
  ASSUME AzInv, Receiving, NEW y \in RecvState, resst' = [resst EXCEPT ![Mine] = y], reqst' = reqst
  PROVE  /\ Holder' = [Holder EXCEPT ![Mine] = y.c]
         /\ \A r \in Reqs : r # Mine => (r \in Owing' <=> r \in Owing)
<1>1. Mine \in Reqs /\ reqst' = [reqst EXCEPT ![Mine] = BlankSend]
  BY MineHolds DEF Receiving
<1>2. BlankSend \in SendState /\ BlankSend.c = None
  BY BlanksAreStates DEF BlankSend
<1>3. /\ Holder' = [Holder EXCEPT ![Mine] = IF BlankSend.c # None THEN BlankSend.c ELSE y.c]
      /\ \A r \in Reqs : r # Mine => (r \in Owing' <=> r \in Owing)
  BY <1>1, <1>2, HolderStep
<1> QED BY <1>2, <1>3

\* Neither task of the request is left.
LEMMA BlankHolder ==
  ASSUME AzInv, NEW m \in Reqs,
         reqst' = [reqst EXCEPT ![m] = BlankSend], resst' = [resst EXCEPT ![m] = BlankRecv]
  PROVE  /\ Holder' = [Holder EXCEPT ![m] = None]
         /\ \A r \in Reqs : r # m => (r \in Owing' <=> r \in Owing)
<1>1. BlankSend \in SendState /\ BlankSend.c = None /\ BlankRecv \in RecvState /\ BlankRecv.c = None
  BY BlanksAreStates DEF BlankSend, BlankRecv
<1>2. /\ Holder' = [Holder EXCEPT ![m] = IF BlankSend.c # None THEN BlankSend.c ELSE BlankRecv.c]
      /\ \A r \in Reqs : r # m => (r \in Owing' <=> r \in Owing)
  BY <1>1, HolderStep
<1> QED BY <1>1, <1>2

\* The clean-up of a receive task gives the connection back: it owes nothing,
\* or the request was ended without what it owes (az.c 544-586).
LEMMA CleanRecvConn ==
  ASSUME AzInv, wpc \notin {"pass", "stopped"}, NEW x \in RecvState, CleanRecv(Mine, x), sock' = sock,
         ConnTypes(Holder, fifo, sock, wire'),
         ConnOn(Holder, Owing, fifo, sock, wire', LateDysks'),
         x.c # None => Holder[Mine] = x.c /\ (wire'[x.c] = <<>> \/ DyskOf[Mine] \in LateDysks')
  PROVE  ConnInv'
<1>1. Mine \in Reqs /\ Current.d = DyskOf[Mine]
  BY MineHolds
<1>2. /\ Holder' = [Holder EXCEPT ![Mine] = None]
      /\ \A r \in Reqs : r # Mine => (r \in Owing' <=> r \in Owing)
  BY <1>1, BlankHolder DEF CleanRecv
<1>3. PutOk(DyskOf[Mine], x.c) /\ x.c \in Conns \cup {None}
  BY <1>1 DEF CleanRecv, RecvState
<1>4. ConnOn(Holder', Owing, fifo', sock, wire', LateDysks')
  BY <1>1, <1>2, <1>3, PutsConn
<1>5. \A r \in Reqs : r \in Owing /\ Holder'[r] # None => r \in Owing'
  BY <1>1, <1>2 DEF ConnTypes
<1>6. ConnOn(Holder', Owing', fifo', sock, wire', LateDysks')
  BY <1>4, <1>5, Relax
<1> QED BY <1>6 DEF ConnInv

\* A connection a request holds owes it nothing while it is not in Owing.
LEMMA MineOwed ==
  ASSUME AzConnInv, Receiving, resst[Mine].c # None
  PROVE  /\ resst[Mine].c \in Conns /\ Holder[Mine] = resst[Mine].c
         /\ sock[resst[Mine].c] # "none"
         /\ \/ wire[resst[Mine].c] = <<>>
            \/ DyskOf[Mine] \in LateDysks
            \/ /\ ~resst[Mine].try_new_request
               /\ Len(wire[resst[Mine].c]) = 1 /\ wire[resst[Mine].c][1].req = Mine
<1>1. AzInv /\ ConnOn(Holder, Owing, fifo, sock, wire, LateDysks)
  BY DEF AzConnInv, ConnInv
<1>2. /\ Mine \in Reqs /\ Holder[Mine] = resst[Mine].c
      /\ (Mine \in Owing <=> resst[Mine].c # None /\ ~resst[Mine].try_new_request)
  BY <1>1, MineHolds DEF Receiving
<1>3. resst[Mine].c \in Conns
  BY <1>1, <1>2, HolderTypes DEF ConnTypes
<1> QED BY <1>1, <1>2, <1>3 DEF ConnOn, OnePlace, OwesOwn

\* The response is read off the connection: it is the request's own and the
\* last, or some request of the dysk was ended without its own.
LEMMA ReadConn ==
  ASSUME AzConnInv, NEW code, ReadsAnswer(code)
  PROVE  /\ ConnTypes(Holder, fifo, sock, wire')
         /\ ConnOn(Holder, Owing, fifo, sock, wire', LateDysks)
         /\ Holder[Mine] = resst[Mine].c
         /\ wire'[resst[Mine].c] = <<>> \/ DyskOf[Mine] \in LateDysks
         /\ Head(wire[resst[Mine].c]).req = Mine \/ DyskOf[Mine] \in LateDysks
<1> DEFINE c == resst[Mine].c
           m == Tail(wire[c])
<1>1. AzInv /\ ConnOn(Holder, Owing, fifo, sock, wire, LateDysks)
  BY DEF AzConnInv, ConnInv
<1>2. RecvFresh /\ wire[c] # <<>> /\ wire' = [wire EXCEPT ![c] = m]
  BY DEF ReadsAnswer, Answered
<1>3. /\ Receiving /\ Mine \in Reqs /\ c \in Conns /\ wire[c] \in Seq(Message) /\ c # None
  BY <1>1, <1>2, RecvFreshFacts, AzParametersAssumption
<1>4. /\ Holder[Mine] = c /\ sock[c] # "none"
      /\ DyskOf[Mine] \in LateDysks \/ (Len(wire[c]) = 1 /\ wire[c][1].req = Mine)
  BY <1>2, <1>3, MineOwed
<1>5. m \in Seq(Message) /\ Head(wire[c]) = wire[c][1] /\ (Len(wire[c]) = 1 => m = <<>>)
  <2>1. /\ m \in Seq(Message) /\ Head(wire[c]) = wire[c][1]
        /\ Len(m) = Len(wire[c]) - 1
    BY <1>2, <1>3, HeadTailProperties
  <2> HIDE DEF m, c
  <2>2. ASSUME Len(wire[c]) = 1
        PROVE  m = <<>>
    <3>1. Len(m) = 0
      BY <2>1, <2>2
    <3> QED BY <2>1, <3>1, EmptySeq
  <2> QED BY <2>1, <2>2
<1>6. ConnTypes(Holder, fifo, sock, wire)
  BY <1>1, HolderTypes
<1>7. wire'[c] = m /\ wire' \in [Conns -> Seq(Message)]
  BY <1>2, <1>3, <1>5, <1>6 DEF ConnTypes
<1> HIDE DEF m, c
<1>8. ConnOn(Holder, Owing, fifo, sock, [wire EXCEPT ![c] = m], LateDysks)
  BY <1>1, <1>2, <1>3, <1>4, <1>5, <1>6, Owe
<1> QED BY <1>2, <1>4, <1>5, <1>6, <1>7, <1>8 DEF ConnTypes, c

\* sock_recvmsg() failed or the server closed: the connection is torn down.
LEMMA RecvClosedConn ==
  ASSUME AzConnInv, StepOk, NEW mem \in BOOLEAN, RecvClosed(mem)
  PROVE  ConnOk
<1> DEFINE c == resst[Mine].c
           x == [c |-> None, try_new_request |-> TRUE]
<1>1. AzInv /\ ConnInv /\ AnswersMatch /\ LateDysks \subseteq LateDysks'
  BY LateGrows DEF AzConnInv
<1>2. /\ RecvFresh /\ RecvQueueSend(x, mem) /\ got' = got
      /\ sock' = [sock EXCEPT ![c] = "none"] /\ wire' = [wire EXCEPT ![c] = <<>>]
  BY DEF RecvClosed, Drop
<1>3. Receiving /\ Mine \in Reqs /\ c \in Conns /\ c # None /\ Current.d = DyskOf[Mine]
  BY <1>1, <1>2, RecvFreshFacts, AzParametersAssumption
<1>4. Holder[Mine] = c
  BY <1>3, MineOwed
<1>5. x \in RecvState /\ x.c = None
  BY DEF RecvState
<1> HIDE DEF x, c
<1>6. /\ Holder' = [Holder EXCEPT ![Mine] = None]
      /\ \A r \in Reqs : r # Mine => (r \in Owing' <=> r \in Owing)
      /\ fifo' = fifo
  <2>1. CASE mem
    <3>1. CleanRecv(Mine, x)
      BY <1>2, <2>1 DEF RecvQueueSend
    <3>2. reqst' = [reqst EXCEPT ![Mine] = BlankSend] /\ resst' = [resst EXCEPT ![Mine] = BlankRecv]
      BY <3>1 DEF CleanRecv
    <3>3. fifo' = fifo
      BY <1>5, <3>1 DEF CleanRecv, PutOk
    <3> QED BY <1>1, <1>3, <3>2, <3>3, BlankHolder
  <2>2. CASE ~mem
    <3>1. resst' = [resst EXCEPT ![Mine] = x] /\ reqst' = reqst /\ fifo' = fifo
      BY <1>2, <2>2 DEF RecvQueueSend
    <3> QED BY <1>1, <1>3, <1>5, <3>1, RecvHolder
  <2> QED BY <2>1, <2>2
<1>7. ConnOn(Holder', Owing, fifo', sock', wire', LateDysks)
  BY <1>1, <1>2, <1>3, <1>4, <1>6, HolderTypes, TearDown DEF ConnInv
<1>8. \A r \in Reqs : r \in Owing /\ Holder'[r] # None => r \in Owing'
  BY <1>1, <1>3, <1>6, HolderTypes DEF ConnTypes
<1>9. ConnInv'
  BY <1>1, <1>7, <1>8, Relax DEF ConnInv
<1> QED BY <1>1, <1>2, <1>9, AnswersSame DEF ConnOk

\* A response with data ends the request, one that throttles has it sent again.
LEMMA RecvReadsConn ==
  ASSUME AzConnInv, StepOk, RecvDone \/ RecvThrottled
  PROVE  ConnOk
<1> DEFINE c == resst[Mine].c
<1>1. AzInv /\ ConnInv /\ AnswersMatch /\ LateDysks \subseteq LateDysks'
  BY LateGrows DEF AzConnInv
<1>2. PICK code \in {"ok", "throttle"}, x \in {resst[Mine], [resst[Mine] EXCEPT !.try_new_request = TRUE]} :
        /\ ReadsAnswer(code) /\ CleanRecv(Mine, x) /\ sock' = sock
  BY DEF RecvDone, RecvThrottled
<1>3. /\ Receiving /\ wpc \notin {"pass", "stopped"} /\ Mine \in Reqs /\ resst[Mine] \in RecvState
  BY <1>1, <1>2, RecvFreshFacts DEF ReadsAnswer, Receiving
<1>4. x \in RecvState /\ x.c = c
  BY <1>2, <1>3 DEF RecvState
<1>5. /\ ConnTypes(Holder, fifo, sock, wire')
      /\ ConnOn(Holder, Owing, fifo, sock, wire', LateDysks)
      /\ Holder[Mine] = c
      /\ wire'[c] = <<>> \/ DyskOf[Mine] \in LateDysks
      /\ Head(wire[c]).req = Mine \/ DyskOf[Mine] \in LateDysks
  BY <1>2, ReadConn
<1> HIDE DEF c
<1>6. ConnOn(Holder, Owing, fifo, sock, wire', LateDysks')
  BY <1>1, <1>5, Relax
<1>7. ConnInv'
  BY <1>1, <1>2, <1>3, <1>4, <1>5, <1>6, CleanRecvConn
<1>8. AnswersMatch'
  <2>1. CASE RecvDone
    <3>1. got' = [got EXCEPT ![Mine] = Head(wire[c]).req]
      BY <2>1 DEF RecvDone, c
    <3>2. got \in [Reqs -> Reqs \cup {None}]
      BY <1>1 DEF AzInv, RequestsInv, ReqTypes
    <3>3. SUFFICES ASSUME NEW r \in Reqs, got'[r] \notin {None, r}
                   PROVE  OwedOn(DyskOf[r])'
      BY DEF AnswersMatch
    <3>4. DyskOf[r] \in LateDysks
      <4>1. CASE r = Mine
        BY <1>5, <3>1, <3>2, <3>3, <4>1
      <4>2. CASE r # Mine
        <5>1. OwedOn(DyskOf[r])
          BY <1>1, <3>1, <3>2, <3>3, <4>2 DEF AnswersMatch
        <5>2. DyskOf[r] \in Dysks
          BY AzParametersAssumption
        <5> QED BY <5>1, <5>2 DEF LateDysks
      <4> QED BY <4>1, <4>2
    <3> QED BY <1>1, <3>4 DEF LateDysks
  <2>2. CASE RecvThrottled
    BY <1>1, <2>2, AnswersSame DEF RecvThrottled
  <2> QED BY <2>1, <2>2
<1> QED BY <1>7, <1>8 DEF ConnOk

\* The steps after which the receive task stays as it is, or remembers that
\* the request is to be sent again.
LEMMA RecvStaysConn ==
  ASSUME AzConnInv, StepOk, RecvThrottledNoMemory \/ RecvCatastrophe
  PROVE  ConnOk
<1> DEFINE c == resst[Mine].c
<1>1. AzInv /\ ConnInv /\ AnswersMatch /\ LateDysks \subseteq LateDysks'
  BY LateGrows DEF AzConnInv
<1>2. PICK code \in {"fatal", "throttle"}, y \in {resst[Mine], [resst[Mine] EXCEPT !.try_new_request = TRUE]} :
        /\ ReadsAnswer(code) /\ fifo' = fifo /\ sock' = sock /\ got' = got
        /\ resst' = [resst EXCEPT ![Mine] = y] /\ reqst' = reqst
  <2>1. CASE RecvThrottledNoMemory
    BY <2>1 DEF RecvThrottledNoMemory, RecvQueueSend
  <2>2. CASE RecvCatastrophe
    <3>1. /\ ReadsAnswer("fatal") /\ fifo' = fifo /\ sock' = sock /\ got' = got
          /\ resst' = resst /\ reqst' = reqst
      BY <2>2 DEF RecvCatastrophe, reqVars
    <3>2. resst' = [resst EXCEPT ![Mine] = resst[Mine]]
      BY <1>1, <3>1 DEF AzInv, RequestsInv, ReqTypes
    <3> QED BY <3>1, <3>2
  <2> QED BY <2>1, <2>2
<1>3. Receiving /\ Mine \in Reqs /\ resst[Mine] \in RecvState
  BY <1>1, <1>2, RecvFreshFacts DEF ReadsAnswer
<1>4. y \in RecvState /\ y.c = c
  BY <1>2, <1>3 DEF RecvState
<1>5. /\ ConnTypes(Holder, fifo, sock, wire')
      /\ ConnOn(Holder, Owing, fifo, sock, wire', LateDysks)
      /\ Holder[Mine] = c
      /\ wire'[c] = <<>> \/ DyskOf[Mine] \in LateDysks
  BY <1>2, ReadConn
<1> HIDE DEF c
<1>6. /\ Holder' = [Holder EXCEPT ![Mine] = c]
      /\ \A r \in Reqs : r # Mine => (r \in Owing' <=> r \in Owing)
  BY <1>1, <1>2, <1>3, <1>4, RecvHolder
<1>7. Holder' = Holder
  BY <1>3, <1>5, <1>6 DEF ConnTypes
<1>8. ConnOn(Holder', Owing', fifo', sock', wire', LateDysks')
  <2>1. \A r \in Reqs : r \in Owing /\ Holder[r] # None
                          => r \in Owing' \/ wire'[Holder[r]] = <<>> \/ DyskOf[r] \in LateDysks
    BY <1>3, <1>5, <1>6
  <2> QED BY <1>1, <1>2, <1>5, <1>7, <2>1, Relax
<1>9. ConnInv'
  BY <1>8 DEF ConnInv
<1> QED BY <1>1, <1>2, <1>9, AnswersSame DEF ConnOk

\* Nothing of the requests' states and of the pools changes.
LEMMA UnchangedConn ==
  ASSUME AzConnInv, StepOk, UNCHANGED <<reqst, resst, poolVars, got>>
  PROVE  ConnOk
<1>1. AzInv /\ ConnInv /\ AnswersMatch /\ LateDysks \subseteq LateDysks'
  BY LateGrows DEF AzConnInv
<1>2. Holder' = Holder /\ Owing' = Owing
  BY DEF Holder, Owing
<1> QED BY <1>1, <1>2, ConnSame, AnswersSame DEF ConnOk

\* The clean-up of a receive task that is not the end of a call that read
\* the response: the request was to be sent again and is owed nothing, or
\* it is ended without its response.
LEMMA RecvDropsConn ==
  ASSUME AzConnInv, StepOk, wpc \notin {"pass", "stopped"}, Current.fn = "recv",
         CleanRecv(Mine, resst[Mine]), UNCHANGED <<sock, wire, got>>
  PROVE  ConnOk
<1> DEFINE c == resst[Mine].c
<1>1. AzInv /\ ConnInv /\ AnswersMatch /\ LateDysks \subseteq LateDysks'
  BY LateGrows DEF AzConnInv
<1>2. /\ Mine \in Reqs /\ resst[Mine] \in RecvState /\ bio[Mine] \in {"queued", "started"}
      /\ Holder[Mine] = c
      /\ (Mine \in Owing <=> c # None /\ ~resst[Mine].try_new_request)
  BY <1>1, MineFacts, MineHolds
<1>3. ConnTypes(Holder, fifo, sock, wire') /\ ConnOn(Holder, Owing, fifo, sock, wire', LateDysks')
  BY <1>1, HolderTypes, Relax DEF ConnInv
<1>4. c # None => wire'[c] = <<>> \/ DyskOf[Mine] \in LateDysks'
  <2>1. CASE resst[Mine].try_new_request
    BY <1>2, <1>3, <2>1 DEF ConnOn, OwesOwn
  <2>2. CASE ~resst[Mine].try_new_request
    <3>1. result' = [result EXCEPT ![Mine] = "OK"]
      BY <2>2 DEF CleanRecv, io_end_request
    <3>2. result'[Mine] = "OK" /\ got[Mine] = None
      BY <1>1, <1>2, <3>1 DEF AzInv, RequestsInv, ReqTypes, BioInv
    <3>3. DyskOf[Mine] \in Dysks
      BY <1>2, AzParametersAssumption
    <3>4. \E q \in Reqs : DyskOf[q] = DyskOf[Mine] /\ result'[q] = "OK" /\ got'[q] = None
      BY <1>2, <3>2
    <3> QED BY <3>3, <3>4 DEF LateDysks, OwedOn
  <2> QED BY <2>1, <2>2
<1>5. ConnInv'
  BY <1>1, <1>2, <1>3, <1>4, CleanRecvConn
<1> QED BY <1>1, <1>5, AnswersSame DEF ConnOk

\* Every call of the receive function keeps what is known of the connections
\* (__receive_az_response 590-769).
LEMMA RecvConn ==
  ASSUME AzConnInv, StepOk, NEW mem \in BOOLEAN,
         \/ RecvNoMemory \/ RecvWait \/ RecvClosed(mem) \/ RecvDone \/ RecvThrottled
         \/ RecvThrottledNoMemory \/ RecvCatastrophe \/ RecvTryNew(mem)
  PROVE  ConnOk
<1>1. CASE RecvNoMemory \/ RecvWait
  BY <1>1, UnchangedConn DEF RecvNoMemory, RecvWait, azVars, reqVars
<1>2. CASE RecvTryNew(mem)
  <2>1. /\ Receiving /\ RecvQueueSend(resst[Mine], mem) /\ UNCHANGED <<count, sock, wire, got>>
    BY <1>2 DEF RecvTryNew
  <2>2. CASE mem
    BY <2>1, <2>2, RecvDropsConn DEF RecvQueueSend, Receiving
  <2>3. CASE ~mem
    <3>1. resst' = [resst EXCEPT ![Mine] = resst[Mine]] /\ UNCHANGED <<reqst, fifo>>
      BY <2>1, <2>3 DEF RecvQueueSend
    <3>2. resst' = resst
      BY <3>1 DEF AzConnInv, AzInv, RequestsInv, ReqTypes
    <3> QED BY <2>1, <3>1, <3>2, UnchangedConn DEF poolVars
  <2> QED BY <2>2, <2>3
<1> QED BY <1>1, <1>2, RecvClosedConn, RecvReadsConn, RecvStaysConn

\* A task leaves the list without having run, or run out of time: a send
\* task's connection is left to nobody, a receive task's goes back.
LEMMA CleanConn ==
  ASSUME AzConnInv, StepOk, CancelTask \/ ExpireTask \/ FailTask
  PROVE  ConnOk
<1>1. AzInv /\ ConnInv /\ AnswersMatch /\ LateDysks \subseteq LateDysks'
  BY LateGrows DEF AzConnInv
<1>2. wpc \notin {"pass", "stopped"} /\ Clean /\ UNCHANGED <<sock, wire, got>>
  BY DEF CancelTask, ExpireTask, FailTask, Cancel, Expire, CatastropheReturn, Clean
<1>3. CASE Current.fn = "recv"
  BY <1>2, <1>3, RecvDropsConn DEF Clean
<1>4. CASE Current.fn # "recv"
  <2>1. CleanSend(Mine, reqst[Mine]) /\ Current.fn = "send"
    BY <1>2, <1>4 DEF Clean
  <2>2. /\ Mine \in Reqs /\ resst[Mine] = BlankRecv /\ resst \in [Reqs -> RecvState]
        /\ (reqst[Mine].try_new_request => reqst[Mine].c = None)
    BY <1>1, <1>2, <2>1, MineFacts DEF AzInv, RequestsInv, ReqTypes, StatesInv
  <2>3. fifo' = fifo
    BY <2>1, <2>2 DEF CleanSend, PutOk
  <2>4. reqst' = [reqst EXCEPT ![Mine] = BlankSend] /\ resst' = [resst EXCEPT ![Mine] = BlankRecv]
    BY <2>1, <2>2 DEF CleanSend
  <2>5. /\ Holder' = [Holder EXCEPT ![Mine] = None]
        /\ \A r \in Reqs : r # Mine => (r \in Owing' <=> r \in Owing)
    BY <1>1, <2>2, <2>4, BlankHolder
  <2>6. ConnOn(Holder', Owing, fifo', sock', wire', LateDysks)
    BY <1>1, <1>2, <2>2, <2>3, <2>5, HolderTypes, Leave DEF ConnInv
  <2>7. \A r \in Reqs : r \in Owing /\ Holder'[r] # None => r \in Owing'
    BY <1>1, <2>2, <2>5, HolderTypes DEF ConnTypes
  <2>8. ConnInv'
    BY <1>1, <2>6, <2>7, Relax DEF ConnInv
  <2> QED BY <1>1, <1>2, <2>8, AnswersSame DEF ConnOk
<1> QED BY <1>3, <1>4

-----------------------------------------------------------------------------
(***************************************************************************)
(* The server, the network, and the other threads.                         *)
(***************************************************************************)
\* The server answers what it was asked on a connection.
LEMMA ServerConn ==
  ASSUME AzConnInv, StepOk, NEW c \in Conns, NEW code, ServerAnswers(c, code)
  PROVE  ConnOk
<1>1. AzInv /\ ConnInv /\ AnswersMatch /\ LateDysks \subseteq LateDysks'
  BY LateGrows DEF AzConnInv
<1> DEFINE i == CHOOSE k \in Unanswered(c) : \A j \in Unanswered(c) : k <= j
           m == [wire[c] EXCEPT ![i].code = code]
<1>2. /\ sock[c] = "open" /\ Unanswered(c) # {}
      /\ wire' = [wire EXCEPT ![c][i].code = code]
      /\ UNCHANGED <<reqst, resst, fifo, sock>> /\ got' = got
  BY DEF ServerAnswers, reqVars
<1>3. wire \in [Conns -> Seq(Message)] /\ wire[c] \in Seq(Message)
  BY <1>1 DEF AzInv, PoolTypes
<1> HIDE DEF i
<1>4. wire' = [wire EXCEPT ![c] = m]
  BY <1>2, <1>3
<1>5. wire[c] # <<>>
  <2>1. PICK k \in 1..Len(wire[c]) : TRUE
    BY <1>2 DEF Unanswered
  <2> QED BY <1>3, <2>1, EmptySeq
<1>6. Len(m) = Len(wire[c])
  BY <1>3
<1>7. Len(wire[c]) = 1 => m[1].req = wire[c][1].req
  <2>1. ASSUME Len(wire[c]) = 1
        PROVE  wire[c][1] \in Message /\ 1 \in 1..Len(wire[c])
    <3>1. 1 \in 1..Len(wire[c])
      BY <2>1
    <3> HIDE DEF m
    <3> QED BY <1>3, <3>1, ElementOfSeq
  <2>2. ASSUME Len(wire[c]) = 1, i = 1
        PROVE  m[1] = [wire[c][1] EXCEPT !.code = code]
    BY <1>3, <2>1, <2>2
  <2>3. ASSUME Len(wire[c]) = 1, i # 1
        PROVE  m[1] = wire[c][1]
    BY <1>3, <2>1, <2>3
  <2> QED BY <2>1, <2>2, <2>3 DEF Message
<1> HIDE DEF m
<1>8. Holder' = Holder /\ Owing' = Owing
  BY <1>2 DEF Holder, Owing
<1>9. ConnOn(Holder, Owing, fifo, sock, [wire EXCEPT ![c] = m], LateDysks)
  BY <1>1, <1>2, <1>5, <1>6, <1>7, HolderTypes, Owe DEF ConnInv
<1>10. ConnOn(Holder, Owing, fifo, sock, wire', LateDysks')
  BY <1>1, <1>4, <1>9, Relax
<1>11. ConnInv'
  BY <1>2, <1>8, <1>10 DEF ConnInv
<1> QED BY <1>1, <1>2, <1>11, AnswersSame DEF ConnOk

\* A connection breaks: it is still a socket, and where it was.
LEMMA NetworkConn ==
  ASSUME AzConnInv, StepOk, NEW c \in Conns, ConnectionBreaks(c)
  PROVE  ConnOk
<1>1. AzInv /\ ConnInv /\ AnswersMatch /\ LateDysks \subseteq LateDysks'
  BY LateGrows DEF AzConnInv
<1>2. /\ sock[c] = "open" /\ sock' = [sock EXCEPT ![c] = "closed"]
      /\ UNCHANGED <<reqst, resst, fifo, wire>> /\ got' = got
  BY DEF ConnectionBreaks, reqVars
<1>3. /\ \A b \in Conns : sock'[b] = "none" <=> sock[b] = "none"
      /\ ConnTypes(Holder, fifo, sock, wire)
  BY <1>1, <1>2, HolderTypes DEF ConnTypes
<1>4. Holder' = Holder /\ Owing' = Owing
  BY <1>2 DEF Holder, Owing
<1>5. ConnOn(Holder, Owing, fifo, sock', wire, LateDysks)
  <2>1. \A d \in Dysks : \A i \in 1..Len(fifo[d]) : fifo[d][i] \in Conns
    BY <1>3, ElementOfSeq DEF ConnTypes
  <2>2. \A r \in Reqs : Holder[r] # None => Holder[r] \in Conns
    BY <1>3 DEF ConnTypes
  <2>3. OnePlace(Holder, fifo, sock')
    BY <1>1, <1>3, <2>1, <2>2 DEF ConnInv, ConnOn, OnePlace
  <2>4. OwesOwn(Holder, Owing, fifo, sock', wire, LateDysks)
    BY <1>1, <1>3 DEF ConnInv, ConnOn, OwesOwn
  <2> QED BY <2>3, <2>4 DEF ConnOn
<1>6. ConnInv'
  BY <1>1, <1>2, <1>4, <1>5, Relax DEF ConnInv
<1> QED BY <1>1, <1>2, <1>6, AnswersSame DEF ConnOk

\* The other steps touch no connection: a request that is submitted has a
\* blank state.
LEMMA OtherConn ==
  ASSUME AzConnInv, StepOk, WorkerMoves \/ BlockLayer \/ Deleter \/ Clock
  PROVE  ConnOk
<1>1. CASE WorkerMoves \/ Deleter \/ Clock
  BY <1>1, UnchangedConn DEF WorkerMoves, Deleter, Clock, azVars, reqVars
<1>2. CASE BlockLayer
  <2>1. PICK r \in Reqs : IoRequest(r) \/ IoRequestReject(r) \/ az_do_request(r) \/ IoRequestStart(r)
    BY <1>2 DEF BlockLayer
  <2>2. CASE IoRequest(r) \/ IoRequestReject(r) \/ IoRequestStart(r)
    BY <2>2, UnchangedConn DEF IoRequest, IoRequestReject, IoRequestStart
  <2>3. CASE az_do_request(r)
    <3>1. /\ bio[r] = "peeked" /\ reqst' = [reqst EXCEPT ![r] = BlankSend]
          /\ UNCHANGED <<resst, poolVars, got>>
      BY <2>3 DEF az_do_request
    <3>2. reqst[r] = BlankSend /\ reqst \in [Reqs -> SendState]
      BY <3>1 DEF AzConnInv, AzInv, RequestsInv, ReqTypes, StatesInv, BioInv
    <3>3. reqst' = reqst
      BY <3>1, <3>2
    <3> QED BY <3>1, <3>3, UnchangedConn
  <2> QED BY <2>1, <2>2, <2>3
<1> QED BY <1>1, <1>2

-----------------------------------------------------------------------------
(***************************************************************************)
(* What holds of the connections.                                          *)
(***************************************************************************)
\* Every step keeps what is known of the connections.
LEMMA ConnStepOk ==
  ASSUME AzConnInv, AzNext
  PROVE  ConnOk
<1>1. StepOk
  BY AzStepOk DEF AzConnInv
<1>2. TRUE \in BOOLEAN /\ FALSE \in BOOLEAN
  OBVIOUS
<1>3. CASE AzWorker
  <2>1. CASE \/ SendNoConnection(TRUE)
             \/ \E c \in Conns : SendFails(c, TRUE) \/ SendAll(c, TRUE)
             \/ SendMessageSent(TRUE) \/ SendTryNew(TRUE)
    BY <1>1, <1>2, <2>1, SendConn
  <2>2. CASE \/ RecvWait \/ RecvClosed(TRUE) \/ RecvDone \/ RecvThrottled \/ RecvCatastrophe
             \/ RecvTryNew(TRUE)
    BY <1>1, <1>2, <2>2, RecvConn
  <2> QED BY <1>1, <1>3, <2>1, <2>2, OtherConn, CleanConn DEF AzWorker
<1>4. CASE AzFaults
  <2>1. CASE \/ SendNoMemory \/ SendNoConnection(FALSE)
             \/ \E c \in Conns :
                  \/ SendConnectFails(c)
                  \/ SendBlocked(c, "retry_now") \/ SendBlocked(c, "retry_later")
                  \/ SendFails(c, FALSE) \/ SendAll(c, FALSE)
             \/ SendMessageSent(FALSE) \/ SendTryNew(FALSE)
    BY <1>1, <1>2, <2>1, SendConn
  <2>2. CASE RecvNoMemory \/ RecvClosed(FALSE) \/ RecvThrottledNoMemory \/ RecvTryNew(FALSE)
    BY <1>1, <1>2, <2>2, RecvConn
  <2> QED BY <1>4, <2>1, <2>2 DEF AzFaults
<1>5. CASE Server \/ Network
  BY <1>1, <1>5, ServerConn, NetworkConn DEF Server, Network
<1>6. CASE BlockLayer \/ Deleter \/ Clock
  BY <1>1, <1>6, OtherConn
<1> QED BY <1>3, <1>4, <1>5, <1>6 DEF AzNext

\* Before the first request there is no connection.
LEMMA InitConn ==
  ASSUME AzInit
  PROVE  ConnInv /\ AnswersMatch
<1>1. /\ Holder = [r \in Reqs |-> None]
      /\ fifo = [d \in Dysks |-> <<>>] /\ wire = [c \in Conns |-> <<>>]
  BY DEF AzInit, Holder, BlankSend, BlankRecv
<1>2. \A d \in Dysks : Len(fifo[d]) = 0
  BY <1>1, EmptySeq
<1>3. ConnInv
  BY <1>1, <1>2 DEF ConnInv, ConnOn, OnePlace, OwesOwn
<1>4. AnswersMatch
  BY DEF AzInit, AnswersMatch
<1> QED BY <1>3, <1>4

\* The invariant of the connections, on top of that of the requests.
LEMMA ConnInvariance == AzSpec => []AzConnInv
<1>1. AzInit => ConnInv /\ AnswersMatch
  BY InitConn
<1>2. AzInv /\ AzInv' /\ (ConnInv /\ AnswersMatch) /\ [AzNext]_vars => (ConnInv /\ AnswersMatch)'
  <2>1. SUFFICES ASSUME AzInv, ConnInv, AnswersMatch, [AzNext]_vars
                 PROVE  ConnInv' /\ AnswersMatch'
    OBVIOUS
  <2>2. CASE AzNext
    BY <2>1, <2>2, ConnStepOk DEF AzConnInv, ConnOk
  <2>3. CASE UNCHANGED vars
    <3>1. UNCHANGED <<reqst, resst, poolVars, reqVars>>
      BY <2>3 DEF vars, azVars
    <3>2. Holder' = Holder /\ Owing' = Owing /\ LateDysks' = LateDysks
      BY <3>1 DEF Holder, Owing, LateDysks, OwedOn, reqVars
    <3>3. AnswersMatch'
      BY <2>1, <3>1 DEF AnswersMatch, OwedOn, reqVars
    <3> QED BY <2>1, <3>1, <3>2, <3>3 DEF ConnInv, poolVars
  <2> QED BY <2>1, <2>2, <2>3
<1>3. AzSpec => []AzInv
  BY AzInvariance
<1>4. AzInv /\ ConnInv /\ AnswersMatch => AzConnInv
  BY DEF AzConnInv
<1> QED BY <1>1, <1>2, <1>3, <1>4, PTL DEF AzSpec

\* A request is completed with another one's response only after some request
\* of its dysk was ended without an error and without a response: on no other
\* path does a connection that owes one go back to the pool (az.c 544-586).
THEOREM AnswersAreOwn == AzSpec => []AnswersMatch
<1>1. AzConnInv => AnswersMatch
  BY DEF AzConnInv
<1> QED BY <1>1, ConnInvariance, PTL

\* What the tasks on the list hold, read off the requests.
LEMMA HeldIsHolder ==
  ASSUME AzInv, NEW c \in Conns, NEW i \in HeldBy(c)
  PROVE  /\ i \in 1..Len(queue) /\ queue[i].state[2] \in Reqs
         /\ Holder[queue[i].state[2]] = c
<1> DEFINE r == queue[i].state[2]
<1>1. TasksInv /\ ListInv /\ StatesInv
  BY IInvParts DEF AzInv, RequestsInv
<1>2. i \in 1..Len(queue) /\ c # None
  BY AzParametersAssumption DEF HeldBy
<1>3. queue[i] \in Task /\ TaskOk(queue[i])
  BY <1>1, <1>2, ElementOfSeq DEF ListInv, TasksInv
<1>4. /\ r \in Reqs
      /\ \/ queue[i].state = ReqObject(r) /\ queue[i].fn = "send"
         \/ queue[i].state = ResObject(r) /\ queue[i].fn = "recv"
  BY <1>3, StateIsObject
<1>5. CASE queue[i].fn = "send"
  BY <1>2, <1>4, <1>5 DEF HeldBy, Holder
<1>6. CASE queue[i].fn = "recv"
  <2>1. \A j \in 1..Len(queue) : queue[j].state # ReqObject(r)
    <3>1. SUFFICES ASSUME NEW j \in 1..Len(queue), queue[j].state = ReqObject(r)
                   PROVE  FALSE
      OBVIOUS
    <3>2. j = i
      BY <1>1, <1>2, <3>1, ObjectsDiffer DEF TasksInv
    <3>3. queue[i].state = ResObject(r)
      BY <1>4, <1>6
    <3> QED BY <3>1, <3>2, <3>3, ObjectsDiffer
  <2>2. reqst[r].c = None
    BY <1>1, <1>4, <2>1 DEF StatesInv, Senders, BlankSend
  <2> QED BY <1>2, <1>4, <1>6, <2>2 DEF HeldBy, Holder
<1> QED BY <1>4, <1>5, <1>6, <1>2

\* A connection has one user on every path, clean-ups and failures included
\* (connection_pool_get and connection_pool_put, az.c 267-350).
THEOREM OneUser == AzSpec => []OneUserPerConnection
<1>1. ASSUME AzConnInv, NEW c \in Conns
      PROVE  /\ Cardinality(PooledAt(c)) + Cardinality(HeldBy(c)) <= 1
             /\ sock[c] = "none" => PooledAt(c) \cup HeldBy(c) = {}
  <2>1. AzInv /\ OnePlace(Holder, fifo, sock) /\ fifo \in [Dysks -> Seq(Conns)] /\ c # None
    BY <1>1, AzParametersAssumption DEF AzConnInv, ConnInv, ConnOn, AzInv, PoolTypes
  <2>2. \A p \in PooledAt(c) :
          /\ p[1] \in Dysks /\ p[2] \in 1..Len(fifo[p[1]]) /\ fifo[p[1]][p[2]] = c
          /\ p = <<p[1], p[2]>>
    BY <2>1, LenProperties DEF PooledAt
  <2>3. \A p, q \in PooledAt(c) : p = q
    <3>1. SUFFICES ASSUME NEW p \in PooledAt(c), NEW q \in PooledAt(c)
                   PROVE  p = q
      OBVIOUS
    <3>2. p[1] = q[1] /\ p[2] = q[2]
      BY <2>1, <2>2 DEF OnePlace
    <3> QED BY <2>2, <3>2
  <2>4. \A i, j \in HeldBy(c) : i = j
    <3>1. SUFFICES ASSUME NEW i \in HeldBy(c), NEW j \in HeldBy(c)
                   PROVE  i = j
      OBVIOUS
    <3>2. queue[i].state[2] = queue[j].state[2]
      BY <1>1, <2>1, HeldIsHolder DEF OnePlace
    <3> QED BY <1>1, <2>1, <3>2, HeldIsHolder DEF AzInv, TasksInv
  <2>5. PooledAt(c) = {} \/ HeldBy(c) = {}
    <3>1. SUFFICES ASSUME NEW p \in PooledAt(c), NEW i \in HeldBy(c)
                   PROVE  FALSE
      OBVIOUS
    <3>2. queue[i].state[2] \in Reqs /\ Holder[queue[i].state[2]] = fifo[p[1]][p[2]]
      BY <1>1, <2>1, <2>2, HeldIsHolder
    <3> QED BY <2>1, <2>2, <3>2 DEF OnePlace
  <2>6. \A S : (\A a, b \in S : a = b) => Cardinality(S) \in {0, 1} /\ (S = {} => Cardinality(S) = 0)
    <3>1. SUFFICES ASSUME NEW S, \A a, b \in S : a = b
                   PROVE  Cardinality(S) \in {0, 1} /\ (S = {} => Cardinality(S) = 0)
      OBVIOUS
    <3>2. CASE S = {}
      BY <3>2, FS_EmptySet
    <3>3. CASE S # {}
      <4>1. PICK a : a \in S
        BY <3>3
      <4>2. S = {a}
        BY <3>1, <4>1
      <4> QED BY <3>3, <4>2, FS_Singleton
    <3> QED BY <3>2, <3>3
  <2>7. Cardinality(PooledAt(c)) + Cardinality(HeldBy(c)) <= 1
    <3>1. /\ Cardinality(PooledAt(c)) \in {0, 1} /\ (PooledAt(c) = {} => Cardinality(PooledAt(c)) = 0)
          /\ Cardinality(HeldBy(c)) \in {0, 1} /\ (HeldBy(c) = {} => Cardinality(HeldBy(c)) = 0)
      BY <2>3, <2>4, <2>6
    <3> QED BY <2>5, <3>1
  <2>8. ASSUME sock[c] = "none"
        PROVE  PooledAt(c) \cup HeldBy(c) = {}
    <3>1. PooledAt(c) = {}
      BY <2>1, <2>2, <2>8 DEF OnePlace
    <3>2. HeldBy(c) = {}
      BY <1>1, <2>1, <2>8, HeldIsHolder DEF OnePlace
    <3> QED BY <3>1, <3>2
  <2> QED BY <2>7, <2>8
<1>2. AzConnInv => OneUserPerConnection
  BY <1>1 DEF OneUserPerConnection
<1> QED BY <1>2, ConnInvariance, PTL

-----------------------------------------------------------------------------
(***************************************************************************)
(* The counters of the pools.                                              *)
(***************************************************************************)
\* The sockets that are in the pool of d or held by a request of d.  H, ff and
\* n: the connection each request holds, the pools, their counters.
UsedBy(d, H, ff) ==
  {c \in Conns : \/ \E i \in 1..Len(ff[d]) : ff[d][i] = c
                 \/ \E r \in Reqs : DyskOf[r] = d /\ H[r] = c}

Counts(H, ff, n) ==
  \A d \in Dysks :
    /\ IsFiniteSet(UsedBy(d, H, ff))
    /\ n[d] = Cardinality(UsedBy(d, H, ff))
    /\ n[d] <= MAX_CONNECTIONS

\* The counters are exact, and no pool is above its maximum.
CountInv == Counts(Holder, fifo, count)

\* A send task that holds a connection leaves the list without having run to
\* its end: the dysk is marked or has failed, or the deadline has passed.
ForgetsConnection ==
  /\ CancelTask \/ ExpireTask \/ FailTask
  /\ Current.fn = "send" /\ reqst[Mine].c # None

LosesCount == (\E c \in Conns : SendConnectFails(c)) \/ ForgetsConnection

SteadySpec == AzInit /\ [][AzNext /\ ~LosesCount]_vars

-----------------------------------------------------------------------------
(***************************************************************************)
(* The number of sockets in use.                                           *)
(***************************************************************************)
\* An idle connection that is taken was used by the pool, and is used by the
\* request (az.c 254-283).
LEMMA UseIdle ==
  ASSUME NEW H, NEW ff, NEW sk, NEW w, ConnTypes(H, ff, sk, w),
         NEW r \in Reqs, H[r] = None, ff[DyskOf[r]] # <<>>, NEW d \in Dysks
  PROVE  UsedBy(d, [H EXCEPT ![r] = Head(ff[DyskOf[r]])], [ff EXCEPT ![DyskOf[r]] = Tail(@)])
           = UsedBy(d, H, ff)
<1> DEFINE e == DyskOf[r]
           c == Head(ff[e])
           G == [H EXCEPT ![r] = c]
           f == [ff EXCEPT ![e] = Tail(@)]
<1>1. e \in Dysks /\ H \in [Reqs -> Conns \cup {None}] /\ ff \in [Dysks -> Seq(Conns)]
  BY AzParametersAssumption DEF ConnTypes
<1>2. /\ c = ff[e][1] /\ 1 \in 1..Len(ff[e]) /\ c \in Conns /\ None \notin Conns
      /\ \A b \in Dysks : b # e => f[b] = ff[b]
      /\ Len(f[e]) = Len(ff[e]) - 1 /\ Len(ff[e]) \in Nat
      /\ \A i \in 1..Len(f[e]) : i + 1 \in 1..Len(ff[e]) /\ f[e][i] = ff[e][i + 1]
  BY <1>1, PoolTail, AzParametersAssumption, LenProperties
<1>3. G[r] = c /\ \A q \in Reqs : q # r => G[q] = H[q]
  BY <1>1
<1> HIDE DEF c, G, f
<1>4. ASSUME d # e
      PROVE  UsedBy(d, G, f) = UsedBy(d, H, ff)
  BY <1>2, <1>3, <1>4 DEF UsedBy
<1>5. ASSUME d = e
      PROVE  UsedBy(d, G, f) = UsedBy(d, H, ff)
  <2>1. ASSUME NEW b \in UsedBy(d, H, ff)
        PROVE  b \in UsedBy(d, G, f)
    <3>1. ASSUME NEW i \in 1..Len(ff[d]), ff[d][i] = b, b # c
          PROVE  i - 1 \in 1..Len(f[d]) /\ f[d][i - 1] = b
      <4>1. i # 1
        BY <1>2, <1>5, <3>1
      <4>2. i - 1 \in 1..Len(f[d]) /\ (i - 1) + 1 = i
        BY <1>2, <1>5, <4>1
      <4> QED BY <1>2, <1>5, <3>1, <4>2
    <3>2. ASSUME NEW q \in Reqs, DyskOf[q] = d, H[q] = b
          PROVE  G[q] = b
      BY <1>2, <1>3, <3>2 DEF UsedBy
    <3> QED BY <1>3, <1>5, <3>1, <3>2 DEF UsedBy
  <2>2. ASSUME NEW b \in UsedBy(d, G, f)
        PROVE  b \in UsedBy(d, H, ff)
    <3>1. ASSUME NEW i \in 1..Len(f[d]), f[d][i] = b
          PROVE  i + 1 \in 1..Len(ff[d]) /\ ff[d][i + 1] = b
      BY <1>2, <1>5, <3>1
    <3>2. ASSUME NEW q \in Reqs, DyskOf[q] = d, G[q] = b, q # r
          PROVE  H[q] = b
      BY <1>3, <3>2
    <3>3. 1 \in 1..Len(ff[d]) /\ ff[d][1] = c
      BY <1>2, <1>5
    <3> QED BY <1>3, <3>1, <3>2, <3>3 DEF UsedBy
  <2>3. UsedBy(d, H, ff) \subseteq UsedBy(d, G, f) /\ UsedBy(d, G, f) \subseteq UsedBy(d, H, ff)
    BY <2>1, <2>2
  <2> QED BY ONLY <2>3
<1> QED BY <1>4, <1>5 DEF c, G, f

\* A new socket was used by nobody (az.c 288-315).
LEMMA UseNew ==
  ASSUME NEW H, NEW ff, NEW sk, NEW w, ConnTypes(H, ff, sk, w), OnePlace(H, ff, sk),
         NEW r \in Reqs, H[r] = None, NEW c \in Conns, sk[c] = "none", NEW d \in Dysks
  PROVE  /\ c \notin UsedBy(d, H, ff)
         /\ UsedBy(d, [H EXCEPT ![r] = c], ff)
              = IF d = DyskOf[r] THEN UsedBy(d, H, ff) \cup {c} ELSE UsedBy(d, H, ff)
<1> DEFINE G == [H EXCEPT ![r] = c]
<1>1. G[r] = c /\ None \notin Conns /\ \A q \in Reqs : q # r => G[q] = H[q]
  BY AzParametersAssumption DEF ConnTypes
<1>2. c \notin UsedBy(d, H, ff)
  BY <1>1 DEF UsedBy, OnePlace
<1> HIDE DEF G
<1>3. UsedBy(d, G, ff) = IF d = DyskOf[r] THEN UsedBy(d, H, ff) \cup {c} ELSE UsedBy(d, H, ff)
  <2>1. CASE d = DyskOf[r]
    BY <1>1, <2>1 DEF UsedBy
  <2>2. CASE d # DyskOf[r]
    BY <1>1, <2>2 DEF UsedBy
  <2> QED BY <2>1, <2>2
<1> QED BY <1>2, <1>3 DEF G

\* A connection that is held is used by its holder alone: when it is torn
\* down, there is one less (az.c 274-282).
LEMMA UseLess ==
  ASSUME NEW H, NEW ff, NEW sk, NEW w, ConnTypes(H, ff, sk, w), OnePlace(H, ff, sk),
         NEW r \in Reqs, NEW c \in Conns, H[r] = c, NEW d \in Dysks
  PROVE  /\ d = DyskOf[r] => c \in UsedBy(d, H, ff)
         /\ UsedBy(d, [H EXCEPT ![r] = None], ff)
              = IF d = DyskOf[r] THEN UsedBy(d, H, ff) \ {c} ELSE UsedBy(d, H, ff)
<1> DEFINE G == [H EXCEPT ![r] = None]
<1>1. G[r] = None /\ None \notin Conns /\ \A q \in Reqs : q # r => G[q] = H[q]
  BY AzParametersAssumption DEF ConnTypes
<1>2. /\ \A q \in Reqs : H[q] = c => q = r
      /\ \A i \in 1..Len(ff[d]) : ff[d][i] # c
  BY <1>1 DEF OnePlace
<1> HIDE DEF G
<1>3. UsedBy(d, G, ff) = IF d = DyskOf[r] THEN UsedBy(d, H, ff) \ {c} ELSE UsedBy(d, H, ff)
  <2>1. CASE d = DyskOf[r]
    BY <1>1, <1>2, <2>1 DEF UsedBy
  <2>2. CASE d # DyskOf[r]
    BY <1>1, <2>2 DEF UsedBy
  <2> QED BY <2>1, <2>2
<1> QED BY <1>3 DEF G, UsedBy

\* The pools with c behind the others of d.
Returned(ff, d, c) == [ff EXCEPT ![d] = Append(@, c)]

\* A connection that is given back is used by the pool (az.c 283).
LEMMA UseBack ==
  ASSUME NEW H, NEW ff, NEW sk, NEW w, ConnTypes(H, ff, sk, w),
         NEW r \in Reqs, NEW c \in Conns, H[r] = c, NEW d \in Dysks
  PROVE  UsedBy(d, [H EXCEPT ![r] = None], Returned(ff, DyskOf[r], c)) = UsedBy(d, H, ff)
<1> DEFINE e == DyskOf[r]
           G == [H EXCEPT ![r] = None]
           f == Returned(ff, e, c)
<1>1. e \in Dysks /\ H \in [Reqs -> Conns \cup {None}] /\ ff \in [Dysks -> Seq(Conns)]
  BY AzParametersAssumption DEF ConnTypes
<1>2. /\ \A b \in Dysks : b # e => f[b] = ff[b]
      /\ Len(f[e]) = Len(ff[e]) + 1 /\ Len(ff[e]) \in Nat
      /\ f[e][Len(ff[e]) + 1] = c
      /\ \A i \in 1..Len(ff[e]) : f[e][i] = ff[e][i]
  BY <1>1, PoolAppend DEF Returned
<1>3. G[r] = None /\ None \notin Conns /\ \A q \in Reqs : q # r => G[q] = H[q]
  BY <1>1, AzParametersAssumption
<1> HIDE DEF G, f
<1>4. ASSUME d # e
      PROVE  UsedBy(d, G, f) = UsedBy(d, H, ff)
  <2>1. f[d] = ff[d]
    BY <1>2, <1>4
  <2>2. \A b \in Conns, q \in Reqs : DyskOf[q] = d => (G[q] = b <=> H[q] = b)
    BY <1>3, <1>4
  <2> QED BY ONLY <2>1, <2>2 DEF UsedBy
<1>5. ASSUME d = e
      PROVE  UsedBy(d, G, f) = UsedBy(d, H, ff)
  <2>1. ASSUME NEW b \in UsedBy(d, H, ff)
        PROVE  b \in UsedBy(d, G, f)
    <3>1. CASE b = c
      <4>1. Len(ff[d]) + 1 \in 1..Len(f[d]) /\ f[d][Len(ff[d]) + 1] = b
        BY <1>2, <1>5, <3>1
      <4> QED BY <3>1, <4>1 DEF UsedBy
    <3>2. CASE b # c
      <4>1. \A i \in 1..Len(ff[d]) : i \in 1..Len(f[d]) /\ f[d][i] = ff[d][i]
        BY <1>2, <1>5
      <4> QED BY <1>3, <3>2, <4>1 DEF UsedBy
    <3> QED BY <3>1, <3>2
  <2>2. ASSUME NEW b \in UsedBy(d, G, f)
        PROVE  b \in UsedBy(d, H, ff)
    <3>1. ASSUME NEW i \in 1..Len(f[d]), f[d][i] = b
          PROVE  b = c \/ (i \in 1..Len(ff[d]) /\ ff[d][i] = b)
      <4>1. i \in 1..Len(ff[d]) \/ i = Len(ff[d]) + 1
        BY <1>2, <1>5
      <4> QED BY <1>2, <1>5, <3>1, <4>1
    <3>2. b \in Conns
      BY DEF UsedBy
    <3> QED BY <1>3, <1>5, <3>1, <3>2 DEF UsedBy
  <2>3. UsedBy(d, H, ff) \subseteq UsedBy(d, G, f) /\ UsedBy(d, G, f) \subseteq UsedBy(d, H, ff)
    BY <2>1, <2>2
  <2> QED BY ONLY <2>3
<1> QED BY <1>4, <1>5 DEF G, f

-----------------------------------------------------------------------------
(***************************************************************************)
(* What the operations of the pool do to the counters.                     *)
(***************************************************************************)
\* Below the maximum the unsigned counter does not wrap, nor does one that is
\* not zero (az.c 133).
LEMMA CounterMoves ==
  ASSUME NEW n \in 0..(UIntModulus - 1)
  PROVE  /\ n < MAX_CONNECTIONS => (n + 1) % UIntModulus = n + 1
         /\ n # 0 => (n + UIntModulus - 1) % UIntModulus = n - 1
<1>1. UIntModulus \in Nat /\ MAX_CONNECTIONS \in Nat /\ UIntModulus > MAX_CONNECTIONS
  BY AzParametersAssumption
<1>2. \A k, m \in Nat : m < k => m % k = m /\ (m + k) % k = m
  OBVIOUS
<1>3. n < MAX_CONNECTIONS => (n + 1) % UIntModulus = n + 1
  BY <1>1, <1>2
<1>4. ASSUME n # 0 PROVE (n + UIntModulus - 1) % UIntModulus = n - 1
  <2>1. n - 1 \in Nat /\ n - 1 < UIntModulus /\ n + UIntModulus - 1 = (n - 1) + UIntModulus
    BY <1>1, <1>4
  <2> QED BY <1>1, <1>2, <2>1
<1> QED BY <1>3, <1>4

\* A new connection is counted.
LEMMA CountNew ==
  ASSUME NEW H, NEW ff, NEW sk, NEW w, ConnTypes(H, ff, sk, w), OnePlace(H, ff, sk),
         NEW n \in [Dysks -> 0..(UIntModulus - 1)], Counts(H, ff, n),
         NEW r \in Reqs, H[r] = None, NEW c \in Conns, sk[c] = "none",
         n[DyskOf[r]] < MAX_CONNECTIONS
  PROVE  Counts([H EXCEPT ![r] = c], ff, [n EXCEPT ![DyskOf[r]] = (@ + 1) % UIntModulus])
<1> DEFINE e == DyskOf[r]
           G == [H EXCEPT ![r] = c]
           k == [n EXCEPT ![e] = (@ + 1) % UIntModulus]
<1>1. SUFFICES ASSUME NEW d \in Dysks
               PROVE  /\ IsFiniteSet(UsedBy(d, G, ff))
                      /\ k[d] = Cardinality(UsedBy(d, G, ff))
                      /\ k[d] <= MAX_CONNECTIONS
  BY DEF Counts
<1>2. /\ IsFiniteSet(UsedBy(d, H, ff)) /\ n[d] = Cardinality(UsedBy(d, H, ff))
      /\ n[d] <= MAX_CONNECTIONS /\ n[d] \in 0..(UIntModulus - 1) /\ MAX_CONNECTIONS \in Nat
  BY AzParametersAssumption DEF Counts
<1>3. /\ c \notin UsedBy(d, H, ff)
      /\ UsedBy(d, G, ff) = IF d = e THEN UsedBy(d, H, ff) \cup {c} ELSE UsedBy(d, H, ff)
  <2>1. ConnTypes(H, ff, sk, w) /\ OnePlace(H, ff, sk) /\ H[r] = None /\ sk[c] = "none"
    OBVIOUS
  <2>2. r \in Reqs /\ c \in Conns /\ d \in Dysks
    OBVIOUS
  <2> QED BY ONLY <2>1, <2>2, UseNew
<1>4. k[d] = IF d = e THEN (n[d] + 1) % UIntModulus ELSE n[d]
  OBVIOUS
<1> HIDE DEF G, k
<1>5. CASE d = e
  <2>1. k[d] = n[d] + 1 /\ n[d] < MAX_CONNECTIONS
    BY <1>2, <1>4, <1>5, CounterMoves
  <2>2. /\ IsFiniteSet(UsedBy(d, G, ff))
        /\ Cardinality(UsedBy(d, G, ff)) = Cardinality(UsedBy(d, H, ff)) + 1
    BY <1>2, <1>3, <1>5, FS_AddElement
  <2> QED BY <1>2, <2>1, <2>2
<1>6. CASE d # e
  BY <1>2, <1>3, <1>4, <1>6
<1> QED BY <1>5, <1>6

\* One that is torn down is not counted any more.
LEMMA CountLess ==
  ASSUME NEW H, NEW ff, NEW sk, NEW w, ConnTypes(H, ff, sk, w), OnePlace(H, ff, sk),
         NEW n \in [Dysks -> 0..(UIntModulus - 1)], Counts(H, ff, n),
         NEW r \in Reqs, NEW c \in Conns, H[r] = c
  PROVE  Counts([H EXCEPT ![r] = None], ff,
                [n EXCEPT ![DyskOf[r]] = (@ + UIntModulus - 1) % UIntModulus])
<1> DEFINE e == DyskOf[r]
           G == [H EXCEPT ![r] = None]
           k == [n EXCEPT ![e] = (@ + UIntModulus - 1) % UIntModulus]
<1>1. SUFFICES ASSUME NEW d \in Dysks
               PROVE  /\ IsFiniteSet(UsedBy(d, G, ff))
                      /\ k[d] = Cardinality(UsedBy(d, G, ff))
                      /\ k[d] <= MAX_CONNECTIONS
  BY DEF Counts
<1>2. /\ IsFiniteSet(UsedBy(d, H, ff)) /\ n[d] = Cardinality(UsedBy(d, H, ff))
      /\ n[d] <= MAX_CONNECTIONS /\ n[d] \in 0..(UIntModulus - 1) /\ MAX_CONNECTIONS \in Nat
  BY AzParametersAssumption DEF Counts
<1>3. /\ d = e => c \in UsedBy(d, H, ff)
      /\ UsedBy(d, G, ff) = IF d = e THEN UsedBy(d, H, ff) \ {c} ELSE UsedBy(d, H, ff)
  <2>1. ConnTypes(H, ff, sk, w) /\ OnePlace(H, ff, sk) /\ H[r] = c
    OBVIOUS
  <2>2. r \in Reqs /\ c \in Conns /\ d \in Dysks
    OBVIOUS
  <2> QED BY ONLY <2>1, <2>2, UseLess
<1>4. k[d] = IF d = e THEN (n[d] + UIntModulus - 1) % UIntModulus ELSE n[d]
  OBVIOUS
<1> HIDE DEF G, k
<1>5. CASE d = e
  <2>1. n[d] # 0
    BY <1>2, <1>3, <1>5, FS_EmptySet
  <2>2. k[d] = n[d] - 1
    BY <1>2, <1>4, <1>5, <2>1, CounterMoves
  <2>3. /\ IsFiniteSet(UsedBy(d, G, ff))
        /\ Cardinality(UsedBy(d, G, ff)) = Cardinality(UsedBy(d, H, ff)) - 1
    BY <1>2, <1>3, <1>5, FS_RemoveElement
  <2> QED BY <1>2, <2>2, <2>3
<1>6. CASE d # e
  BY <1>2, <1>3, <1>4, <1>6
<1> QED BY <1>5, <1>6

\* The pool has room for a connection that is held: those in it are others,
\* and all are counted (az.c 283).
LEMMA RoomForMine ==
  ASSUME NEW H, NEW ff, NEW sk, NEW w, ConnTypes(H, ff, sk, w), OnePlace(H, ff, sk),
         NEW n, Counts(H, ff, n), NEW r \in Reqs, NEW c \in Conns, H[r] = c
  PROVE  Len(ff[DyskOf[r]]) < MAX_CONNECTIONS
<1> DEFINE d == DyskOf[r]
           others == UsedBy(d, H, ff) \ {c}
           f == [i \in 1..Len(ff[d]) |-> ff[d][i]]
<1>1. d \in Dysks /\ MAX_CONNECTIONS \in Nat /\ ff \in [Dysks -> Seq(Conns)]
  BY AzParametersAssumption DEF ConnTypes
<1>2. Len(ff[d]) \in Nat /\ \A i \in 1..Len(ff[d]) : ff[d][i] \in Conns
  BY <1>1, ElementOfSeq, LenProperties
<1>3. /\ IsFiniteSet(UsedBy(d, H, ff)) /\ Cardinality(UsedBy(d, H, ff)) <= MAX_CONNECTIONS
      /\ Cardinality(UsedBy(d, H, ff)) \in Nat
  BY <1>1, FS_CardinalityType DEF Counts
<1>4. c \in UsedBy(d, H, ff)
  BY DEF UsedBy
<1>5. IsFiniteSet(others) /\ Cardinality(others) = Cardinality(UsedBy(d, H, ff)) - 1
  BY <1>3, <1>4, FS_RemoveElement
<1>6. f \in Injection(1..Len(ff[d]), others)
  <2>1. \A i \in 1..Len(ff[d]) : ff[d][i] \in others
    BY <1>1, <1>2 DEF UsedBy, OnePlace
  <2>2. \A i, j \in 1..Len(ff[d]) : ff[d][i] = ff[d][j] => i = j
    BY <1>1 DEF OnePlace
  <2> HIDE DEF others
  <2> QED BY <2>1, <2>2 DEF Injection, IsInjective
<1> HIDE DEF f, others
<1>7. Cardinality(1..Len(ff[d])) <= Cardinality(others)
  BY <1>5, <1>6, FS_Injection
<1>8. Cardinality(1..Len(ff[d])) = Len(ff[d])
  BY <1>2, FS_Interval
<1> QED BY <1>1, <1>2, <1>3, <1>5, <1>7, <1>8

\* connection_pool_get (az.c 288-315).
LEMMA TakesCount ==
  ASSUME AzConnInv, CountInv, NEW m \in Reqs, NEW c \in Conns, Takes(DyskOf[m], Holder[m], c)
  PROVE  Counts([Holder EXCEPT ![m] = c], FifoAfter(DyskOf[m], Holder[m]),
                CountAfter(DyskOf[m], Holder[m], c))
<1> DEFINE e == DyskOf[m]
<1>1. /\ ConnTypes(Holder, fifo, sock, wire) /\ OnePlace(Holder, fifo, sock)
      /\ count \in [Dysks -> 0..(UIntModulus - 1)] /\ Counts(Holder, fifo, count)
  BY HolderTypes DEF AzConnInv, AzInv, PoolTypes, ConnInv, ConnOn, CountInv
<1>2. CASE Holder[m] = c
  <2>1. [Holder EXCEPT ![m] = c] = Holder /\ c # None
    BY <1>1, <1>2, AzParametersAssumption DEF ConnTypes
  <2>2. FifoAfter(e, Holder[m]) = fifo /\ CountAfter(e, Holder[m], c) = count
    BY <1>2, <2>1 DEF FifoAfter, CountAfter, TakesNew
  <2> QED BY <1>1, <2>1, <2>2
<1>3. CASE TakesIdle(e, Holder[m], c)
  <2>1. Holder[m] = None /\ fifo[e] # <<>> /\ c = Head(fifo[e])
    BY <1>3 DEF TakesIdle
  <2>2. FifoAfter(e, Holder[m]) = [fifo EXCEPT ![e] = Tail(@)] /\ CountAfter(e, Holder[m], c) = count
    BY <2>1 DEF FifoAfter, CountAfter, TakesNew
  <2>3. \A d \in Dysks : UsedBy(d, [Holder EXCEPT ![m] = c], [fifo EXCEPT ![e] = Tail(@)])
                           = UsedBy(d, Holder, fifo)
    <3>1. /\ ConnTypes(Holder, fifo, sock, wire) /\ m \in Reqs
          /\ Holder[m] = None /\ fifo[e] # <<>> /\ c = Head(fifo[e])
      BY <1>1, <2>1
    <3> QED BY ONLY <3>1, UseIdle
  <2>4. Counts([Holder EXCEPT ![m] = c], [fifo EXCEPT ![e] = Tail(@)], count)
    BY <1>1, <2>3 DEF Counts
  <2> QED BY <2>2, <2>4
<1>4. CASE TakesNew(e, Holder[m], c)
  <2>1. Holder[m] = None /\ fifo[e] = <<>> /\ sock[c] = "none" /\ count[e] < MAX_CONNECTIONS
    BY <1>4 DEF TakesNew
  <2>2. /\ FifoAfter(e, Holder[m]) = fifo
        /\ CountAfter(e, Holder[m], c) = [count EXCEPT ![e] = (@ + 1) % UIntModulus]
    BY <1>4, <2>1 DEF FifoAfter, CountAfter
  <2>3. Counts([Holder EXCEPT ![m] = c], fifo, [count EXCEPT ![e] = (@ + 1) % UIntModulus])
    BY <1>1, <2>1, CountNew
  <2> QED BY <2>2, <2>3
<1> QED BY <1>2, <1>3, <1>4 DEF Takes

\* connection_pool_put of a good connection (az.c 283).
LEMMA PutsCount ==
  ASSUME NEW H, NEW sk, NEW w, NEW n, ConnTypes(H, fifo, sk, w), OnePlace(H, fifo, sk),
         Counts(H, fifo, n), NEW m \in Reqs, NEW c \in Conns \cup {None},
         PutOk(DyskOf[m], c), H[m] = c
  PROVE  Counts([H EXCEPT ![m] = None], fifo', n)
<1>1. CASE c = None
  <2>1. fifo' = fifo /\ [H EXCEPT ![m] = None] = H
    BY <1>1 DEF PutOk, ConnTypes
  <2> QED BY <2>1
<1>2. CASE c # None
  <2>1. c \in Conns
    BY <1>2
  <2>2. Len(fifo[DyskOf[m]]) < MAX_CONNECTIONS
    BY <2>1, RoomForMine
  <2>3. fifo' = Returned(fifo, DyskOf[m], c)
    BY <1>2, <2>2 DEF PutOk, Returned
  <2>4. \A d \in Dysks : UsedBy(d, [H EXCEPT ![m] = None], fifo') = UsedBy(d, H, fifo)
    <3>1. ConnTypes(H, fifo, sk, w) /\ H[m] = c /\ m \in Reqs /\ c \in Conns
      BY <2>1
    <3> QED BY ONLY <2>3, <3>1, UseBack
  <2> QED BY <2>4 DEF Counts
<1> QED BY <1>1, <1>2

-----------------------------------------------------------------------------
(***************************************************************************)
(* The steps of the transfer library.                                      *)
(***************************************************************************)
\* The pools are left alone, and nobody's connection changes.
LEMMA CountSame ==
  ASSUME CountInv, Holder' = Holder, UNCHANGED <<fifo, count>>
  PROVE  CountInv'
  BY DEF CountInv

\* A call that goes no further than the state it has.
LEMMA SendKeepsCount ==
  ASSUME AzConnInv, CountInv, Sending, NEW x \in SendState,
         reqst' = [reqst EXCEPT ![Mine] = x], resst' = resst, UNCHANGED poolVars,
         x.c = reqst[Mine].c
  PROVE  CountInv'
<1>1. AzInv
  BY DEF AzConnInv
<1>2. Mine \in Reqs /\ resst' = [resst EXCEPT ![Mine] = BlankRecv] /\ Holder[Mine] = reqst[Mine].c
  BY <1>1, MineHolds DEF Sending
<1>3. BlankRecv \in RecvState /\ BlankRecv.c = None
  BY BlanksAreStates DEF BlankRecv
<1>4. Holder' = [Holder EXCEPT ![Mine] = IF x.c # None THEN x.c ELSE BlankRecv.c]
  BY <1>1, <1>2, <1>3, HolderStep
<1>5. Holder' = Holder
  BY <1>1, <1>2, <1>3, <1>4, HolderTypes DEF ConnTypes
<1> QED BY <1>5, CountSame DEF poolVars

\* The request took a connection and keeps it.
LEMMA SendBlockedCount ==
  ASSUME AzConnInv, CountInv, NEW c \in Conns, NEW res, SendBlocked(c, res)
  PROVE  CountInv'
<1>1. AzInv
  BY DEF AzConnInv
<1>2. /\ Sending /\ Mine \in Reqs /\ reqst[Mine] \in SendState
      /\ HeaderAfter(reqst[Mine].header) \in {"none", "made", "empty"}
      /\ Current.d = DyskOf[Mine]
  BY <1>1, SendsBytesFacts DEF SendBlocked
<1>3. /\ Holder[Mine] = reqst[Mine].c /\ None \notin Conns
      /\ resst' = [resst EXCEPT ![Mine] = BlankRecv]
  BY <1>1, <1>2, MineHolds DEF Sending, SendBlocked
<1>4. PICK hs \in {reqst[Mine].header_sent, Mine \in Writes} :
        reqst' = [reqst EXCEPT ![Mine] =
          [reqst[Mine] EXCEPT !.c = c, !.header = HeaderAfter(reqst[Mine].header),
                              !.header_sent = hs]]
  BY DEF SendBlocked
<1>5. hs \in BOOLEAN
  <2>1. reqst[Mine].header_sent \in BOOLEAN
    BY <1>2 DEF SendState
  <2>2. (Mine \in Writes) \in BOOLEAN
    OBVIOUS
  <2> QED BY ONLY <2>1, <2>2, Zenon
<1> DEFINE x == [reqst[Mine] EXCEPT !.c = c, !.header = HeaderAfter(reqst[Mine].header),
                                    !.header_sent = hs]
<1>6. x \in SendState /\ x.c = c
  BY <1>2, <1>5 DEF SendState
<1>7. reqst' = [reqst EXCEPT ![Mine] = x]
  BY <1>4
<1> HIDE DEF x
<1>8. Holder' = [Holder EXCEPT ![Mine] = IF x.c # None THEN x.c ELSE BlankRecv.c]
  BY <1>1, <1>2, <1>3, <1>6, <1>7, BlanksAreStates, HolderStep
<1>9. Holder' = [Holder EXCEPT ![Mine] = c]
  BY <1>3, <1>6, <1>8
<1>10. /\ fifo' = FifoAfter(DyskOf[Mine], Holder[Mine])
       /\ count' = CountAfter(DyskOf[Mine], Holder[Mine], c)
       /\ Takes(DyskOf[Mine], Holder[Mine], c)
  BY <1>2, <1>3 DEF SendBlocked
<1> QED BY <1>2, <1>9, <1>10, TakesCount DEF CountInv

\* sock_sendmsg() failed: what was taken is torn down.
LEMMA SendFailsCount ==
  ASSUME AzConnInv, CountInv, NEW c \in Conns, NEW mem \in BOOLEAN, SendFails(c, mem)
  PROVE  CountInv'
<1>1. AzInv /\ ConnInv
  BY DEF AzConnInv
<1>2. /\ Sending /\ Mine \in Reqs /\ reqst[Mine] \in SendState /\ ~reqst[Mine].body_sent
      /\ HeaderAfter(reqst[Mine].header) \in {"none", "made", "empty"}
      /\ Current.d = DyskOf[Mine]
  BY <1>1, SendsBytesFacts DEF SendFails
<1>3. Holder[Mine] = reqst[Mine].c
  BY <1>1, <1>2, MineHolds DEF Sending
<1> DEFINE x == [reqst[Mine] EXCEPT !.c = None, !.header = HeaderAfter(reqst[Mine].header)]
<1>4. x \in SendState /\ x.c = None /\ ~x.body_sent /\ QueueSendAgain(Mine, x, mem) /\ resst' = resst
  BY <1>2 DEF SendState, SendFails
<1> HIDE DEF x
<1>5. Holder' = [Holder EXCEPT ![Mine] = None]
  BY <1>1, <1>2, <1>4, AgainHolder
<1> DEFINE H == [Holder EXCEPT ![Mine] = c]
           k == SockAfter(DyskOf[Mine], Holder[Mine], c)
           n == CountAfter(DyskOf[Mine], Holder[Mine], c)
<1>6. /\ fifo' = FifoAfter(DyskOf[Mine], Holder[Mine])
      /\ Takes(DyskOf[Mine], Holder[Mine], c)
      /\ count' = [n EXCEPT ![DyskOf[Mine]] = (@ + UIntModulus - 1) % UIntModulus]
  BY <1>2, <1>3 DEF SendFails, Drop
<1>7. /\ ConnTypes(H, fifo', k, wire) /\ OnePlace(H, fifo', k)
  BY <1>1, <1>2, <1>6, TakesConn DEF ConnOn
<1>8. Counts(H, fifo', n)
  BY <1>2, <1>6, TakesCount
<1>9. n \in [Dysks -> 0..(UIntModulus - 1)]
  BY <1>1, <1>2, TakesTypes, AzParametersAssumption DEF AzInv
<1>10. H[Mine] = c /\ [H EXCEPT ![Mine] = None] = Holder'
  BY <1>1, <1>2, <1>5, HolderTypes DEF ConnTypes
<1> HIDE DEF H, k, n
<1>11. Counts([H EXCEPT ![Mine] = None], fifo',
              [n EXCEPT ![DyskOf[Mine]] = (@ + UIntModulus - 1) % UIntModulus])
  BY <1>2, <1>7, <1>8, <1>9, <1>10, CountLess
<1> QED BY <1>6, <1>10, <1>11 DEF CountInv

\* The whole message was handed over; the connection stays with the request.
LEMMA SendAllCount ==
  ASSUME AzConnInv, CountInv, NEW c \in Conns, NEW mem \in BOOLEAN, SendAll(c, mem)
  PROVE  CountInv'
<1>1. AzInv
  BY DEF AzConnInv
<1>2. /\ Sending /\ Mine \in Reqs /\ reqst[Mine] \in SendState
      /\ HeaderAfter(reqst[Mine].header) \in {"none", "made", "empty"}
      /\ Current.d = DyskOf[Mine]
  BY <1>1, SendsBytesFacts DEF SendAll
<1>3. Holder[Mine] = reqst[Mine].c /\ None \notin Conns
  BY <1>1, <1>2, MineHolds DEF Sending
<1> DEFINE x == [reqst[Mine] EXCEPT !.c = c, !.header = HeaderAfter(reqst[Mine].header),
                                    !.header_sent = TRUE, !.body_sent = TRUE]
<1>4. x \in SendState /\ x.c = c /\ x.body_sent /\ QueueReceive(Mine, x, mem)
  BY <1>2 DEF SendState, SendAll
<1> HIDE DEF x
<1>5. Holder' = [Holder EXCEPT ![Mine] = c]
  BY <1>1, <1>2, <1>3, <1>4, ReceiveHolder
<1>6. /\ fifo' = FifoAfter(DyskOf[Mine], Holder[Mine])
      /\ count' = CountAfter(DyskOf[Mine], Holder[Mine], c)
      /\ Takes(DyskOf[Mine], Holder[Mine], c)
  BY <1>2, <1>3 DEF SendAll
<1> QED BY <1>2, <1>5, <1>6, TakesCount DEF CountInv

\* Every call of the send function that does not fail to connect keeps the
\* counters (__send_az_req 833-1084).
LEMMA SendCount ==
  ASSUME AzConnInv, CountInv, NEW mem \in BOOLEAN,
         \/ SendNoMemory \/ SendNoConnection(mem)
         \/ \E c \in Conns :
              \/ SendBlocked(c, "retry_now") \/ SendBlocked(c, "retry_later")
              \/ SendFails(c, mem) \/ SendAll(c, mem)
         \/ SendMessageSent(mem) \/ SendTryNew(mem)
  PROVE  CountInv'
<1>1. AzInv
  BY DEF AzConnInv
<1>2. reqst \in [Reqs -> SendState] /\ None \notin Conns
  BY <1>1, AzParametersAssumption DEF AzInv, RequestsInv, ReqTypes
<1>3. CASE SendNoMemory \/ SendNoConnection(mem)
  <2>1. PICK h \in {"none", "made", "empty"} :
          /\ SendsBytes /\ reqst' = [reqst EXCEPT ![Mine].header = h]
          /\ resst' = resst /\ UNCHANGED poolVars
    BY <1>1, <1>3, SendsBytesFacts DEF SendNoMemory, SendNoConnection
  <2>2. Sending /\ Mine \in Reqs /\ reqst[Mine] \in SendState
    BY <1>1, <2>1, SendsBytesFacts
  <2> DEFINE x == [reqst[Mine] EXCEPT !.header = h]
  <2>3. x \in SendState /\ x.c = reqst[Mine].c
    BY <2>2 DEF SendState
  <2>4. reqst' = [reqst EXCEPT ![Mine] = x]
    BY <2>1
  <2> HIDE DEF x
  <2> QED BY <2>1, <2>2, <2>3, <2>4, SendKeepsCount
<1>4. CASE SendMessageSent(mem)
  <2>1. /\ Sending /\ QueueReceive(Mine, reqst[Mine], mem)
        /\ reqst[Mine].body_sent /\ UNCHANGED poolVars
    BY <1>4 DEF SendMessageSent, SendFresh, SendsBytes
  <2>2. /\ Mine \in Reqs /\ reqst[Mine] \in SendState /\ reqst[Mine].c # None
        /\ Holder[Mine] = reqst[Mine].c
    BY <1>1, <1>2, <2>1, MineHolds DEF AzInv, RequestsInv, StatesInv, Sending
  <2>3. Holder' = [Holder EXCEPT ![Mine] = reqst[Mine].c]
    BY <1>1, <2>1, <2>2, ReceiveHolder
  <2>4. Holder' = Holder
    BY <1>1, <2>2, <2>3, HolderTypes DEF ConnTypes
  <2> QED BY <2>1, <2>4, CountSame DEF poolVars
<1>5. CASE SendTryNew(mem)
  <2>1. /\ Sending /\ QueueSendAgain(Mine, reqst[Mine], mem) /\ resst' = resst
        /\ reqst[Mine].try_new_request /\ UNCHANGED poolVars
    BY <1>5 DEF SendTryNew
  <2>2. /\ Mine \in Reqs /\ reqst[Mine] \in SendState /\ reqst[Mine].c = None
        /\ ~reqst[Mine].body_sent /\ Holder[Mine] = reqst[Mine].c
    BY <1>1, <1>2, <2>1, MineHolds DEF AzInv, RequestsInv, StatesInv, Sending
  <2>3. Holder' = [Holder EXCEPT ![Mine] = None]
    BY <1>1, <2>1, <2>2, AgainHolder
  <2>4. Holder' = Holder
    BY <1>1, <2>2, <2>3, HolderTypes DEF ConnTypes
  <2> QED BY <2>1, <2>4, CountSame DEF poolVars
<1> QED BY <1>3, <1>4, <1>5, SendBlockedCount, SendFailsCount, SendAllCount

\* The clean-up of a receive task gives the connection back, where there is
\* room for it (az.c 544-586).
LEMMA CleanRecvCount ==
  ASSUME AzConnInv, CountInv, wpc \notin {"pass", "stopped"}, NEW x \in RecvState,
         CleanRecv(Mine, x), x.c = Holder[Mine], count' = count
  PROVE  CountInv'
<1>1. /\ ConnTypes(Holder, fifo, sock, wire) /\ OnePlace(Holder, fifo, sock)
      /\ Counts(Holder, fifo, count) /\ AzInv
  BY HolderTypes DEF AzConnInv, ConnInv, ConnOn, CountInv
<1>2. Mine \in Reqs /\ Current.d = DyskOf[Mine]
  BY <1>1, MineHolds
<1>3. Holder' = [Holder EXCEPT ![Mine] = None]
  BY <1>1, <1>2, BlankHolder DEF CleanRecv
<1>4. PutOk(DyskOf[Mine], x.c) /\ x.c \in Conns \cup {None}
  BY <1>2 DEF CleanRecv, RecvState
<1>5. Counts([Holder EXCEPT ![Mine] = None], fifo', count)
  BY <1>1, <1>2, <1>4, PutsCount
<1> QED BY <1>3, <1>5 DEF CountInv

\* sock_recvmsg() failed or the server closed: the connection is torn down.
LEMMA RecvClosedCount ==
  ASSUME AzConnInv, CountInv, NEW mem \in BOOLEAN, RecvClosed(mem)
  PROVE  CountInv'
<1> DEFINE c == resst[Mine].c
           x == [c |-> None, try_new_request |-> TRUE]
<1>1. /\ ConnTypes(Holder, fifo, sock, wire) /\ OnePlace(Holder, fifo, sock)
      /\ count \in [Dysks -> 0..(UIntModulus - 1)] /\ Counts(Holder, fifo, count) /\ AzInv
  BY HolderTypes DEF AzConnInv, AzInv, PoolTypes, ConnInv, ConnOn, CountInv
<1>2. /\ RecvFresh /\ RecvQueueSend(x, mem)
      /\ count' = [count EXCEPT ![Current.d] = (@ + UIntModulus - 1) % UIntModulus]
  BY DEF RecvClosed, Drop
<1>3. Receiving /\ Mine \in Reqs /\ c \in Conns /\ c # None /\ Current.d = DyskOf[Mine]
  BY <1>1, <1>2, RecvFreshFacts, AzParametersAssumption
<1>4. Holder[Mine] = c
  BY <1>3, MineOwed
<1>5. x \in RecvState /\ x.c = None
  BY DEF RecvState
<1> HIDE DEF x, c
<1>6. Holder' = [Holder EXCEPT ![Mine] = None] /\ fifo' = fifo
  <2>1. CASE mem
    <3>1. CleanRecv(Mine, x)
      BY <1>2, <2>1 DEF RecvQueueSend
    <3>2. reqst' = [reqst EXCEPT ![Mine] = BlankSend] /\ resst' = [resst EXCEPT ![Mine] = BlankRecv]
      BY <3>1 DEF CleanRecv
    <3>3. fifo' = fifo
      BY <1>5, <3>1 DEF CleanRecv, PutOk
    <3> QED BY <1>1, <1>3, <3>2, <3>3, BlankHolder
  <2>2. CASE ~mem
    <3>1. resst' = [resst EXCEPT ![Mine] = x] /\ reqst' = reqst /\ fifo' = fifo
      BY <1>2, <2>2 DEF RecvQueueSend
    <3> QED BY <1>1, <1>3, <1>5, <3>1, RecvHolder
  <2> QED BY <2>1, <2>2
<1>7. Counts([Holder EXCEPT ![Mine] = None], fifo,
             [count EXCEPT ![DyskOf[Mine]] = (@ + UIntModulus - 1) % UIntModulus])
  BY <1>1, <1>3, <1>4, CountLess
<1> QED BY <1>2, <1>3, <1>6, <1>7 DEF CountInv

\* Neither task of the request changes connections.
LEMMA RecvKeepsCount ==
  ASSUME AzConnInv, CountInv, Receiving, NEW y \in RecvState, y.c = resst[Mine].c,
         resst' = [resst EXCEPT ![Mine] = y], UNCHANGED <<reqst, fifo, count>>
  PROVE  CountInv'
<1>1. AzInv
  BY DEF AzConnInv
<1>2. Mine \in Reqs /\ Holder[Mine] = resst[Mine].c
  BY <1>1, MineHolds DEF Receiving
<1>3. Holder' = [Holder EXCEPT ![Mine] = y.c]
  BY <1>1, RecvHolder
<1>4. Holder' = Holder
  BY <1>1, <1>2, <1>3, HolderTypes DEF ConnTypes
<1> QED BY <1>4, CountSame

\* Nothing of the requests' states and of the pools changes.
LEMMA UnchangedCount ==
  ASSUME CountInv, UNCHANGED <<reqst, resst, fifo, count>>
  PROVE  CountInv'
<1>1. Holder' = Holder
  BY DEF Holder
<1> QED BY <1>1, CountSame

\* Every call of the receive function keeps the counters
\* (__receive_az_response 590-769).
LEMMA RecvCount ==
  ASSUME AzConnInv, CountInv, NEW mem \in BOOLEAN,
         \/ RecvNoMemory \/ RecvWait \/ RecvClosed(mem) \/ RecvDone \/ RecvThrottled
         \/ RecvThrottledNoMemory \/ RecvCatastrophe \/ RecvTryNew(mem)
  PROVE  CountInv'
<1> DEFINE again == [resst[Mine] EXCEPT !.try_new_request = TRUE]
<1>1. AzInv
  BY DEF AzConnInv
<1>2. ASSUME Receiving
      PROVE  /\ wpc \notin {"pass", "stopped"} /\ Mine \in Reqs
             /\ resst[Mine] \in RecvState /\ resst[Mine].c = Holder[Mine]
             /\ again \in RecvState /\ again.c = resst[Mine].c
             /\ resst = [resst EXCEPT ![Mine] = resst[Mine]]
  <2>1. wpc \notin {"pass", "stopped"} /\ Current.fn = "recv"
    BY <1>2 DEF Receiving
  <2>2. Mine \in Reqs /\ resst[Mine].c = Holder[Mine] /\ resst \in [Reqs -> RecvState]
    BY <1>1, <2>1, MineHolds DEF AzInv, RequestsInv, ReqTypes
  <2> QED BY <2>1, <2>2 DEF RecvState
<1> HIDE DEF again
<1>3. CASE RecvNoMemory \/ RecvWait \/ RecvCatastrophe
  BY <1>3, UnchangedCount DEF RecvNoMemory, RecvWait, RecvCatastrophe, azVars, poolVars
<1>4. CASE RecvDone \/ RecvThrottled
  <2>1. PICK x \in {resst[Mine], again} : RecvFresh /\ CleanRecv(Mine, x) /\ count' = count
    BY <1>4 DEF RecvDone, RecvThrottled, ReadsAnswer, again
  <2>2. Receiving
    BY <2>1 DEF RecvFresh
  <2> QED BY <1>2, <2>1, <2>2, CleanRecvCount
<1>5. CASE RecvThrottledNoMemory
  <2>1. /\ RecvFresh /\ resst' = [resst EXCEPT ![Mine] = again]
        /\ UNCHANGED <<reqst, fifo, count>>
    BY <1>5 DEF RecvThrottledNoMemory, ReadsAnswer, RecvQueueSend, again
  <2>2. Receiving
    BY <2>1 DEF RecvFresh
  <2> QED BY <1>2, <2>1, <2>2, RecvKeepsCount
<1>6. CASE RecvTryNew(mem)
  <2>1. Receiving /\ RecvQueueSend(resst[Mine], mem) /\ count' = count
    BY <1>6 DEF RecvTryNew
  <2>2. CASE mem
    BY <1>2, <2>1, <2>2, CleanRecvCount DEF RecvQueueSend
  <2>3. CASE ~mem
    BY <1>2, <2>1, <2>3, RecvKeepsCount DEF RecvQueueSend
  <2> QED BY <2>2, <2>3
<1> QED BY <1>3, <1>4, <1>5, <1>6, RecvClosedCount

\* A task that leaves the list without having run, or run out of time, gives
\* back the connection of a receive task, and has none to forget.
LEMMA CleanCount ==
  ASSUME AzConnInv, CountInv, CancelTask \/ ExpireTask \/ FailTask, ~ForgetsConnection
  PROVE  CountInv'
<1>1. AzInv
  BY DEF AzConnInv
<1>2. wpc \notin {"pass", "stopped"} /\ Clean /\ count' = count
  BY DEF CancelTask, ExpireTask, FailTask, Cancel, Expire, CatastropheReturn, Clean
<1>3. Mine \in Reqs /\ reqst[Mine] \in SendState /\ resst[Mine] \in RecvState
  BY <1>1, <1>2, MineFacts
<1>4. CASE Current.fn = "recv"
  <2>1. CleanRecv(Mine, resst[Mine]) /\ resst[Mine].c = Holder[Mine]
    BY <1>1, <1>2, <1>4, MineHolds DEF Clean
  <2> QED BY <1>2, <1>3, <2>1, CleanRecvCount
<1>5. CASE Current.fn # "recv"
  <2>1. CleanSend(Mine, reqst[Mine]) /\ Current.fn = "send"
    BY <1>2, <1>5 DEF Clean
  <2>2. Holder[Mine] = None
    BY <1>1, <1>2, <2>1, MineHolds DEF ForgetsConnection
  <2>3. reqst[Mine].c = None
    BY <2>1 DEF ForgetsConnection
  <2>4. fifo' = fifo
    BY <2>1, <2>3 DEF CleanSend, PutOk
  <2>5. reqst' = [reqst EXCEPT ![Mine] = BlankSend] /\ resst' = [resst EXCEPT ![Mine] = BlankRecv]
    BY <1>1, <1>2, <2>1, MineHolds DEF CleanSend
  <2>6. Holder' = [Holder EXCEPT ![Mine] = None]
    BY <1>1, <1>3, <2>5, BlankHolder
  <2>7. Holder' = Holder
    BY <1>1, <1>3, <2>2, <2>6, HolderTypes DEF ConnTypes
  <2> QED BY <1>2, <2>4, <2>7, CountSame
<1> QED BY <1>4, <1>5

\* The block layer, the server, the network and the other threads leave the
\* pools and the states alone: a request that is submitted has a blank one.
LEMMA OtherCount ==
  ASSUME AzConnInv, CountInv,
         WorkerMoves \/ BlockLayer \/ Server \/ Network \/ Deleter \/ Clock
  PROVE  CountInv'
<1>1. CASE WorkerMoves \/ Deleter \/ Clock
  BY <1>1, UnchangedCount DEF WorkerMoves, Deleter, Clock, azVars, poolVars
<1>2. CASE Server \/ Network
  BY <1>2, UnchangedCount DEF Server, Network, ServerAnswers, ConnectionBreaks
<1>3. CASE BlockLayer
  <2>1. PICK r \in Reqs : IoRequest(r) \/ IoRequestReject(r) \/ az_do_request(r) \/ IoRequestStart(r)
    BY <1>3 DEF BlockLayer
  <2>2. CASE IoRequest(r) \/ IoRequestReject(r) \/ IoRequestStart(r)
    BY <2>2, UnchangedCount DEF IoRequest, IoRequestReject, IoRequestStart, poolVars
  <2>3. CASE az_do_request(r)
    <3>1. /\ bio[r] = "peeked" /\ reqst' = [reqst EXCEPT ![r] = BlankSend]
          /\ UNCHANGED <<resst, poolVars>>
      BY <2>3 DEF az_do_request
    <3>2. reqst[r] = BlankSend /\ reqst \in [Reqs -> SendState]
      BY <3>1 DEF AzConnInv, AzInv, RequestsInv, ReqTypes, StatesInv, BioInv
    <3>3. reqst' = reqst
      BY <3>1, <3>2
    <3> QED BY <3>1, <3>3, UnchangedCount DEF poolVars
  <2> QED BY <2>1, <2>2, <2>3
<1> QED BY <1>1, <1>2, <1>3

-----------------------------------------------------------------------------
(***************************************************************************)
(* What holds of the counters.                                             *)
(***************************************************************************)
\* Every step but those of LosesCount keeps the counters exact.
LEMMA CountStep ==
  ASSUME AzConnInv, CountInv, AzNext, ~LosesCount
  PROVE  CountInv'
<1>1. TRUE \in BOOLEAN /\ FALSE \in BOOLEAN
  OBVIOUS
<1>2. CASE AzWorker
  <2>1. CASE \/ SendNoConnection(TRUE)
             \/ \E c \in Conns : SendFails(c, TRUE) \/ SendAll(c, TRUE)
             \/ SendMessageSent(TRUE) \/ SendTryNew(TRUE)
    BY <1>1, <2>1, SendCount
  <2>2. CASE \/ RecvWait \/ RecvClosed(TRUE) \/ RecvDone \/ RecvThrottled \/ RecvCatastrophe
             \/ RecvTryNew(TRUE)
    BY <1>1, <2>2, RecvCount
  <2>3. CASE CancelTask \/ ExpireTask \/ FailTask
    BY <2>3, CleanCount DEF LosesCount
  <2> QED BY <1>2, <2>1, <2>2, <2>3, OtherCount DEF AzWorker
<1>3. CASE AzFaults
  <2>1. CASE \/ SendNoMemory \/ SendNoConnection(FALSE)
             \/ \E c \in Conns :
                  \/ SendBlocked(c, "retry_now") \/ SendBlocked(c, "retry_later")
                  \/ SendFails(c, FALSE) \/ SendAll(c, FALSE)
             \/ SendMessageSent(FALSE) \/ SendTryNew(FALSE)
    BY <1>1, <2>1, SendCount
  <2>2. CASE RecvNoMemory \/ RecvClosed(FALSE) \/ RecvThrottledNoMemory \/ RecvTryNew(FALSE)
    BY <1>1, <2>2, RecvCount
  <2> QED BY <1>3, <2>1, <2>2 DEF AzFaults, LosesCount
<1>4. CASE BlockLayer \/ Server \/ Network \/ Deleter \/ Clock
  BY <1>4, OtherCount
<1> QED BY <1>2, <1>3, <1>4 DEF AzNext

\* Before the first request no pool has a socket.
LEMMA InitCount ==
  ASSUME AzInit
  PROVE  CountInv
<1>1. Holder = [r \in Reqs |-> None] /\ fifo = [d \in Dysks |-> <<>>] /\ count = [d \in Dysks |-> 0]
  BY DEF AzInit, Holder, BlankSend, BlankRecv
<1>2. \A d \in Dysks : Len(fifo[d]) = 0 /\ count[d] = 0
  BY <1>1, EmptySeq
<1>3. \A d \in Dysks : UsedBy(d, Holder, fifo) = {}
  BY <1>1, <1>2, AzParametersAssumption DEF UsedBy
<1>4. IsFiniteSet({}) /\ Cardinality({}) = 0 /\ 0 <= MAX_CONNECTIONS
  BY FS_EmptySet, AzParametersAssumption
<1> QED BY ONLY <1>2, <1>3, <1>4 DEF CountInv, Counts

\* The connections the tasks of a dysk hold are those its requests hold: a
\* request without a task holds none.
LEMMA UsersAreUsed ==
  ASSUME AzConnInv, NEW d \in Dysks
  PROVE  Users(d) = UsedBy(d, Holder, fifo)
<1>1. AzInv /\ TasksInv /\ ListInv /\ StatesInv /\ None \notin Conns
  BY IInvParts, AzParametersAssumption DEF AzConnInv, AzInv, RequestsInv
<1>2. ASSUME NEW c \in Conns, NEW i \in HeldBy(c), queue[i].d = d
      PROVE  \E r \in Reqs : DyskOf[r] = d /\ Holder[r] = c
  <2>1. /\ i \in 1..Len(queue) /\ queue[i].state[2] \in Reqs
        /\ Holder[queue[i].state[2]] = c
    BY <1>1, HeldIsHolder
  <2>2. queue[i].d = DyskOf[queue[i].state[2]]
    BY <1>1, <2>1 DEF TasksInv, TaskOk
  <2> QED BY <1>2, <2>1, <2>2
<1>3. ASSUME NEW c \in Conns, NEW r \in Reqs, DyskOf[r] = d, Holder[r] = c
      PROVE  \E i \in HeldBy(c) : queue[i].d = d
  <2>1. CASE reqst[r].c # None
    <3>1. r \in Senders
      BY <1>1, <2>1 DEF StatesInv, BlankSend
    <3>2. PICK i \in 1..Len(queue) : queue[i].state = ReqObject(r)
      BY <3>1 DEF Senders
    <3>3. queue[i].fn = "send" /\ queue[i].d = d /\ queue[i].state[2] = r
      BY <1>1, <1>3, <3>2, ObjectsDiffer DEF TasksInv, TaskOk
    <3>4. reqst[r].c = c
      BY <1>3, <2>1 DEF Holder
    <3> QED BY <3>2, <3>3, <3>4 DEF HeldBy
  <2>2. CASE reqst[r].c = None
    <3>1. resst[r].c = c
      BY <1>3, <2>2 DEF Holder
    <3>2. r \in Receivers
      BY <1>1, <3>1 DEF StatesInv, BlankRecv
    <3>3. PICK i \in 1..Len(queue) : queue[i].state = ResObject(r)
      BY <3>2 DEF Receivers
    <3>4. queue[i].fn = "recv" /\ queue[i].d = d /\ queue[i].state[2] = r
      BY <1>1, <1>3, <3>3, ObjectsDiffer DEF TasksInv, TaskOk
    <3> QED BY <3>1, <3>3, <3>4 DEF HeldBy
  <2> QED BY <2>1, <2>2
<1>4. Users(d) \subseteq UsedBy(d, Holder, fifo) /\ UsedBy(d, Holder, fifo) \subseteq Users(d)
  BY <1>2, <1>3 DEF Users, UsedBy
<1> QED BY <1>4

\* What the counters are worth: exact means PoolCountExact.
LEMMA CountsUsers ==
  ASSUME AzConnInv, CountInv
  PROVE  PoolCountExact
  BY UsersAreUsed DEF PoolCountExact, CountInv, Counts

\* Whatever happens, only two steps make an exact counter wrong: the one that
\* leaves a socket in the request's state after connect() failed, and the
\* clean-up of a send task that holds a connection (connection_create 225-263,
\* __clean_send_az_req 772-827).
THEOREM OnlyTwoStepsLoseCount == AzSpec => [][CountInv /\ ~LosesCount => CountInv']_vars
<1>1. AzConnInv /\ [AzNext]_vars => [CountInv /\ ~LosesCount => CountInv']_vars
  BY CountStep
<1> QED BY <1>1, ConnInvariance, PTL DEF AzSpec

\* In a run without those two steps, the pool counts the sockets that are in
\* it or with a task of its dysk, no more and no fewer (connection_pool_get
\* 299-314, connection_pool_put 256-266).
THEOREM CountIsExact == SteadySpec => []PoolCountExact
<1>1. SteadySpec => AzSpec
  <2>1. [AzNext /\ ~LosesCount]_vars => [AzNext]_vars
    OBVIOUS
  <2> QED BY <2>1, PTL DEF SteadySpec, AzSpec
<1>2. SteadySpec => []AzConnInv
  BY <1>1, ConnInvariance, PTL
<1>3. AzInit => CountInv
  BY InitCount
<1>4. AzConnInv /\ CountInv /\ [AzNext /\ ~LosesCount]_vars => CountInv'
  <2>1. SUFFICES ASSUME AzConnInv, CountInv, [AzNext /\ ~LosesCount]_vars
                 PROVE  CountInv'
    OBVIOUS
  <2>2. CASE AzNext /\ ~LosesCount
    BY <2>1, <2>2, CountStep
  <2>3. CASE UNCHANGED vars
    BY <2>1, <2>3, UnchangedCount DEF vars, azVars, poolVars
  <2> QED BY <2>1, <2>2, <2>3
<1>5. AzConnInv /\ CountInv => PoolCountExact
  BY CountsUsers
<1> QED BY <1>2, <1>3, <1>4, <1>5, PTL DEF SteadySpec

-----------------------------------------------------------------------------
(***************************************************************************)
(* The good network of PromptSpec.  When the clock stops before the first  *)
(* deadline, no task is dropped, so that it takes only the steps of        *)
(* SteadySpec.                                                             *)
(***************************************************************************)
CodesInv == \A c \in Conns : \A i \in 1..Len(wire[c]) : wire[c][i].code # "fatal"

DeadlinesInv == \A i \in 1..Len(queue) : queue[i].expires_on >= Timeout

\* No dysk is marked, none can fail, no deadline has passed.
PromptInv ==
  /\ \A d \in Dysks : status[d] = "OK"
  /\ wpc # "catastrophe"
  /\ CodesInv
  /\ DeadlinesInv
  /\ jiffies <= Timeout

\* What the worker's list and the dysks are after a step that is no append.
Quiet ==
  /\ status' = status
  /\ wpc' # "catastrophe"
  /\ Len(queue') <= Len(queue)
  /\ jiffies' = jiffies

\* No task is dropped, no dysk fails.
LEMMA NoneIsDropped ==
  ASSUME AzInv, PromptInv
  PROVE  ~CancelTask /\ ~ExpireTask /\ ~FailTask /\ ~RecvCatastrophe
<1>1. ~CancelTask
  <2>1. SUFFICES ASSUME wpc = "visit", status[Current.d] # "OK" PROVE FALSE
    BY DEF CancelTask, Cancel
  <2>2. Current.d \in Dysks
    BY <2>1, MineFacts
  <2> QED BY <2>1, <2>2 DEF PromptInv
<1>2. ~ExpireTask
  <2>1. SUFFICES ASSUME wpc = "expiry", jiffies > Current.expires_on PROVE FALSE
    BY DEF ExpireTask, Expire, time_after
  <2>2. pos \in 1..Len(queue) /\ Current \in Task
    BY <2>1, IInvParts, CurrentIsTask DEF AzInv
  <2>3. Current.expires_on >= Timeout /\ Current.expires_on \in Nat
    BY <2>2 DEF PromptInv, DeadlinesInv, Current, Task
  <2>4. jiffies \in Nat /\ Timeout \in Nat
    BY ParametersAssumption DEF AzInv, IInv, TypeOK
  <2> QED BY <2>1, <2>3, <2>4 DEF PromptInv
<1>3. ~FailTask
  BY DEF FailTask, CatastropheReturn, PromptInv
<1>4. ~RecvCatastrophe
  <2>1. SUFFICES ASSUME RecvFresh, wire[resst[Mine].c] # <<>>,
                        Head(wire[resst[Mine].c]).code = "fatal"
                 PROVE  FALSE
    BY DEF RecvCatastrophe, ReadsAnswer, Answered
  <2>2. resst[Mine].c \in Conns /\ wire[resst[Mine].c] \in Seq(Message)
    BY <2>1, RecvFreshFacts
  <2> DEFINE c == resst[Mine].c
  <2> HIDE DEF c
  <2>3. 1 \in 1..Len(wire[c]) /\ Head(wire[c]) = wire[c][1]
    <3>1. Len(wire[c]) \in Nat /\ Len(wire[c]) # 0
      BY <2>1, <2>2, LenProperties, EmptySeq DEF c
    <3> QED BY <2>1, <2>2, <3>1, HeadTailProperties DEF c
  <2> QED BY <2>1, <2>2, <2>3 DEF PromptInv, CodesInv, c
<1> QED BY <1>1, <1>2, <1>3, <1>4

\* A task that stays, or is replaced by one at most.
LEMMA ExecIsQuiet ==
  ASSUME AzInv, wpc = "exec",
         \/ \E res \in Retries : ExecRetry(res)
         \/ ExecDone(<<>>)
         \/ ExecDone(<<SendKid>>) \/ ExecThrottle(<<SendKid>>)
         \/ Current.fn = "send" /\ ExecDone(<<RecvKid>>)
  PROVE  Quiet
<1>1. ListInv /\ TasksInv
  BY IInvParts DEF AzInv
<1>2. Len(queue) \in Nat
  BY <1>1, CurrentIsTask, LenProperties DEF ListInv
<1>3. CASE \E res \in Retries : ExecRetry(res)
  BY <1>2, <1>3 DEF ExecRetry, Quiet
<1>4. ASSUME NEW kids \in Seq(Task), Len(kids) \in {0, 1}, ExecDone(kids) \/ ExecThrottle(kids)
      PROVE  Quiet
  <2>1. Dequeue(queue \o kids) /\ status' = status /\ jiffies' = jiffies
    BY <1>4 DEF ExecDone, ExecThrottle
  <2>2. Len(queue') = Len(queue) + Len(kids) - 1
    BY <1>1, <2>1, DequeueIndexes
  <2>3. wpc' # "catastrophe"
    BY <2>1 DEF Dequeue, GoTo
  <2>4. \A n \in Nat, k \in {0, 1} : n + k - 1 <= n
    OBVIOUS
  <2>5. Len(queue') <= Len(queue)
    BY ONLY <1>2, <1>4, <2>2, <2>4
  <2> QED BY ONLY <2>1, <2>3, <2>5 DEF Quiet
<1>5. /\ <<>> \in Seq(Task) /\ Len(<<>>) = 0
      /\ <<SendKid>> \in Seq(Task) /\ Len(<<SendKid>>) = 1
      /\ Current.fn = "send" => <<RecvKid>> \in Seq(Task) /\ Len(<<RecvKid>>) = 1
  BY <1>1, KidsOfMine, EmptySeq
<1> QED BY <1>3, <1>4, <1>5

\* The calls of the two task functions, but for the one that fails the dysk.
LEMMA CallsAreQuiet ==
  ASSUME AzInv, NEW mem \in BOOLEAN,
         \/ SendNoMemory \/ SendNoConnection(mem)
         \/ \E c \in Conns :
              \/ SendBlocked(c, "retry_now") \/ SendBlocked(c, "retry_later")
              \/ SendFails(c, mem) \/ SendAll(c, mem)
         \/ SendMessageSent(mem) \/ SendTryNew(mem)
         \/ RecvNoMemory \/ RecvWait \/ RecvClosed(mem) \/ RecvDone \/ RecvThrottled
         \/ RecvThrottledNoMemory \/ RecvTryNew(mem)
  PROVE  Quiet
<1> DEFINE Retry == \E res \in Retries : ExecRetry(res)
<1>1. ASSUME NEW res \in {"retry_now", "retry_later"}, ExecRetry(res)
      PROVE  Retry
  BY <1>1 DEF Retries
<1> HIDE DEF Retry
<1>2. CASE \/ SendNoMemory \/ SendNoConnection(mem)
           \/ \E c \in Conns : SendBlocked(c, "retry_now") \/ SendBlocked(c, "retry_later")
           \/ RecvNoMemory \/ RecvWait \/ RecvThrottledNoMemory
  <2>1. Retry
    BY <1>1, <1>2 DEF SendNoMemory, SendNoConnection, SendBlocked, RecvNoMemory, RecvWait,
                      RecvThrottledNoMemory, RecvQueueSend
  <2>2. wpc = "exec"
    BY <2>1 DEF Retry, ExecRetry
  <2> QED BY <2>1, <2>2, ExecIsQuiet DEF Retry
<1>3. CASE (\E c \in Conns : SendFails(c, mem)) \/ SendTryNew(mem)
  <2>1. wpc = "exec" /\ (Retry \/ ExecDone(<<SendKid>>))
    BY <1>1, <1>3 DEF SendFails, SendTryNew, SendsBytes, SendFresh, Sending, QueueSendAgain, SendKid
  <2> QED BY <2>1, ExecIsQuiet DEF Retry
<1>4. CASE (\E c \in Conns : SendAll(c, mem)) \/ SendMessageSent(mem)
  <2>1. wpc = "exec" /\ Current.fn = "send" /\ (Retry \/ ExecDone(<<RecvKid>>))
    BY <1>1, <1>4 DEF SendAll, SendMessageSent, SendsBytes, SendFresh, Sending, QueueReceive, RecvKid
  <2> QED BY <2>1, ExecIsQuiet DEF Retry
<1>5. CASE RecvClosed(mem) \/ RecvTryNew(mem)
  <2>1. wpc = "exec" /\ (Retry \/ ExecDone(<<SendKid>>))
    BY <1>1, <1>5 DEF RecvClosed, RecvTryNew, RecvFresh, Receiving, RecvQueueSend, SendKid
  <2> QED BY <2>1, ExecIsQuiet DEF Retry
<1>6. CASE RecvDone \/ RecvThrottled
  <2>1. wpc = "exec" /\ (ExecDone(<<>>) \/ ExecThrottle(<<SendKid>>))
    BY <1>6 DEF RecvDone, RecvThrottled, ReadsAnswer, RecvFresh, Receiving, SendKid
  <2> QED BY <2>1, ExecIsQuiet
<1> QED BY <1>2, <1>3, <1>4, <1>5, <1>6

\* The rest of what the worker does while no task is dropped.
LEMMA MovesAreQuiet ==
  ASSUME AzInv, WorkerMoves, wpc # "catastrophe"
  PROVE  Quiet
<1>1. ListInv /\ Len(queue) \in Nat
  BY IInvParts, LenProperties DEF AzInv, ListInv
<1> QED BY <1>1 DEF WorkerMoves, BeginPass, Yield, SkipThrottled, StartExec, Stay, Keep, GoTo,
                    workerVars, walk, Quiet

\* The responses one connection owes change.
LEMMA CodesAt ==
  ASSUME AzInv, CodesInv, NEW c \in Conns, NEW s \in Seq(Message),
         wire' = [wire EXCEPT ![c] = s],
         \A i \in 1..Len(s) : s[i].code # "fatal"
  PROVE  CodesInv'
<1>1. wire'[c] = s /\ \A b \in Conns : b # c => wire'[b] = wire[b]
  BY DEF AzInv, PoolTypes
<1> QED BY <1>1 DEF CodesInv

\* What is handed over, read or torn down leaves no response that fails a dysk.
LEMMA CallsKeepCodes ==
  ASSUME AzInv, CodesInv, NEW mem \in BOOLEAN,
         \/ SendNoMemory \/ SendNoConnection(mem)
         \/ \E c \in Conns :
              \/ SendBlocked(c, "retry_now") \/ SendBlocked(c, "retry_later")
              \/ SendFails(c, mem) \/ SendAll(c, mem)
         \/ SendMessageSent(mem) \/ SendTryNew(mem)
         \/ RecvNoMemory \/ RecvWait \/ RecvClosed(mem) \/ RecvDone \/ RecvThrottled
         \/ RecvThrottledNoMemory \/ RecvTryNew(mem)
  PROVE  CodesInv'
<1>1. wire \in [Conns -> Seq(Message)]
  BY DEF AzInv, PoolTypes
<1>2. ASSUME wire' = wire
      PROVE  CodesInv'
  BY <1>2 DEF CodesInv
<1>3. ASSUME NEW c \in Conns, wire' = [wire EXCEPT ![c] = <<>>]
      PROVE  CodesInv'
  <2>1. <<>> \in Seq(Message) /\ \A i \in 1..Len(<<>>) : <<>>[i].code # "fatal"
    BY EmptySeq
  <2> QED BY <1>3, <2>1, CodesAt
<1>4. CASE \/ SendNoMemory \/ SendNoConnection(mem)
           \/ \E c \in Conns : SendBlocked(c, "retry_now") \/ SendBlocked(c, "retry_later")
           \/ SendMessageSent(mem) \/ SendTryNew(mem)
           \/ RecvNoMemory \/ RecvWait \/ RecvTryNew(mem)
  BY <1>2, <1>4 DEF SendNoMemory, SendNoConnection, SendBlocked, SendMessageSent, SendTryNew,
                    RecvNoMemory, RecvWait, RecvTryNew, azVars, poolVars
<1>5. CASE (\E c \in Conns : SendFails(c, mem)) \/ RecvClosed(mem)
  <2>1. CASE \E c \in Conns : SendFails(c, mem)
    BY <1>3, <2>1 DEF SendFails, Drop
  <2>2. CASE RecvClosed(mem)
    <3>1. resst[Mine].c \in Conns
      BY <2>2, RecvFreshFacts DEF RecvClosed
    <3> QED BY <1>3, <2>2, <3>1 DEF RecvClosed, Drop
  <2> QED BY <1>5, <2>1, <2>2
<1>6. CASE \E c \in Conns : SendAll(c, mem)
  <2>1. PICK c \in Conns : SendAll(c, mem)
    BY <1>6
  <2>2. Mine \in Reqs
    BY <2>1, SendsBytesFacts DEF SendAll
  <2>3. \/ wire' = wire
        \/ \E b \in BOOLEAN : wire' = [wire EXCEPT ![c] =
             Append(@, [req |-> Mine, whole |-> b, code |-> "none"])]
    BY <2>1 DEF SendAll
  <2>4. ASSUME NEW b \in BOOLEAN,
               wire' = [wire EXCEPT ![c] = Append(@, [req |-> Mine, whole |-> b, code |-> "none"])]
        PROVE  CodesInv'
    <3> DEFINE m == [req |-> Mine, whole |-> b, code |-> "none"]
               s == Append(wire[c], m)
    <3>1. m \in Message /\ m.code = "none" /\ wire[c] \in Seq(Message)
      BY <1>1, <2>2 DEF Message
    <3>2. wire' = [wire EXCEPT ![c] = s]
      BY <2>4
    <3> HIDE DEF m
    <3>3. /\ s \in Seq(Message) /\ Len(s) = Len(wire[c]) + 1 /\ Len(wire[c]) \in Nat
          /\ \A i \in 1..Len(wire[c]) : s[i] = wire[c][i]
          /\ s[Len(wire[c]) + 1] = m
      BY <3>1, AppendProperties, LenProperties
    <3> HIDE DEF s
    <3>4. \A i \in 1..Len(s) : s[i].code # "fatal"
      <4>1. \A i \in 1..Len(s) : i \in 1..Len(wire[c]) \/ i = Len(wire[c]) + 1
        BY <3>3
      <4> QED BY <3>1, <3>3, <4>1 DEF CodesInv
    <3> QED BY <3>2, <3>3, <3>4, CodesAt
  <2> QED BY <1>2, <2>3, <2>4
<1>7. CASE RecvDone \/ RecvThrottled \/ RecvThrottledNoMemory
  <2> DEFINE c == resst[Mine].c
             s == Tail(wire[c])
  <2>1. RecvFresh /\ wire[c] # <<>> /\ wire' = [wire EXCEPT ![c] = s]
    BY <1>7 DEF RecvDone, RecvThrottled, RecvThrottledNoMemory, ReadsAnswer, Answered
  <2>2. c \in Conns /\ wire[c] \in Seq(Message)
    BY <2>1, RecvFreshFacts
  <2>3. /\ s \in Seq(Message) /\ Len(s) = Len(wire[c]) - 1 /\ Len(wire[c]) \in Nat
        /\ \A i \in 1..(Len(wire[c]) - 1) : s[i] = wire[c][i + 1]
    BY <2>1, <2>2, HeadTailProperties, LenProperties
  <2> HIDE DEF c, s
  <2>4. \A i \in 1..Len(s) : s[i].code # "fatal"
    <3>1. \A i \in 1..Len(s) : i + 1 \in 1..Len(wire[c]) /\ s[i] = wire[c][i + 1]
      BY <2>3
    <3> QED BY <2>2, <3>1 DEF CodesInv
  <2> QED BY <2>1, <2>2, <2>3, <2>4, CodesAt
<1> QED BY <1>4, <1>5, <1>6, <1>7

\* A server that answers, or asks for time.
LEMMA ServerKeepsCodes ==
  ASSUME AzInv, CodesInv, NEW c \in Conns, NEW code \in {"ok", "throttle"}, ServerAnswers(c, code)
  PROVE  CodesInv'
<1> DEFINE i == CHOOSE k \in Unanswered(c) : \A j \in Unanswered(c) : k <= j
           s == [wire[c] EXCEPT ![i].code = code]
<1>1. /\ Unanswered(c) # {} /\ wire' = [wire EXCEPT ![c][i].code = code]
      /\ wire \in [Conns -> Seq(Message)] /\ wire[c] \in Seq(Message)
  BY DEF ServerAnswers, AzInv, PoolTypes
<1> HIDE DEF i
<1>2. wire' = [wire EXCEPT ![c] = s]
  BY <1>1
<1>3. Len(s) = Len(wire[c]) /\ s \in Seq(Message)
  <2>1. \A k \in 1..Len(wire[c]) : wire[c][k] \in Message
    BY <1>1, ElementOfSeq
  <2>2. Len(wire[c]) \in Nat /\ DOMAIN wire[c] = 1..Len(wire[c])
    BY <1>1, LenProperties
  <2>3. \A k \in 1..Len(wire[c]) : [wire[c][k] EXCEPT !.code = code] \in Message
    BY <2>1 DEF Message
  <2>4. s \in [1..Len(wire[c]) -> Message]
    BY <2>1, <2>2, <2>3
  <2> HIDE DEF s
  <2> QED BY <2>2, <2>4, IsASeq, LenProperties
<1>4. \A k \in 1..Len(s) : s[k].code # "fatal"
  <2>1. \A k \in 1..Len(wire[c]) : s[k] = IF k = i THEN [wire[c][k] EXCEPT !.code = code] ELSE wire[c][k]
    BY <1>1
  <2>2. \A k \in 1..Len(wire[c]) : wire[c][k] \in Message /\ wire[c][k].code # "fatal"
    BY <1>1, ElementOfSeq DEF CodesInv
  <2>3. \A m \in Message : [m EXCEPT !.code = code].code = code
    BY DEF Message
  <2> HIDE DEF s
  <2> QED BY <1>3, <2>1, <2>2, <2>3
<1> HIDE DEF s
<1> QED BY <1>2, <1>3, <1>4, CodesAt

\* Of a step that is no append, only the responses are left to see.
LEMMA QuietKeepsPrompt ==
  ASSUME AzInv, PromptInv, AzNext, Quiet, CodesInv'
  PROVE  PromptInv'
<1>1. IInv /\ [Next]_workerVars
  BY AzStepOk DEF StepOk, AzInv
<1>2. DeadlinesInv'
  <2>1. Deadlines(queue') \subseteq Deadlines(queue)
    <3>1. CASE Next
      BY <1>1, <3>1, StepKeepsDeadlines DEF Quiet
    <3>2. CASE UNCHANGED workerVars
      BY <3>2 DEF workerVars
    <3> QED BY <1>1, <3>1, <3>2
  <2>2. \A e \in Deadlines(queue) : e >= Timeout
    BY DEF PromptInv, DeadlinesInv, Deadlines
  <2>3. \A i \in 1..Len(queue') : queue'[i].expires_on \in Deadlines(queue')
    BY DEF Deadlines
  <2> QED BY <2>1, <2>2, <2>3 DEF DeadlinesInv
<1> QED BY <1>2 DEF PromptInv, Quiet

\* The steps of the block layer: one of them appends a task, with a deadline
\* of its own (az_do_request 1100).
LEMMA BlockLayerKeepsPrompt ==
  ASSUME AzInv, PromptInv, BlockLayer
  PROVE  PromptInv'
<1>1. PICK r \in Reqs : IoRequest(r) \/ IoRequestReject(r) \/ az_do_request(r) \/ IoRequestStart(r)
  BY DEF BlockLayer
<1>2. CASE IoRequest(r) \/ IoRequestReject(r) \/ IoRequestStart(r)
  BY <1>2 DEF IoRequest, IoRequestReject, IoRequestStart, workerVars, walk, poolVars, PromptInv,
              CodesInv, DeadlinesInv
<1>3. CASE az_do_request(r)
  <2> DEFINE t == NewTask("send", ReqObject(r), DyskOf[r], "normal")
  <2>1. /\ queue' = Append(queue, t)
        /\ UNCHANGED <<walk, status, throttle_until, jiffies, poolVars>>
    BY <1>3 DEF az_do_request, queue_w_task
  <2>2. jiffies \in Nat /\ Timeout \in Nat /\ queue \in Seq(Task) /\ Len(queue) \in Nat
    BY IInvParts, LenProperties, ParametersAssumption DEF AzInv, IInv, TypeOK, ListInv
  <2>3. t.expires_on >= Timeout
    BY <2>2 DEF NewTask
  <2> HIDE DEF t
  <2>4. /\ Len(queue') = Len(queue) + 1
        /\ \A i \in 1..Len(queue) : queue'[i] = queue[i]
        /\ queue'[Len(queue) + 1] = t
    BY <2>1, <2>2, AppendProperties
  <2>5. \A i \in 1..Len(queue') : i \in 1..Len(queue) \/ i = Len(queue) + 1
    BY <2>2, <2>4
  <2>6. DeadlinesInv'
    BY <2>3, <2>4, <2>5 DEF PromptInv, DeadlinesInv
  <2> QED BY <2>1, <2>6 DEF PromptInv, CodesInv, walk, poolVars
<1> QED BY <1>1, <1>2, <1>3

\* The calls of the two task functions in a good network.
LEMMA PromptCallKept ==
  ASSUME AzConnInv, CountInv, PromptInv, AzNext, NEW mem \in BOOLEAN,
         \/ SendNoMemory \/ SendNoConnection(mem)
         \/ \E c \in Conns :
              \/ SendBlocked(c, "retry_now") \/ SendBlocked(c, "retry_later")
              \/ SendFails(c, mem) \/ SendAll(c, mem)
         \/ SendMessageSent(mem) \/ SendTryNew(mem)
         \/ RecvNoMemory \/ RecvWait \/ RecvClosed(mem) \/ RecvDone \/ RecvThrottled
         \/ RecvThrottledNoMemory \/ RecvTryNew(mem)
  PROVE  CountInv' /\ PromptInv'
<1>1. AzInv /\ CodesInv
  BY DEF AzConnInv, PromptInv
<1>2. Quiet
  BY <1>1, CallsAreQuiet
<1>3. CodesInv'
  BY <1>1, CallsKeepCodes
<1>4. CountInv'
  BY SendCount, RecvCount
<1> QED BY <1>1, <1>2, <1>3, <1>4, QuietKeepsPrompt

\* The server, the network and the clock in a good network.
LEMMA PromptOtherKept ==
  ASSUME MaxJiffies <= Timeout, AzConnInv, CountInv, PromptInv, AzNext,
         \/ WorkerMoves \/ BlockLayer \/ Network \/ Clock
         \/ \E c \in Conns, code \in {"ok", "throttle"} : ServerAnswers(c, code)
  PROVE  CountInv' /\ PromptInv'
<1>1. AzInv /\ CodesInv
  BY DEF AzConnInv, PromptInv
<1>2. CountInv'
  BY OtherCount DEF Server
<1>3. CASE WorkerMoves
  <2>1. Quiet
    BY <1>1, <1>3, MovesAreQuiet DEF PromptInv
  <2>2. CodesInv'
    BY <1>1, <1>3 DEF WorkerMoves, azVars, poolVars, CodesInv
  <2> QED BY <1>1, <1>2, <2>1, <2>2, QuietKeepsPrompt
<1>4. CASE BlockLayer
  BY <1>1, <1>2, <1>4, BlockLayerKeepsPrompt
<1>5. CASE Network
  BY <1>2, <1>5 DEF Network, ConnectionBreaks, workerVars, walk, PromptInv, CodesInv, DeadlinesInv
<1>6. CASE Clock
  <2>1. jiffies < MaxJiffies /\ jiffies' = jiffies + 1
        /\ UNCHANGED <<queue, walk, status, throttle_until, azVars>>
    BY <1>6 DEF Clock, Tick
  <2>2. jiffies \in Nat /\ MaxJiffies \in Nat /\ Timeout \in Nat
    BY <1>1, ParametersAssumption DEF AzInv, IInv, TypeOK
  <2>3. jiffies' <= Timeout
    BY <2>1, <2>2
  <2> QED BY <1>2, <2>1, <2>3 DEF azVars, poolVars, walk, PromptInv, CodesInv, DeadlinesInv
<1>7. CASE \E c \in Conns, code \in {"ok", "throttle"} : ServerAnswers(c, code)
  <2>1. PICK c \in Conns, code \in {"ok", "throttle"} : ServerAnswers(c, code)
    BY <1>7
  <2>2. CodesInv'
    BY <1>1, <2>1, ServerKeepsCodes
  <2>3. UNCHANGED workerVars
    BY <2>1 DEF ServerAnswers
  <2> QED BY <1>2, <2>2, <2>3 DEF workerVars, walk, PromptInv, DeadlinesInv
<1> QED BY <1>3, <1>4, <1>5, <1>6, <1>7

\* Every step in a good network is one the transfer library may take.
LEMMA PromptIsAz ==
  ASSUME PromptNext
  PROVE  AzNext
<1>1. CASE PromptStep
  BY <1>1 DEF PromptStep, ThrottleClock, Server, AzNext
<1>2. CASE BoundedFault
  BY <1>2 DEF BoundedFault, Recovered, Server, AzFaults, AzNext
<1> QED BY <1>1, <1>2 DEF PromptNext

\* In a good network every step keeps the counters.
LEMMA PromptStepKept ==
  ASSUME MaxJiffies <= Timeout, AzConnInv, CountInv, PromptInv, PromptNext
  PROVE  CountInv' /\ PromptInv'
<1>1. AzInv /\ AzNext
  BY PromptIsAz DEF AzConnInv
<1>2. TRUE \in BOOLEAN /\ FALSE \in BOOLEAN
  OBVIOUS
<1>3. ~CancelTask /\ ~ExpireTask /\ ~FailTask /\ ~RecvCatastrophe
  BY <1>1, NoneIsDropped
<1>4. CASE AzWorker
  <2>1. CASE WorkerMoves
    BY <1>1, <2>1, PromptOtherKept
  <2>2. CASE \/ SendNoConnection(TRUE)
             \/ \E c \in Conns : SendFails(c, TRUE) \/ SendAll(c, TRUE)
             \/ SendMessageSent(TRUE) \/ SendTryNew(TRUE)
             \/ RecvWait \/ RecvClosed(TRUE) \/ RecvDone \/ RecvThrottled \/ RecvTryNew(TRUE)
    BY <1>1, <1>2, <2>2, PromptCallKept
  <2> QED BY <1>3, <1>4, <2>1, <2>2 DEF AzWorker
<1>5. CASE Recovered
  <2>1. \/ SendNoMemory \/ SendNoConnection(FALSE)
        \/ \E c \in Conns :
             \/ SendBlocked(c, "retry_now") \/ SendBlocked(c, "retry_later")
             \/ SendFails(c, FALSE) \/ SendAll(c, FALSE)
        \/ SendMessageSent(FALSE) \/ SendTryNew(FALSE)
        \/ RecvNoMemory \/ RecvClosed(FALSE) \/ RecvThrottledNoMemory \/ RecvTryNew(FALSE)
    BY <1>5 DEF Recovered
  <2> QED BY <1>1, <1>2, <2>1, PromptCallKept
<1>6. CASE \/ BlockLayer \/ Network \/ ThrottleClock
           \/ \E c \in Conns : ServerAnswers(c, "ok") \/ ServerAnswers(c, "throttle")
  <2>1. \/ BlockLayer \/ Network \/ Clock
        \/ \E c \in Conns, code \in {"ok", "throttle"} : ServerAnswers(c, code)
    BY <1>6 DEF ThrottleClock
  <2> QED BY <1>1, <2>1, PromptOtherKept
<1> QED BY <1>4, <1>5, <1>6 DEF PromptNext, PromptStep, BoundedFault

\* Before the first request nothing is late.
LEMMA PromptInit ==
  ASSUME FairInit
  PROVE  PromptInv
<1>1. /\ status = [d \in Dysks |-> "OK"] /\ wpc = "pass" /\ queue = <<>> /\ jiffies = 1
      /\ wire = [c \in Conns |-> <<>>]
  BY DEF FairInit, AzInit, Init
<1>2. Len(queue) = 0 /\ (\A c \in Conns : Len(wire[c]) = 0) /\ Timeout \in Nat \ {0}
  BY <1>1, EmptySeq, ParametersAssumption
<1> QED BY <1>1, <1>2 DEF PromptInv, CodesInv, DeadlinesInv

\* What holds in a good network before the first deadline.
LEMMA PromptInvariance ==
  ASSUME MaxJiffies <= Timeout
  PROVE  PromptSpec => [](AzConnInv /\ CountInv /\ PromptInv)
<1>1. FairInit => AzInit
  BY DEF FairInit
<1>2. [PromptNext]_fairVars => [AzNext]_vars
  <2>1. UNCHANGED fairVars => UNCHANGED vars
    BY DEF fairVars
  <2> QED BY <2>1, PromptIsAz
<1>3. FairInit => CountInv /\ PromptInv
  BY <1>1, InitCount, PromptInit
<1>4. AzConnInv /\ CountInv /\ PromptInv /\ [PromptNext]_fairVars => CountInv' /\ PromptInv'
  <2>1. SUFFICES ASSUME AzConnInv, CountInv, PromptInv, [PromptNext]_fairVars
                 PROVE  CountInv' /\ PromptInv'
    OBVIOUS
  <2>2. CASE PromptNext
    BY <2>1, <2>2, PromptStepKept
  <2>3. CASE UNCHANGED fairVars
    <3>1. UNCHANGED vars
      BY <2>3 DEF fairVars
    <3>2. CountInv'
      BY <2>1, <3>1, UnchangedCount DEF vars, azVars, poolVars
    <3>3. PromptInv'
      BY <2>1, <3>1 DEF vars, azVars, poolVars, workerVars, walk, PromptInv, CodesInv, DeadlinesInv
    <3> QED BY <3>2, <3>3
  <2> QED BY <2>1, <2>2, <2>3
<1> QED BY <1>1, <1>2, <1>3, <1>4, ConnInvariance, PTL DEF PromptSpec, AzSpec

\* In a good network, where the clock stops before the first deadline, no
\* connection is forgotten and no connect fails: the pool counts its sockets
\* (connection_pool_get 299-314, connection_pool_put 256-266).
THEOREM PromptCountIsExact ==
  ASSUME MaxJiffies <= Timeout
  PROVE  PromptSpec => []PoolCountExact
<1>1. AzConnInv /\ CountInv => PoolCountExact
  BY CountsUsers
<1> QED BY <1>1, PromptInvariance, PTL

-----------------------------------------------------------------------------
(***************************************************************************)
(* The device the block layer sees in that network.                        *)
(***************************************************************************)
\* Every request that was ended without an error has an answer.
NoneOwed == \A r \in Reqs : result[r] = "OK" => got[r] # None

\* A write to a read-only dysk is refused under the queue's lock, and where
\* locks spin io_request() waits for itself: nothing is refused there.
NoSelfDeadlock == ~SMP \/ RefusedWrites = {}

DeviceStep == NoneOwed' /\ (Device!Next \/ UNCHANGED Device!vars)

\* The block layer knows of a request from its place alone.
LEMMA PlaceOfRequest ==
  ASSUME NEW r \in Reqs
  PROVE  /\ Place[r] = "idle" <=> bio[r] = "new"
         /\ Place[r] = "ended" <=> bio[r] = "ended"
         /\ Place[r] = "pending" <=> bio[r] \notin {"new", "ended"}
  BY DEF Place

\* A request moves on.
LEMMA PlaceMoves ==
  ASSUME ReqTypes, NEW r \in Reqs, NEW b, bio' = [bio EXCEPT ![r] = b]
  PROVE  /\ b = "ended" => Place' = [Place EXCEPT ![r] = "ended"]
         /\ b \notin {"new", "ended"} => Place' = [Place EXCEPT ![r] = "pending"]
<1>1. bio'[r] = b /\ \A q \in Reqs : q # r => bio'[q] = bio[q]
  BY DEF ReqTypes
<1> QED BY <1>1 DEF Place

\* A step that ends no request and takes none.
LEMMA NothingSeen ==
  ASSUME NoneOwed, UNCHANGED <<bio, result, got>>
  PROVE  DeviceStep
<1>1. Place' = Place
  BY DEF Place
<1>2. NoneOwed'
  BY DEF NoneOwed
<1> QED BY <1>1, <1>2 DEF DeviceStep, Device!vars

\* A request is carried on, by its task or by another one, and not ended
\* (__clean_receive_az_response 544-558).
LEMMA CarriedOn ==
  ASSUME AzInv, NoneOwed, NEW mem \in BOOLEAN,
         \/ SendNoMemory \/ SendNoConnection(mem)
         \/ \E c \in Conns :
              \/ SendBlocked(c, "retry_now") \/ SendBlocked(c, "retry_later")
              \/ SendFails(c, mem) \/ SendAll(c, mem)
         \/ SendMessageSent(mem) \/ SendTryNew(mem)
         \/ RecvNoMemory \/ RecvWait \/ RecvClosed(mem) \/ RecvThrottled
         \/ RecvThrottledNoMemory \/ RecvTryNew(mem)
  PROVE  DeviceStep
<1>1. CASE \/ SendNoMemory \/ SendNoConnection(mem)
           \/ \E c \in Conns :
                \/ SendBlocked(c, "retry_now") \/ SendBlocked(c, "retry_later")
                \/ SendFails(c, mem) \/ SendAll(c, mem)
           \/ SendMessageSent(mem) \/ SendTryNew(mem)
           \/ RecvNoMemory \/ RecvWait
  <2>1. UNCHANGED <<bio, result, got>>
    BY <1>1 DEF SendNoMemory, SendNoConnection, SendBlocked, SendFails, SendAll, SendMessageSent,
                SendTryNew, RecvNoMemory, RecvWait, azVars, reqVars
  <2> QED BY <2>1, NothingSeen
<1>2. ASSUME NEW x, x.try_new_request, RecvQueueSend(x, mem)
      PROVE  UNCHANGED <<bio, result>>
  BY <1>2 DEF RecvQueueSend, CleanRecv
<1>3. CASE RecvClosed(mem) \/ RecvTryNew(mem)
  <2>1. got' = got
    BY <1>3 DEF RecvClosed, RecvTryNew
  <2>2. CASE RecvClosed(mem)
    BY <1>2, <2>1, <2>2, NothingSeen DEF RecvClosed
  <2>3. CASE RecvTryNew(mem)
    BY <1>2, <2>1, <2>3, NothingSeen DEF RecvTryNew
  <2> QED BY <1>3, <2>2, <2>3
<1>4. CASE RecvThrottled \/ RecvThrottledNoMemory
  <2> DEFINE x == [resst[Mine] EXCEPT !.try_new_request = TRUE]
  <2>1. RecvFresh /\ got' = got
    BY <1>4 DEF RecvThrottled, RecvThrottledNoMemory, ReadsAnswer
  <2>2. x.try_new_request
    <3>1. resst[Mine] \in RecvState
      BY <2>1, RecvFreshFacts
    <3> QED BY <3>1 DEF RecvState
  <2>3. CleanRecv(Mine, x) \/ UNCHANGED <<bio, result>>
    BY <1>4 DEF RecvThrottled, RecvThrottledNoMemory, RecvQueueSend
  <2> HIDE DEF x
  <2>4. UNCHANGED <<bio, result>>
    BY <2>2, <2>3 DEF CleanRecv
  <2> QED BY <2>1, <2>4, NothingSeen
<1> QED BY <1>1, <1>3, <1>4

\* The answer that is read is the request's own: everybody else took theirs
\* (__receive_az_response 710-751).
LEMMA EndedWithOwn ==
  ASSUME AzConnInv, AnswersMatch', NoneOwed, RecvDone
  PROVE  DeviceStep
<1> DEFINE m == Head(wire[resst[Mine].c]).req
<1>1. AzInv /\ ReqTypes /\ RecvFresh
  BY DEF AzConnInv, AzInv, RequestsInv, RecvDone, ReadsAnswer
<1>2. /\ Receiving /\ Mine \in Reqs /\ ~resst[Mine].try_new_request
      /\ resst[Mine].c \in Conns /\ wire[resst[Mine].c] \in Seq(Message)
  BY <1>1, RecvFreshFacts
<1>3. bio[Mine] \in {"queued", "started"} /\ DyskOf[Mine] \in Dysks
  BY <1>1, <1>2, MineFacts DEF Receiving
<1>4. /\ bio' = [bio EXCEPT ![Mine] = "ended"]
      /\ result' = [result EXCEPT ![Mine] = "OK"]
      /\ got' = [got EXCEPT ![Mine] = m]
  BY <1>2 DEF RecvDone, CleanRecv, io_end_request
<1>5. m \in Reqs /\ m # None
  <2>1. wire[resst[Mine].c] # <<>>
    BY DEF RecvDone, ReadsAnswer, Answered
  <2>2. Head(wire[resst[Mine].c]) \in Message
    BY <1>2, <2>1, HeadTailProperties
  <2> QED BY <2>2, AzParametersAssumption DEF Message
<1> HIDE DEF m
<1>6. NoneOwed'
  BY <1>1, <1>2, <1>4, <1>5 DEF NoneOwed, ReqTypes
<1>7. m = Mine
  <2>1. got'[Mine] = m
    BY <1>1, <1>2, <1>4 DEF ReqTypes
  <2>2. \A r \in Reqs : ~OwedOn(DyskOf[r])'
    BY <1>6 DEF OwedOn, NoneOwed
  <2>3. \A r \in Reqs : got'[r] \in {None, r}
    BY <2>2 DEF AnswersMatch
  <2> QED BY <1>2, <1>5, <2>1, <2>3
<1>8. Place[Mine] = "pending" /\ Place' = [Place EXCEPT ![Mine] = "ended"]
  BY <1>1, <1>2, <1>3, <1>4, PlaceOfRequest, PlaceMoves
<1>9. Device!Complete(Mine)
  BY <1>4, <1>7, <1>8 DEF Device!Complete
<1> QED BY <1>2, <1>6, <1>9 DEF DeviceStep, Device!Next

\* A request is taken, refused, or moves behind the block layer's back
\* (io_request 802-840).
LEMMA BlockLayerSeen ==
  ASSUME NoSelfDeadlock, AzInv, PromptInv, NoneOwed, BlockLayer
  PROVE  DeviceStep
<1>1. ReqTypes /\ \A r \in Reqs : status[DyskOf[r]] = "OK"
  BY AzParametersAssumption DEF AzInv, RequestsInv, PromptInv
<1>2. PICK r \in Reqs : IoRequest(r) \/ IoRequestReject(r) \/ az_do_request(r) \/ IoRequestStart(r)
  BY DEF BlockLayer
<1>3. CASE IoRequest(r)
  <2>1. /\ bio[r] = "new" /\ bio' = [bio EXCEPT ![r] = "peeked"] /\ UNCHANGED <<result, got>>
        /\ r \notin RefusedWrites
    BY <1>3 DEF IoRequest, RefusedWrites
  <2>2. Place[r] = "idle"
    BY <2>1, PlaceOfRequest
  <2>3. Place' = [Place EXCEPT ![r] = "pending"]
    <3>1. ASSUME NEW b, bio' = [bio EXCEPT ![r] = b], b \notin {"new", "ended"}
          PROVE  Place' = [Place EXCEPT ![r] = "pending"]
      BY <1>1, <3>1, PlaceMoves
    <3>2. "peeked" \notin {"new", "ended"}
      OBVIOUS
    <3> QED BY ONLY <2>1, <3>1, <3>2
  <2>4. Device!Submit(r)
    BY <2>1, <2>2, <2>3 DEF Device!Submit
  <2>5. NoneOwed'
    BY <2>1 DEF NoneOwed
  <2> QED BY <2>4, <2>5 DEF DeviceStep, Device!Next
<1>4. CASE IoRequestReject(r)
  <2>1. r \in RefusedWrites
    BY <1>1, <1>4 DEF IoRequestReject, RefusedWrites
  <2>2. ~SMP
    BY <2>1 DEF NoSelfDeadlock
  <2>3. /\ bio[r] = "new" /\ bio' = [bio EXCEPT ![r] = "ended"]
        /\ result' = [result EXCEPT ![r] = "EROFS"] /\ got' = got
    BY <1>1, <1>4, <2>2 DEF IoRequestReject, io_end_request
  <2>4. Place[r] = "idle" /\ Place' = [Place EXCEPT ![r] = "ended"]
    BY <1>1, <2>3, PlaceOfRequest, PlaceMoves
  <2>5. Device!Refuse(r)
    BY <2>1, <2>3, <2>4 DEF Device!Refuse
  <2>6. NoneOwed'
    BY <1>1, <2>3 DEF NoneOwed, ReqTypes
  <2> QED BY <2>5, <2>6 DEF DeviceStep, Device!Next
<1>5. CASE az_do_request(r) \/ IoRequestStart(r)
  <2>1. /\ bio[r] \in {"peeked", "queued"} /\ UNCHANGED <<result, got>>
        /\ bio' = [bio EXCEPT ![r] = "queued"] \/ bio' = [bio EXCEPT ![r] = "started"]
    BY <1>5 DEF az_do_request, IoRequestStart
  <2>2. Place[r] = "pending" /\ Place' = [Place EXCEPT ![r] = "pending"]
    BY <1>1, <2>1, PlaceOfRequest, PlaceMoves
  <2>3. Place' = Place
    BY <2>2 DEF Place
  <2>4. NoneOwed'
    BY <2>1 DEF NoneOwed
  <2> QED BY <2>1, <2>3, <2>4 DEF DeviceStep, Device!vars
<1> QED BY <1>2, <1>3, <1>4, <1>5

\* Every step of a good network is a step of the device, or unseen.
LEMMA PromptIsDeviceStep ==
  ASSUME NoSelfDeadlock, AzConnInv, AnswersMatch', PromptInv, NoneOwed, PromptNext
  PROVE  DeviceStep
<1>1. AzInv /\ TRUE \in BOOLEAN /\ FALSE \in BOOLEAN
  BY DEF AzConnInv
<1>2. ~CancelTask /\ ~ExpireTask /\ ~FailTask /\ ~RecvCatastrophe
  BY <1>1, NoneIsDropped
<1>3. CASE AzWorker
  <2>1. CASE WorkerMoves
    <3>1. UNCHANGED <<bio, result, got>>
      BY <2>1 DEF WorkerMoves, azVars, reqVars
    <3> QED BY <3>1, NothingSeen
  <2>2. CASE RecvDone
    BY <2>2, EndedWithOwn
  <2>3. CASE \/ SendNoConnection(TRUE)
             \/ \E c \in Conns : SendFails(c, TRUE) \/ SendAll(c, TRUE)
             \/ SendMessageSent(TRUE) \/ SendTryNew(TRUE)
             \/ RecvWait \/ RecvClosed(TRUE) \/ RecvThrottled \/ RecvTryNew(TRUE)
    BY <1>1, <2>3, CarriedOn
  <2> QED BY <1>2, <1>3, <2>1, <2>2, <2>3 DEF AzWorker
<1>4. CASE Recovered
  <2>1. \/ SendNoMemory \/ SendNoConnection(FALSE)
        \/ \E c \in Conns :
             \/ SendBlocked(c, "retry_now") \/ SendBlocked(c, "retry_later")
             \/ SendFails(c, FALSE) \/ SendAll(c, FALSE)
        \/ SendMessageSent(FALSE) \/ SendTryNew(FALSE)
        \/ RecvNoMemory \/ RecvClosed(FALSE) \/ RecvThrottledNoMemory \/ RecvTryNew(FALSE)
    BY <1>4 DEF Recovered
  <2> QED BY <1>1, <2>1, CarriedOn
<1>5. CASE BlockLayer
  BY <1>1, <1>5, BlockLayerSeen
<1>6. CASE \/ Network \/ ThrottleClock
           \/ \E c \in Conns : ServerAnswers(c, "ok") \/ ServerAnswers(c, "throttle")
  <2>1. UNCHANGED <<bio, result, got>>
    BY <1>6 DEF Network, ConnectionBreaks, ThrottleClock, Clock, ServerAnswers, azVars, reqVars
  <2> QED BY <2>1, NothingSeen
<1> QED BY <1>3, <1>4, <1>5, <1>6 DEF PromptNext, PromptStep, BoundedFault

\* The safety part of ImplementsBlockDevice.  The block layer sees a device:
\* whatever was retried, throttled, queued again or moved to another
\* connection, a request is ended once, with the answer to itself, and a write
\* to a read-only dysk is refused (send 833-1084, receive 590-769,
\* io_request 802-840).
THEOREM PromptImplementsDevice ==
  ASSUME MaxJiffies <= Timeout, NoSelfDeadlock
  PROVE  PromptSpec => Device!Init /\ [][Device!Next]_(Device!vars)
<1>1. FairInit => Device!Init /\ NoneOwed
  BY DEF FairInit, AzInit, Device!Init, Place, NoneOwed
<1>2. ASSUME AzConnInv, AzConnInv', PromptInv, NoneOwed, [PromptNext]_fairVars
      PROVE  DeviceStep
  <2>1. AnswersMatch'
    BY <1>2 DEF AzConnInv
  <2>2. CASE PromptNext
    BY <1>2, <2>1, <2>2, PromptIsDeviceStep
  <2>3. CASE UNCHANGED fairVars
    <3>1. UNCHANGED <<bio, result, got>>
      BY <2>3 DEF fairVars, vars, azVars, reqVars
    <3> QED BY <1>2, <3>1, NothingSeen
  <2> QED BY <1>2, <2>2, <2>3
<1>3. AzConnInv /\ AzConnInv' /\ PromptInv /\ NoneOwed /\ [PromptNext]_fairVars
        => NoneOwed' /\ [Device!Next]_(Device!vars)
  BY <1>2 DEF DeviceStep
<1> QED BY <1>1, <1>3, PromptInvariance, PTL DEF PromptSpec
=============================================================================
