-------------------------- MODULE ConnectionsProofs --------------------------
(* Proofs about the connection to the store system that hold for every value   *)
(* of the constants.                                                           *)
EXTENDS Connections, FiniteSetTheorems, WellFoundedInduction, TLAPS

-----------------------------------------------------------------------------
(* Counting, here and in the proofs about members.                           *)

\* Of two subsets of a finite set, the second may have one more or one less.
LEMMA OneMoreOrLess ==
  ASSUME NEW A, IsFiniteSet(A), NEW S, S \subseteq A, NEW T, T \subseteq A, NEW x
  PROVE  /\ IsFiniteSet(S) /\ IsFiniteSet(T)
         /\ Cardinality(A) \in Nat /\ Cardinality(S) \in Nat /\ Cardinality(T) \in Nat
         /\ Cardinality(T) <= Cardinality(A)
         /\ T \subseteq S => Cardinality(T) <= Cardinality(S)
         /\ T \subseteq S \union {x} => Cardinality(T) <= Cardinality(S) + 1
         /\ x \in S /\ T \subseteq S \ {x} => Cardinality(T) <= Cardinality(S) - 1
<1>1. IsFiniteSet(S) /\ IsFiniteSet(T) /\ Cardinality(T) <= Cardinality(A)
  BY FS_Subset
<1>2. Cardinality(A) \in Nat /\ Cardinality(S) \in Nat /\ Cardinality(T) \in Nat
  BY <1>1, FS_CardinalityType
<1>3. ASSUME T \subseteq S PROVE Cardinality(T) <= Cardinality(S)
  BY <1>1, <1>3, FS_Subset
<1>4. ASSUME T \subseteq S \union {x} PROVE Cardinality(T) <= Cardinality(S) + 1
  <2>1. /\ IsFiniteSet(S \union {x})
        /\ Cardinality(S \union {x}) = IF x \in S THEN Cardinality(S) ELSE Cardinality(S) + 1
    BY <1>1, FS_AddElement
  <2>2. Cardinality(T) <= Cardinality(S \union {x})
    BY <1>4, <2>1, FS_Subset
  <2>3. QED BY <1>2, <2>1, <2>2
<1>5. ASSUME x \in S, T \subseteq S \ {x} PROVE Cardinality(T) <= Cardinality(S) - 1
  <2>1. IsFiniteSet(S \ {x}) /\ Cardinality(S \ {x}) = Cardinality(S) - 1
    BY <1>1, <1>5, FS_RemoveElement
  <2>2. Cardinality(T) <= Cardinality(S \ {x})
    BY <1>5, <2>1, FS_Subset
  <2>3. QED BY <2>1, <2>2
<1>6. QED BY <1>1, <1>2, <1>3, <1>4, <1>5
-----------------------------------------------------------------------------
(* Connections: rows, requests, settings pages.                              *)

CoRow == [state : {"none", "live", "gone"}, banned : BOOLEAN, ok : BOOLEAN, secret : Nat, previous : Nat,
          window : BOOLEAN, despite : SUBSET Conns]
CoShop == [secret : Nat, checks : BOOLEAN]
CoAsk == [do : {"nothing", "create", "test", "rotate", "disconnect"}, pc : AskSteps, row : 0..MaxConns,
          sends : SUBSET Nat, ok : BOOLEAN, calm : BOOLEAN, despite : SUBSET Conns]
CoView == [loaded : BOOLEAN, row : 0..MaxConns, ok : BOOLEAN, banned : BOOLEAN, secret : Nat]

ConnTyped == conn \in [Conns -> CoRow]
ShopTyped == shop \in [Conns -> CoShop]
AskTyped == ask \in [CoTabs -> CoAsk]
ViewTyped == settings \in [CoTabs -> CoView]
RestTyped ==
  /\ planMax \in Nat /\ panel \in {"hidden", "shown", "found", "refused"}
  /\ unproved \subseteq Conns /\ crossed \subseteq Conns /\ crowded \in BOOLEAN /\ upset \subseteq CoTabs
  /\ coLeft \in [CoEvents -> Nat]

\* Rows are created in order, by requests that began under no suspension; a row that no two
\* rotations crossed keeps the secret before the present one.
RowsKept ==
  \A c \in Conns :
    /\ conn[c].state = "none" => ~conn[c].banned /\ ~conn[c].ok /\ ~conn[c].window /\ shop[c].secret = 0
    /\ conn[c].state # "none" => conn[c].secret > 0 /\ \A d \in Conns : d < c => conn[d].state # "none"
    /\ conn[c].despite = {}
    /\ conn[c].window /\ c \notin crossed => conn[c].previous = conn[c].secret - 1
    /\ conn[c].previous <= conn[c].secret /\ shop[c].secret <= conn[c].secret

\* What a request knows of the row it has read.
AskKept(x) ==
  /\ x.row # 0 => conn[x.row].state # "none"
  /\ x.despite \subseteq Banned
  /\ x.pc # "" => x.do # "nothing"
  /\ x.do = "create" /\ x.pc \in {"count", "insert"} => x.despite = {}
  /\ x.do = "create" /\ x.pc = "done" => x.row # 0
  /\ x.do \in {"test", "rotate", "disconnect"} /\ x.pc \in {"health", "probe", "write", "done"} => x.row # 0
  /\ x.do = "rotate" /\ x.pc \in {"write", "done"} => \E s \in 1..conn[x.row].secret : x.sends = {s}
  /\ x.do = "test" /\ x.pc \in {"health", "probe"} /\ x.calm => x.sends = Sends(conn[x.row])
  /\ x.do = "test" /\ x.pc = "probe" /\ x.calm => Accepts(x.row, x.sends)
AsksKept == \A t \in CoTabs : AskKept(ask[t])

\* Creations that were alone.
CrowdKept ==
  ~crowded =>
    /\ Cardinality(Living) <= planMax
    /\ \A t \in CoTabs : AskAt(t, "create", "insert") => Cardinality(Living) < planMax
    /\ \A t, u \in CoTabs : ask[t].do = "create" /\ ask[u].do = "create" => t = u

\* A connection whose last proof still stands is sound as soon as a row or a test vouches for it.
Sound(c) == shop[c].checks /\ shop[c].secret \in Sends(conn[c])
Vouches(x, c) == x.do = "test" /\ x.row = c /\ (~x.calm \/ (x.pc = "write" /\ x.ok))
ProofKept ==
  \A c \in Conns \ unproved : conn[c].ok \/ (\E t \in CoTabs : Vouches(ask[t], c)) => Sound(c)

\* What a page shows, and will show when the answer to its request lands.
Shows(v) == v.row = Newest /\ (Newest # 0 => v.ok = conn[Newest].ok /\ v.banned = conn[Newest].banned)
TabKept(v, x) ==
  /\ x.pc \notin {"done", "failed"} /\ v.loaded => Shows(v)
  /\ x.pc \in {"health", "probe", "write"} /\ x.do # "create" =>
       x.row = Newest /\ (x.do = "rotate" => x.ok = conn[Newest].ok)
  /\ x.pc = "done" =>
       /\ x.do = "create" => x.row = Newest /\ ~conn[Newest].ok /\ ~conn[Newest].banned
       /\ x.do = "rotate" => x.row = Newest /\ x.ok = conn[Newest].ok /\ v.banned = conn[Newest].banned
       /\ x.do = "test" => x.row = Newest /\ v.row = Newest /\ x.ok = conn[Newest].ok /\ v.banned = conn[Newest].banned
       /\ x.do = "disconnect" => Newest = 0
TabsKept == \A t \in CoTabs \ upset : TabKept(settings[t], ask[t])
ViewsKept ==
  \A t \in CoTabs :
    /\ ask[t].pc # "" => settings[t].loaded
    /\ settings[t].secret # 0 =>
         settings[t].row # 0 /\ conn[settings[t].row].state # "none" /\ settings[t].secret <= conn[settings[t].row].secret

CoTyped == ConnTyped /\ ShopTyped /\ AskTyped /\ ViewTyped /\ RestTyped
CoInv == CoTyped /\ RowsKept /\ AsksKept /\ CrowdKept /\ ProofKept /\ TabsKept /\ ViewsKept


-----------------------------------------------------------------------------

\* A set of numbers that ends somewhere has a greatest one.
LEMMA MaxIs ==
  ASSUME NEW N \in Nat, NEW T, T \subseteq 1..N, T # {}
  PROVE  Max(T) \in T /\ \A x \in T : x <= Max(T)
<1> DEFINE Above(x) == {y \in T : y > x}
           F == {Above(x) : x \in T}
<1>1. IsFiniteSet(1..N)
  BY FS_Interval
<1>2. \A x \in T : Above(x) \in FiniteSubsetsOf(1..N) /\ Above(x) \in SUBSET (1..N)
  BY <1>1, FS_Subset DEF FiniteSubsetsOf
<1>3. F \subseteq FiniteSubsetsOf(1..N) /\ F # {}
  BY <1>2
<1>4. IsWellFoundedOn(StrictSubsetOrdering(1..N), FiniteSubsetsOf(1..N))
  BY FS_StrictSubsetOrderingWellFounded
<1> HIDE DEF F, Above
<1>5. PICK U \in F : \A V \in F : ~(<<V, U>> \in StrictSubsetOrdering(1..N))
  BY <1>3, <1>4, WFMin
<1>6. PICK x \in T : U = Above(x)
  BY <1>5 DEF F
<1>7. \A y \in T : y <= x
  <2> SUFFICES ASSUME NEW y \in T, ~(y <= x) PROVE FALSE
    OBVIOUS
  <2>1. Above(y) \in F /\ Above(y) \in SUBSET (1..N) /\ Above(x) \in SUBSET (1..N)
    BY <1>2 DEF F
  <2>2. Above(y) \subseteq Above(x) /\ y \in Above(x) /\ y \notin Above(y)
    <3>1. x \in Nat /\ y \in Nat /\ \A z \in T : z \in Nat
      BY <1>6
    <3>2. y > x /\ ~(y > y)
      BY <3>1
    <3>3. \A z \in T : z > y => z > x
      BY <3>1, <3>2
    <3>4. QED BY <3>2, <3>3 DEF Above
  <2>3. <<Above(y), Above(x)>> \in StrictSubsetOrdering(1..N)
    BY <2>1, <2>2 DEF StrictSubsetOrdering
  <2>4. QED BY <1>5, <1>6, <2>1, <2>3
<1>8. \E z \in T : \A y \in T : z >= y
  BY <1>7
<1>9. Max(T) \in T /\ \A y \in T : Max(T) >= y
  BY <1>8 DEF Max
<1>10. QED BY <1>9

LEMMA MaxOfOne == ASSUME NEW s \in Nat PROVE Max({s}) = s
  BY DEF Max

\* The newest connection is the last of the living.
LEMMA NewestIs ==
  /\ Newest \in 0..MaxConns
  /\ Newest = 0 <=> Living = {}
  /\ Living # {} => Newest \in Living /\ \A c \in Living : c <= Newest
<1>1. Living \subseteq 1..MaxConns /\ MaxConns \in Nat
  BY ConnectionsAssumption DEF Living, Conns
<1>2. CASE Living = {}
  BY <1>1, <1>2 DEF Newest
<1>3. CASE Living # {}
  <2>1. Newest = Max(Living)
    BY <1>3 DEF Newest
  <2>2. Max(Living) \in Living /\ \A c \in Living : c <= Max(Living)
    BY <1>1, <1>3, MaxIs
  <2>3. \A c \in 1..MaxConns : c \in 0..MaxConns /\ c # 0
    BY <1>1
  <2>4. QED BY <1>1, <1>3, <2>1, <2>2, <2>3
<1>4. QED BY <1>2, <1>3

LEMMA NewestIsNext ==
  /\ Newest' \in 0..MaxConns
  /\ Newest' = 0 <=> Living' = {}
  /\ Living' # {} => Newest' \in Living' /\ \A c \in Living' : c <= Newest'
<1>1. Living' \subseteq 1..MaxConns /\ MaxConns \in Nat
  BY ConnectionsAssumption DEF Living, Conns
<1>2. CASE Living' = {}
  BY <1>1, <1>2 DEF Newest
<1>3. CASE Living' # {}
  <2>1. Newest' = Max(Living')
    BY <1>3 DEF Newest
  <2>2. Max(Living') \in Living' /\ \A c \in Living' : c <= Max(Living')
    BY <1>1, <1>3, MaxIs
  <2>3. \A c \in 1..MaxConns : c \in 0..MaxConns /\ c # 0
    BY <1>1
  <2>4. QED BY <1>1, <1>3, <2>1, <2>2, <2>3
<1>4. QED BY <1>2, <1>3

LEMMA NewestStays == ASSUME Living' = Living PROVE Newest' = Newest
  BY DEF Newest

LEMMA ConnsAre ==
  /\ Conns \subseteq Nat /\ 0 \notin Conns /\ MaxConns \in Nat /\ 0..MaxConns = Conns \union {0} /\ IsFiniteSet(Conns)
<1>1. IsFiniteSet(1..MaxConns)
  BY ConnectionsAssumption, FS_Interval
<1>2. QED BY <1>1, ConnectionsAssumption DEF Conns

LEMMA LivingCounts ==
  ASSUME NEW S, S \subseteq Conns, NEW T, T \subseteq Conns, NEW x
  PROVE  /\ Cardinality(S) \in Nat /\ Cardinality(T) \in Nat
         /\ T \subseteq S => Cardinality(T) <= Cardinality(S)
         /\ T \subseteq S \union {x} => Cardinality(T) <= Cardinality(S) + 1
<1>1. IsFiniteSet(Conns)
  BY ConnsAre
<1>2. QED BY <1>1, OneMoreOrLess

LEMMA CoUsesType == ASSUME CoInv, NEW e \in CoEvents, CoUses(e) PROVE coLeft' \in [CoEvents -> Nat]
  BY DEF CoInv, CoTyped, RestTyped, CoUses

LEMMA NoAskIs == NoAsk \in CoAsk /\ NoAsk.do = "nothing" /\ NoAsk.pc = "" /\ NoAsk.row = 0 /\ NoAsk.despite = {}
           /\ ~NoAsk.ok /\ ~NoAsk.calm
  BY ConnsAre DEF NoAsk, CoAsk, AskSteps

\* A request goes on.
LEMMA AskStep ==
  ASSUME NEW x \in CoAsk, NEW step \in AskSteps
  PROVE  \E new \in CoAsk :
           /\ new = [x EXCEPT !.pc = step] /\ new.pc = step /\ new.do = x.do /\ new.row = x.row /\ new.sends = x.sends
           /\ new.ok = x.ok /\ new.calm = x.calm /\ new.despite = x.despite
<1> DEFINE y == [x EXCEPT !.pc = step]
<1>1. /\ y \in CoAsk /\ y.pc = step /\ y.do = x.do /\ y.row = x.row /\ y.sends = x.sends
      /\ y.ok = x.ok /\ y.calm = x.calm /\ y.despite = x.despite
  BY DEF CoAsk
<1> HIDE DEF y
<1>2. \E new \in CoAsk :
           /\ new = y /\ new.pc = step /\ new.do = x.do /\ new.row = x.row /\ new.sends = x.sends
           /\ new.ok = x.ok /\ new.calm = x.calm /\ new.despite = x.despite
  BY <1>1
<1>3. QED BY <1>2 DEF y

\* What stays true of a request while rows and store systems stay as they are.
LEMMA AskStays ==
  ASSUME UNCHANGED <<conn, shop>>, NEW x, AskKept(x) PROVE AskKept(x)'
  BY DEF AskKept, Banned, Sends, Accepts


\* One request moves, and rows and store systems stay as they are.
LEMMA AskMoves ==
  ASSUME CoInv, NEW t \in CoTabs, NEW new \in CoAsk, ask' = [ask EXCEPT ![t] = new]
  PROVE  AskTyped' /\ ask'[t] = new /\ \A u \in CoTabs \ {t} : ask'[u] = ask[u]
  BY DEF CoInv, CoTyped, AskTyped

LEMMA OneAskMoves ==
  ASSUME CoInv, NEW t \in CoTabs, NEW new \in CoAsk, ask' = [ask EXCEPT ![t] = new],
         UNCHANGED <<planMax, conn, shop, settings, panel, crossed>>, coLeft' \in [CoEvents -> Nat],
         upset \subseteq upset', upset' \subseteq CoTabs, unproved' \subseteq Conns, crowded' \in BOOLEAN,
         AskKept(new), settings[t].loaded, CrowdKept', ProofKept',
         t \in upset' \/ TabKept(settings[t], new)
  PROVE  CoInv'
<1>1. AskTyped' /\ ask'[t] = new /\ \A u \in CoTabs \ {t} : ask'[u] = ask[u]
  BY AskMoves
<1>2. ConnTyped' /\ ShopTyped' /\ ViewTyped' /\ RestTyped'
  BY DEF CoInv, CoTyped, ConnTyped, ShopTyped, ViewTyped, RestTyped
<1>3. RowsKept'
  BY DEF CoInv, RowsKept
<1>4. AsksKept'
  <2> SUFFICES ASSUME NEW u \in CoTabs PROVE AskKept(ask[u])'
    BY DEF AsksKept
  <2>1. PICK x \in CoAsk : x = ask'[u]
    BY <1>1 DEF AskTyped
  <2>2. AskKept(x)
    BY <1>1, <2>1 DEF CoInv, AsksKept
  <2>3. AskKept(x)'
    BY <2>2, AskStays
  <2>4. QED BY <2>1, <2>3 DEF AskKept
<1>5. Newest' = Newest
  BY NewestStays DEF Living
<1>6. TabsKept'
  <2> SUFFICES ASSUME NEW u \in CoTabs \ upset' PROVE TabKept(settings[u], ask[u])'
    BY DEF TabsKept
  <2>1. TabKept(settings[u], ask'[u])
    BY <1>1 DEF CoInv, TabsKept
  <2>2. QED BY <1>5, <2>1 DEF TabKept, Shows
<1>7. ViewsKept'
  BY <1>1 DEF CoInv, ViewsKept
<1>8. QED BY <1>1, <1>2, <1>3, <1>4, <1>6, <1>7 DEF CoInv, CoTyped

LEMMA CrowdStays ==
  ASSUME CoInv, NEW t \in CoTabs, NEW new \in CoAsk, ask' = [ask EXCEPT ![t] = new],
         UNCHANGED <<planMax, conn, crowded>>,
         new.do = "create" => ask[t].do = "create",
         new.do = "create" /\ new.pc = "insert" => Cardinality(Living) < planMax
  PROVE  CrowdKept'
<1>1. ask'[t] = new /\ \A u \in CoTabs \ {t} : ask'[u] = ask[u]
  BY AskMoves
<1>2. Living' = Living
  BY DEF Living
<1>3. QED BY <1>1, <1>2 DEF CoInv, CrowdKept, AskAt

LEMMA ProofStays ==
  ASSUME CoInv, NEW t \in CoTabs, NEW new \in CoAsk, ask' = [ask EXCEPT ![t] = new],
         UNCHANGED <<conn, shop, unproved>>,
         \A c \in Conns : Vouches(new, c) => Vouches(ask[t], c)
  PROVE  ProofKept'
<1>1. ask'[t] = new /\ \A u \in CoTabs \ {t} : ask'[u] = ask[u]
  BY AskMoves
<1> SUFFICES ASSUME NEW c \in Conns \ unproved', conn'[c].ok \/ \E u \in CoTabs : Vouches(ask'[u], c) PROVE Sound(c)'
  BY DEF ProofKept, Vouches
<1>2. conn[c].ok \/ \E u \in CoTabs : Vouches(ask[u], c)
  BY <1>1
<1>3. Sound(c)
  BY <1>2 DEF CoInv, ProofKept
<1>4. QED BY <1>3 DEF Sound, Sends

LEMMA CoInitially == CoInit => CoInv
<1> SUFFICES ASSUME CoInit PROVE CoInv
  OBVIOUS
<1>1. CoTyped
  <2>1. ConnTyped
    BY DEF CoInit, ConnTyped, CoRow, NoConn
  <2>2. ShopTyped
    BY DEF CoInit, ShopTyped, CoShop
  <2>3. AskTyped
    BY NoAskIs DEF CoInit, AskTyped
  <2>4. ViewTyped
    BY ConnsAre DEF CoInit, ViewTyped, CoView, NoView
  <2>5. RestTyped
    <3>1. planMax \in Nat /\ panel = "hidden" /\ unproved = {} /\ crossed = {} /\ crowded = FALSE /\ upset = {}
      BY DEF CoInit
    <3>2. coLeft \in [CoEvents -> Nat]
      BY ConnectionsAssumption DEF CoInit
    <3>3. QED BY <3>1, <3>2 DEF RestTyped
  <2>6. QED BY <2>1, <2>2, <2>3, <2>4, <2>5 DEF CoTyped
<1>2. \A c \in Conns : conn[c] = NoConn /\ shop[c].secret = 0
  BY DEF CoInit
<1>3. RowsKept
  BY <1>2 DEF RowsKept, NoConn
<1>4. \A t \in CoTabs : /\ ask[t].do = "nothing" /\ ask[t].pc = "" /\ ask[t].row = 0 /\ ask[t].despite = {}
                       /\ ~settings[t].loaded /\ settings[t].secret = 0
  BY NoAskIs DEF CoInit, NoView
<1>5. AsksKept
  BY <1>4 DEF AsksKept, AskKept
<1>6. CrowdKept
  <2>1. Living = {} /\ Cardinality({}) = 0 /\ planMax \in Nat
    BY <1>2, FS_EmptySet DEF Living, NoConn, CoInit
  <2>2. Cardinality(Living) <= planMax
    BY <2>1
  <2>3. \A t \in CoTabs : ask[t].do # "create"
    BY <1>4
  <2>4. QED BY <2>2, <2>3 DEF CrowdKept, AskAt
<1>7. ProofKept
  <2>1. \A c \in Conns : ~conn[c].ok
    BY <1>2 DEF NoConn
  <2>2. \A c \in Conns, t \in CoTabs : ~Vouches(ask[t], c)
    BY <1>4 DEF Vouches
  <2>3. QED BY <2>1, <2>2 DEF ProofKept
<1>8. TabsKept
  BY <1>4 DEF TabsKept, TabKept
<1>9. ViewsKept
  BY <1>4 DEF ViewsKept
<1>10. QED BY <1>1, <1>3, <1>5, <1>6, <1>7, <1>8, <1>9 DEF CoInv

-----------------------------------------------------------------------------
(* The requests, step by step.                                               *)

LEMMA PressKeeps ==
  ASSUME CoInv, NEW t \in CoTabs, NEW what \in CoEvents, NEW do \in {"create", "test", "rotate", "disconnect"},
         NEW step \in {"check", "read"}, Presses(t, what, do, step), crowded' \in BOOLEAN,
         crowded' <=> crowded \/ (do = "create" /\ \E u \in CoTabs : ask[u].do = "create")
  PROVE  CoInv'
<1>1. PICK B \in SUBSET Conns : B = Banned
  BY DEF Banned
<1>2. PICK new \in CoAsk : new = [NoAsk EXCEPT !.do = do, !.pc = step, !.despite = B]
  <2>1. [NoAsk EXCEPT !.do = do, !.pc = step, !.despite = B] \in CoAsk
    BY NoAskIs DEF CoAsk, AskSteps
  <2>2. QED BY <2>1
<1>3. new.do = do /\ new.pc = step /\ new.row = 0 /\ new.despite = B /\ ~new.calm
  BY <1>2 DEF NoAsk
<1>4. /\ ask[t] = NoAsk /\ settings[t].loaded /\ coLeft' \in [CoEvents -> Nat]
      /\ UNCHANGED <<planMax, conn, shop, settings, panel, unproved, crossed, upset>>
  BY CoUsesType DEF Presses, CoIdle
<1>5. ask' = [ask EXCEPT ![t] = new]
  BY <1>1, <1>2 DEF Presses
<1>6. AskKept(new)
  BY <1>1, <1>3 DEF AskKept
<1>7. upset \subseteq CoTabs /\ unproved \subseteq Conns
  BY DEF CoInv, CoTyped, RestTyped
<1>8. CrowdKept'
  <2>1. ask'[t] = new /\ \A u \in CoTabs \ {t} : ask'[u] = ask[u]
    BY <1>5, AskMoves
  <2>2. Living' = Living
    BY <1>4 DEF Living
  <2>3. new.pc # "insert"
    BY <1>3
  <2>4. QED BY <1>3, <1>4, <2>1, <2>2, <2>3 DEF CoInv, CrowdKept, AskAt
<1>9. ProofKept'
  <2>1. \A c \in Conns : ~Vouches(new, c)
    BY <1>3, ConnsAre DEF Vouches
  <2>2. QED BY <1>4, <1>5, <2>1, ProofStays
<1>10. t \in upset' \/ TabKept(settings[t], new)
  <2> SUFFICES ASSUME t \notin upset PROVE TabKept(settings[t], new)
    BY <1>4
  <2>1. Shows(settings[t])
    BY <1>4, NoAskIs DEF CoInv, TabsKept, TabKept
  <2>2. QED BY <1>3, <2>1 DEF TabKept
<1>11. QED BY <1>4, <1>5, <1>6, <1>7, <1>8, <1>9, <1>10, OneAskMoves

LEMMA PressesKeep ==
  ASSUME CoInv, NEW t \in CoTabs, PressCreate(t) \/ PressTest(t) \/ PressRotate(t) \/ PressDisconnect(t)
  PROVE  CoInv'
<1>0. crowded \in BOOLEAN
  BY DEF CoInv, CoTyped, RestTyped
<1>1. CASE PressCreate(t)
  <2>1. crowded' = (crowded \/ \E u \in CoTabs : ask[u].do = "create")
    BY <1>1 DEF PressCreate
  <2>2. crowded' \in BOOLEAN /\ (crowded' <=> crowded \/ \E u \in CoTabs : ask[u].do = "create")
    BY <2>1, Zenon
  <2>3. Presses(t, "creates", "create", "check")
    BY <1>1 DEF PressCreate
  <2>4. QED BY <2>2, <2>3, PressKeeps DEF CoEvents
<1>2. CASE PressTest(t)
  <2>1. Presses(t, "tests", "test", "read") /\ crowded' = crowded
    BY <1>2 DEF PressTest
  <2>2. QED BY <1>0, <2>1, PressKeeps DEF CoEvents
<1>3. CASE PressRotate(t)
  <2>1. Presses(t, "rotations", "rotate", "read") /\ crowded' = crowded
    BY <1>3 DEF PressRotate
  <2>2. QED BY <1>0, <2>1, PressKeeps DEF CoEvents
<1>4. CASE PressDisconnect(t)
  <2>1. Presses(t, "disconnects", "disconnect", "read") /\ crowded' = crowded
    BY <1>4 DEF PressDisconnect
  <2>2. QED BY <1>0, <2>1, PressKeeps DEF CoEvents
<1>5. QED BY <1>1, <1>2, <1>3, <1>4

\* A step that changes one request, and the proofs only for the better.
LEMMA OneAskGoes ==
  ASSUME CoInv, NEW t \in CoTabs, NEW new \in CoAsk, ask' = [ask EXCEPT ![t] = new],
         UNCHANGED <<planMax, conn, shop, settings, panel, crossed, crowded>>, coLeft' \in [CoEvents -> Nat],
         upset \subseteq upset', upset' \subseteq CoTabs, unproved' \subseteq Conns,
         AskKept(new), ask[t].pc # "", ProofKept', new.do = ask[t].do,
         new.do = "create" /\ new.pc = "insert" => Cardinality(Living) < planMax,
         t \in upset' \/ TabKept(settings[t], new)
  PROVE  CoInv'
<1>1. settings[t].loaded /\ crowded' \in BOOLEAN
  BY DEF CoInv, ViewsKept, CoTyped, RestTyped
<1>2. CrowdKept'
  BY CrowdStays
<1>3. QED BY <1>1, <1>2, OneAskMoves

\* What is known of a request under way, and of the page it comes from.
LEMMA AskKnown ==
  ASSUME CoInv, NEW t \in CoTabs
  PROVE  ask[t] \in CoAsk /\ AskKept(ask[t]) /\ (t \notin upset => TabKept(settings[t], ask[t]))
         /\ unproved \subseteq Conns /\ upset \subseteq CoTabs /\ coLeft \in [CoEvents -> Nat]
  BY DEF CoInv, CoTyped, AskTyped, AsksKept, TabsKept, RestTyped

LEMMA CheckBansKeeps ==
  ASSUME CoInv, NEW t \in CoTabs, CheckBans(t)
  PROVE  CoInv'
<1>1. /\ ask[t].do = "create" /\ ask[t].pc = "check"
      /\ UNCHANGED <<planMax, conn, shop, settings, panel, unproved, crossed, crowded, upset, coLeft>>
  BY DEF CheckBans, AskAt
<1>2. PICK step \in {"failed", "count"} : step = IF CountsBans # {} THEN "failed" ELSE "count"
  OBVIOUS
<1>3. PICK new \in CoAsk : /\ new = [ask[t] EXCEPT !.pc = step] /\ new.do = "create" /\ new.pc = step
                           /\ new.row = ask[t].row /\ new.despite = ask[t].despite /\ new.calm = ask[t].calm
  <2>1. step \in AskSteps /\ ask[t] \in CoAsk
    BY AskKnown DEF AskSteps
  <2>2. QED BY <1>1, <2>1, AskStep
<1>4. ask' = [ask EXCEPT ![t] = new]
  BY <1>2, <1>3 DEF CheckBans, AskGoes
<1>5. AskKept(new)
  <2>1. step = "count" => Banned = {}
    BY <1>2 DEF CountsBans
  <2>2. QED BY <1>1, <1>3, <2>1, AskKnown DEF AskKept
<1>6. ProofKept'
  <2>1. \A c \in Conns : ~Vouches(new, c)
    BY <1>3 DEF Vouches
  <2>2. QED BY <1>1, <1>4, <2>1, ProofStays
<1>7. t \in upset' \/ TabKept(settings[t], new)
  BY <1>1, <1>3, AskKnown DEF TabKept
<1>8. QED BY <1>1, <1>3, <1>4, <1>5, <1>6, <1>7, AskKnown, OneAskGoes

LEMMA CountConnsKeeps ==
  ASSUME CoInv, NEW t \in CoTabs, CountConns(t)
  PROVE  CoInv'
<1>1. /\ ask[t].do = "create" /\ ask[t].pc = "count"
      /\ UNCHANGED <<planMax, conn, shop, settings, panel, unproved, crossed, crowded, upset, coLeft>>
  BY DEF CountConns, AskAt
<1>2. PICK step \in {"failed", "insert"} : step = IF HasRoom(Cardinality(Living)) THEN "insert" ELSE "failed"
  OBVIOUS
<1>3. PICK new \in CoAsk : /\ new = [ask[t] EXCEPT !.pc = step] /\ new.do = "create" /\ new.pc = step
                           /\ new.row = ask[t].row /\ new.despite = ask[t].despite /\ new.calm = ask[t].calm
  <2>1. step \in AskSteps /\ ask[t] \in CoAsk
    BY AskKnown DEF AskSteps
  <2>2. QED BY <1>1, <2>1, AskStep
<1>4. ask' = [ask EXCEPT ![t] = new]
  BY <1>2, <1>3 DEF CountConns, AskGoes
<1>5. AskKept(new)
  BY <1>1, <1>3, AskKnown DEF AskKept
<1>6. ProofKept'
  <2>1. \A c \in Conns : ~Vouches(new, c)
    BY <1>3 DEF Vouches
  <2>2. QED BY <1>1, <1>4, <2>1, ProofStays
<1>7. t \in upset' \/ TabKept(settings[t], new)
  BY <1>1, <1>3, AskKnown DEF TabKept
<1>8. new.do = "create" /\ new.pc = "insert" => Cardinality(Living) < planMax
  BY <1>2, <1>3 DEF HasRoom
<1>9. QED BY <1>1, <1>3, <1>4, <1>5, <1>6, <1>7, <1>8, AskKnown, OneAskGoes


\* The row is read: the newest.
LEMMA ReadConnKeeps ==
  ASSUME CoInv, NEW t \in CoTabs, ReadConn(t)
  PROVE  CoInv'
<1>1. /\ ask[t].do \in {"test", "rotate", "disconnect"} /\ ask[t].pc = "read"
      /\ UNCHANGED <<planMax, conn, shop, settings, panel, unproved, crossed, crowded, upset, coLeft>>
  BY DEF ReadConn, AskAt
<1>2. PICK N \in 0..MaxConns : N = Newest
  BY NewestIs
<1>3. PICK x \in CoAsk : x = ask[t]
  BY AskKnown
<1>4. CASE N = 0 \/ (x.do = "test" /\ conn[N].banned)
  <2>1. ask' = [ask EXCEPT ![t] = [x EXCEPT !.pc = "failed"]]
    BY <1>2, <1>3, <1>4 DEF ReadConn
  <2>2. PICK new \in CoAsk : /\ new = [x EXCEPT !.pc = "failed"] /\ new.do = x.do /\ new.pc = "failed"
                             /\ new.row = x.row /\ new.despite = x.despite /\ new.calm = x.calm
    <3>1. "failed" \in AskSteps
      BY DEF AskSteps
    <3>2. QED BY <3>1, AskStep, Zenon
  <2>3. AskKept(new)
    BY <1>1, <1>3, <2>2, AskKnown DEF AskKept
  <2>4. ProofKept'
    <3>1. \A c \in Conns : Vouches(new, c) => Vouches(ask[t], c)
      BY <1>3, <2>2 DEF Vouches
    <3>2. QED BY <1>1, <2>1, <2>2, <3>1, ProofStays
  <2>5. t \in upset' \/ TabKept(settings[t], new)
    BY <1>1, <2>2 DEF TabKept
  <2>6. QED BY <1>1, <1>3, <2>1, <2>2, <2>3, <2>4, <2>5, AskKnown, OneAskGoes
<1>5. CASE ~(N = 0 \/ (x.do = "test" /\ conn[N].banned))
  <2>1. N \in Conns /\ conn[N] \in CoRow /\ conn[N].state = "live"
    <3>1. N \in Living
      BY <1>2, <1>5, NewestIs
    <3>2. QED BY <3>1 DEF Living, CoInv, CoTyped, ConnTyped
  <2>2. PICK S \in SUBSET Nat : S = IF x.do = "test" THEN Sends(conn[N]) ELSE {conn[N].secret}
    BY <2>1 DEF CoRow, Sends
  <2>3. PICK step \in {"health", "write"} : step = IF x.do = "test" THEN "health" ELSE "write"
    OBVIOUS
  <2>4. PICK good \in BOOLEAN : good = conn[N].ok
    BY <2>1 DEF CoRow
  <2>5. PICK yes \in BOOLEAN : yes = TRUE
    OBVIOUS
  <2> DEFINE y == [x EXCEPT !.pc = step, !.row = N, !.sends = S, !.ok = good, !.calm = yes]
  <2>6. /\ y \in CoAsk /\ y.do = x.do /\ y.pc = step /\ y.row = N /\ y.sends = S /\ y.ok = good /\ y.calm = yes
        /\ y.despite = x.despite
    BY <2>1, <2>3 DEF CoAsk, AskSteps
  <2>7. ask' = [ask EXCEPT ![t] = y]
    <3>1. ask' = [ask EXCEPT ![t] =
            [x EXCEPT !.pc = IF x.do = "test" THEN "health" ELSE "write", !.row = N,
                      !.sends = IF x.do = "test" THEN Sends(conn[N]) ELSE {conn[N].secret},
                      !.ok = conn[N].ok, !.calm = TRUE]]
      BY <1>2, <1>3, <1>5 DEF ReadConn
    <3>2. QED BY <2>2, <2>3, <2>4, <2>5, <3>1, Zenon
  <2> HIDE DEF y
  <2>8. PICK new \in CoAsk : new = y
    BY <2>6
  <2>9. AskKept(new)
    <3>1. conn[N].secret > 0 /\ conn[N].secret \in Nat
      BY <2>1 DEF CoInv, RowsKept, CoRow
    <3>2. x.do = "rotate" => \E s \in 1..conn[N].secret : S = {s}
      BY <2>2, <3>1
    <3>3. x.do = "test" => S = Sends(conn[N])
      BY <2>2
    <3>4. x.despite \subseteq Banned
      BY <1>3, AskKnown DEF AskKept
    <3>5. /\ new.do = x.do /\ new.pc = step /\ new.row = N /\ new.sends = S /\ new.despite = x.despite
          /\ x.do \in {"test", "rotate", "disconnect"} /\ N # 0
      BY <1>1, <1>3, <2>1, <2>6, <2>8, ConnsAre
    <3>6. step = "health" <=> x.do = "test"
      BY <2>3
    <3>7. QED BY <2>1, <2>3, <3>2, <3>3, <3>4, <3>5, <3>6 DEF AskKept
  <2>10. ProofKept'
    <3>1. new.calm /\ (new.do = "test" => new.pc = "health")
      BY <2>3, <2>5, <2>6, <2>8
    <3>2. \A c \in Conns : ~Vouches(new, c)
      BY <3>1 DEF Vouches
    <3>3. QED BY <1>1, <2>7, <2>8, <3>2, ProofStays
  <2>11. t \in upset' \/ TabKept(settings[t], new)
    <3> SUFFICES ASSUME t \notin upset PROVE TabKept(settings[t], new)
      BY <1>1
    <3>1. settings[t].loaded => Shows(settings[t])
      BY <1>1, AskKnown DEF TabKept
    <3>2. QED BY <1>2, <2>3, <2>4, <2>6, <2>8, <3>1 DEF TabKept
  <2>12. new.do = "create" /\ new.pc = "insert" => Cardinality(Living) < planMax
    BY <1>1, <1>3, <2>6, <2>8
  <2>13. ask[t].pc # "" /\ new.do = ask[t].do
    BY <1>1, <1>3, <2>6, <2>8
  <2>14. ask' = [ask EXCEPT ![t] = new]
    BY <2>7, <2>8
  <2>15. QED BY <1>1, <2>9, <2>10, <2>11, <2>12, <2>13, <2>14, AskKnown, OneAskGoes
<1>6. QED BY <1>4, <1>5

\* A verdict of the test.
LEMMA AskVerdict ==
  ASSUME NEW x \in CoAsk, NEW good \in BOOLEAN
  PROVE  \E new \in CoAsk :
           /\ new = [x EXCEPT !.pc = "write", !.ok = good] /\ new.pc = "write" /\ new.do = x.do /\ new.row = x.row
           /\ new.sends = x.sends /\ (new.ok <=> good) /\ (new.calm <=> x.calm) /\ new.despite = x.despite
<1> DEFINE y == [x EXCEPT !.pc = "write", !.ok = good]
<1>1. /\ y \in CoAsk /\ y.pc = "write" /\ y.do = x.do /\ y.row = x.row /\ y.sends = x.sends
      /\ y.ok = good /\ y.calm = x.calm /\ y.despite = x.despite
  BY DEF CoAsk, AskSteps
<1> HIDE DEF y
<1>2. \E new \in CoAsk :
           /\ new = y /\ new.pc = "write" /\ new.do = x.do /\ new.row = x.row /\ new.sends = x.sends
           /\ (new.ok <=> good) /\ (new.calm <=> x.calm) /\ new.despite = x.despite
  BY <1>1
<1>3. QED BY <1>2 DEF y

\* A test goes on: to its second call, or to its verdict.
LEMMA TestGoes ==
  ASSUME CoInv, NEW t \in CoTabs, ask[t].do = "test", ask[t].pc \in {"health", "probe"},
         NEW new \in CoAsk, ask' = [ask EXCEPT ![t] = new],
         new.pc \in {"probe", "write"}, new.do = "test", new.row = ask[t].row, new.sends = ask[t].sends,
         new.calm <=> ask[t].calm, new.despite = ask[t].despite,
         new.pc = "probe" /\ new.calm => Accepts(new.row, new.sends), ProofKept',
         UNCHANGED <<planMax, conn, shop, settings, panel, crossed, crowded, upset>>, coLeft' \in [CoEvents -> Nat],
         unproved' \subseteq unproved
  PROVE  CoInv'
<1>1. AskKept(new)
  BY AskKnown DEF AskKept
<1>2. t \in upset' \/ TabKept(settings[t], new)
  BY AskKnown DEF TabKept
<1>3. QED BY <1>1, <1>2, AskKnown, OneAskGoes

LEMMA CallHealthKeeps ==
  ASSUME CoInv, NEW t \in CoTabs, CallHealth(t)
  PROVE  CoInv'
<1>1. /\ ask[t].do = "test" /\ ask[t].pc = "health"
      /\ UNCHANGED <<planMax, conn, shop, settings, panel, unproved, crossed, crowded, upset>>
      /\ coLeft' \in [CoEvents -> Nat]
  BY CoUsesType, AskKnown DEF CallHealth, AskAt, CoEvents
<1>2. PICK x \in CoAsk : x = ask[t]
  BY AskKnown
<1>3. CASE Accepts(ask[t].row, ask[t].sends) /\ AskGoes(t, "probe")
  <2>1. PICK new \in CoAsk : /\ new = [x EXCEPT !.pc = "probe"] /\ new.do = x.do /\ new.pc = "probe" /\ new.row = x.row
                             /\ new.sends = x.sends /\ new.despite = x.despite /\ new.calm = x.calm
    <3>1. "probe" \in AskSteps
      BY DEF AskSteps
    <3>2. QED BY <3>1, AskStep, Zenon
  <2>2. ask' = [ask EXCEPT ![t] = new]
    BY <1>2, <1>3, <2>1 DEF AskGoes
  <2>3. ProofKept'
    <3>1. \A c \in Conns : Vouches(new, c) => Vouches(ask[t], c)
      BY <1>2, <2>1 DEF Vouches
    <3>2. QED BY <1>1, <2>2, <3>1, ProofStays
  <2>4. QED BY <1>1, <1>2, <1>3, <2>1, <2>2, <2>3, TestGoes
<1>4. CASE ask' = [ask EXCEPT ![t].pc = "write", ![t].ok = FALSE]
  <2>0. PICK no \in BOOLEAN : no = FALSE
    OBVIOUS
  <2>1. PICK new \in CoAsk :
          /\ new = [x EXCEPT !.pc = "write", !.ok = no] /\ new.pc = "write" /\ new.do = x.do /\ new.row = x.row
          /\ new.sends = x.sends /\ (new.ok <=> no) /\ (new.calm <=> x.calm) /\ new.despite = x.despite
    BY AskVerdict, Zenon
  <2>2. ask' = [ask EXCEPT ![t] = new]
    BY <1>2, <1>4, <2>0, <2>1
  <2>3. ProofKept'
    <3>1. ~new.ok
      BY <2>0, <2>1
    <3>2. \A c \in Conns : Vouches(new, c) => Vouches(ask[t], c)
      BY <1>2, <2>1, <3>1 DEF Vouches
    <3>3. QED BY <1>1, <2>2, <3>2, ProofStays
  <2>4. QED BY <1>1, <1>2, <2>1, <2>2, <2>3, TestGoes
<1>5. QED BY <1>3, <1>4 DEF CallHealth

\* A verdict proves a connection if nothing disturbed the test.
LEMMA CallBadlySignedKeeps ==
  ASSUME CoInv, NEW t \in CoTabs, CallBadlySigned(t)
  PROVE  CoInv'
<1>1. /\ ask[t].do = "test" /\ ask[t].pc = "probe"
      /\ UNCHANGED <<planMax, conn, shop, settings, panel, crossed, crowded, upset>>
      /\ coLeft' \in [CoEvents -> Nat]
  BY CoUsesType, AskKnown DEF CallBadlySigned, AskAt, CoEvents
<1>2. PICK x \in CoAsk : x = ask[t]
  BY AskKnown
<1>3. PICK c \in Conns : c = x.row
  BY <1>1, <1>2, AskKnown, ConnsAre DEF AskKept, CoAsk
<1>4. PICK good \in BOOLEAN : (good => shop[c].checks) /\ ask' = [ask EXCEPT ![t].pc = "write", ![t].ok = good]
  <2>1. shop[c].checks \in BOOLEAN
    BY DEF CoInv, CoTyped, ShopTyped, CoShop
  <2>2. CASE ask' = [ask EXCEPT ![t].pc = "write", ![t].ok = Passes(c)]
    <3>1. ask' = [ask EXCEPT ![t].pc = "write", ![t].ok = shop[c].checks]
      BY <2>2 DEF Passes
    <3>2. QED BY <2>1, <3>1
  <2>3. CASE ask' = [ask EXCEPT ![t].pc = "write", ![t].ok = FALSE]
    BY <2>3
  <2>4. QED BY <1>2, <1>3, <2>2, <2>3 DEF CallBadlySigned
<1>5. PICK new \in CoAsk :
        /\ new = [x EXCEPT !.pc = "write", !.ok = good] /\ new.pc = "write" /\ new.do = x.do /\ new.row = x.row
        /\ new.sends = x.sends /\ (new.ok <=> good) /\ (new.calm <=> x.calm) /\ new.despite = x.despite
  BY AskVerdict, Zenon
<1>6. ask' = [ask EXCEPT ![t] = new]
  BY <1>2, <1>4, <1>5
<1>7. ask'[t] = new /\ \A u \in CoTabs \ {t} : ask'[u] = ask[u]
  BY <1>6, AskMoves
<1>8. unproved' = IF x.calm /\ new.ok THEN unproved \ {c} ELSE unproved
  BY <1>2, <1>3, <1>7 DEF CallBadlySigned
<1>9. ProofKept'
  <2> SUFFICES ASSUME NEW d \in Conns \ unproved', conn'[d].ok \/ \E u \in CoTabs : Vouches(ask'[u], d) PROVE Sound(d)'
    BY DEF ProofKept, Vouches
  <2>1. CASE x.calm /\ new.ok /\ d = c
    <3>1. shop[c].checks
      BY <1>4, <1>5, <2>1
    <3>2. x.sends = Sends(conn[c]) /\ Accepts(c, x.sends)
      BY <1>1, <1>2, <1>3, <2>1, AskKnown DEF AskKept
    <3>3. Sound(c)
      BY <3>1, <3>2 DEF Sound, Accepts
    <3>4. QED BY <1>1, <2>1, <3>3 DEF Sound, Sends
  <2>2. CASE ~(x.calm /\ new.ok /\ d = c)
    <3>1. d \in Conns \ unproved
      BY <1>8, <2>2
    <3>2. Vouches(new, d) => Vouches(x, d)
      BY <1>1, <1>2, <1>3, <1>5, <2>2 DEF Vouches
    <3>3. conn[d].ok \/ \E u \in CoTabs : Vouches(ask[u], d)
      BY <1>1, <1>2, <1>7, <3>2
    <3>4. Sound(d)
      BY <3>1, <3>3 DEF CoInv, ProofKept
    <3>5. QED BY <1>1, <3>4 DEF Sound, Sends
  <2>3. QED BY <2>1, <2>2
<1>10. unproved' \subseteq unproved
  BY <1>8
<1>11. QED BY <1>1, <1>2, <1>5, <1>6, <1>9, <1>10, TestGoes


-----------------------------------------------------------------------------
(* The writes, step by step.                                                 *)

LEMMA LandErrorKeeps ==
  ASSUME CoInv, NEW t \in CoTabs, LandError(t)
  PROVE  CoInv'
<1>1. /\ ask[t].pc = "failed" /\ upset' = upset \union {t}
      /\ UNCHANGED <<planMax, conn, shop, settings, panel, unproved, crossed, crowded, coLeft>>
  BY DEF LandError
<1>2. PICK new \in CoAsk : new = NoAsk /\ new.do = "nothing" /\ new.pc = "" /\ new.row = 0 /\ new.despite = {}
  BY NoAskIs
<1>3. ask' = [ask EXCEPT ![t] = new]
  BY <1>2 DEF LandError
<1>4. AskKept(new)
  BY <1>2 DEF AskKept
<1>5. CrowdKept'
  BY <1>1, <1>2, <1>3, CrowdStays
<1>6. ProofKept'
  <2>1. \A c \in Conns : ~Vouches(new, c)
    BY <1>2 DEF Vouches
  <2>2. QED BY <1>1, <1>3, <2>1, ProofStays
<1>7. settings[t].loaded /\ crowded' \in BOOLEAN
  BY <1>1 DEF CoInv, ViewsKept, CoTyped, RestTyped
<1>8. upset \subseteq upset' /\ upset' \subseteq CoTabs /\ t \in upset' /\ unproved' \subseteq Conns /\ coLeft' \in [CoEvents -> Nat]
  BY <1>1, AskKnown
<1>9. QED BY <1>1, <1>3, <1>4, <1>5, <1>6, <1>7, <1>8, OneAskMoves

\* A row that exists is written.
LEMMA RowMoves ==
  ASSUME CoInv, NEW c \in Conns, NEW new \in CoRow, conn' = [conn EXCEPT ![c] = new]
  PROVE  ConnTyped' /\ conn'[c] = new /\ \A d \in Conns \ {c} : conn'[d] = conn[d]
  BY DEF CoInv, CoTyped, ConnTyped

LEMMA RowTouched ==
  ASSUME CoInv, NEW c \in Conns, NEW new \in CoRow, conn' = [conn EXCEPT ![c] = new],
         conn[c].state # "none", new.state # "none",
         new.banned <=> conn[c].banned, new.secret = conn[c].secret, new.previous = conn[c].previous,
         new.window <=> conn[c].window, new.despite = conn[c].despite, UNCHANGED <<shop, crossed>>
  PROVE  /\ RowsKept' /\ Banned' = Banned /\ \A x \in CoAsk : AskKept(x) => AskKept(x)'
         /\ \A d \in Conns : (Sound(d) => Sound(d)')
<1>1. conn'[c] = new /\ \A d \in Conns \ {c} : conn'[d] = conn[d]
  BY RowMoves
<1>2. RowsKept'
  <2> SUFFICES ASSUME NEW d \in Conns
               PROVE  /\ conn'[d].state = "none" =>
                           ~conn'[d].banned /\ ~conn'[d].ok /\ ~conn'[d].window /\ shop'[d].secret = 0
                      /\ conn'[d].state # "none" => conn'[d].secret > 0 /\ \A e \in Conns : e < d => conn'[e].state # "none"
                      /\ conn'[d].despite = {}
                      /\ conn'[d].window /\ d \notin crossed' => conn'[d].previous = conn'[d].secret - 1
                      /\ conn'[d].previous <= conn'[d].secret /\ shop'[d].secret <= conn'[d].secret
    BY DEF RowsKept
  <2>1. \A e \in Conns : conn'[e].state = "none" <=> conn[e].state = "none"
    BY <1>1
  <2>2. CASE d = c
    BY <1>1, <2>1, <2>2 DEF CoInv, RowsKept
  <2>3. CASE d # c
    BY <1>1, <2>1, <2>3 DEF CoInv, RowsKept
  <2>4. QED BY <2>2, <2>3
<1>3. Banned' = Banned
  BY <1>1 DEF Banned
<1>4. \A d \in Conns : Sends(conn[d])' = Sends(conn[d])
  BY <1>1 DEF Sends
<1>5. \A d \in Conns : (conn'[d].state # "none" <=> conn[d].state # "none") /\ conn'[d].secret = conn[d].secret
  BY <1>1
<1>6. ASSUME NEW x \in CoAsk, AskKept(x) PROVE AskKept(x)'
  <2>1. x.row = 0 \/ x.row \in Conns
    BY ConnsAre DEF CoAsk
  <2>2. CASE x.row \in Conns
    <3>1. Sends(conn'[x.row]) = Sends(conn[x.row])
      BY <1>4, <2>2
    <3>2. Accepts(x.row, x.sends)' <=> Accepts(x.row, x.sends)
      BY DEF Accepts
    <3>3. QED BY <1>3, <1>5, <1>6, <2>2, <3>1, <3>2 DEF AskKept
  <2>3. CASE x.row = 0
    <3>1. ~(x.do \in {"test", "rotate", "disconnect"} /\ x.pc \in {"health", "probe", "write", "done"})
      BY <1>6, <2>3 DEF AskKept
    <3>2. QED BY <1>3, <1>6, <2>3, <3>1 DEF AskKept
  <2>4. QED BY <2>1, <2>2, <2>3
<1>7. \A d \in Conns : (Sound(d) => Sound(d)')
  BY <1>4 DEF Sound
<1>8. QED BY <1>2, <1>3, <1>6, <1>7

\* The requests after a write.
LEMMA AsksAfter ==
  ASSUME CoInv, NEW t \in CoTabs, NEW new \in CoAsk, ask' = [ask EXCEPT ![t] = new], AskKept(new)',
         \A x \in CoAsk : AskKept(x) => AskKept(x)'
  PROVE  AsksKept'
<1>1. AskTyped' /\ ask'[t] = new /\ \A u \in CoTabs \ {t} : ask'[u] = ask[u]
  BY AskMoves
<1> SUFFICES ASSUME NEW u \in CoTabs PROVE AskKept(ask[u])'
  BY DEF AsksKept
<1>2. PICK x \in CoAsk : x = ask'[u]
  BY <1>1 DEF AskTyped
<1>3. AskKept(x)'
  <2>1. CASE u = t
    BY <1>1, <1>2, <2>1
  <2>2. CASE u # t
    <3>1. x = ask[u]
      BY <1>1, <1>2, <2>2
    <3>2. AskKept(x)
      BY <3>1 DEF CoInv, AsksKept
    <3>3. QED BY <3>2
  <2>3. QED BY <2>1, <2>2
<1>4. QED BY <1>2, <1>3 DEF AskKept

LEMMA CrowdAfter ==
  ASSUME CoInv, Living' \subseteq Living, UNCHANGED <<planMax, crowded>>,
         \A u \in CoTabs : /\ ask'[u].do = "create" => ask[u].do = "create"
                           /\ ask'[u].do = "create" /\ ask'[u].pc = "insert" => ask[u].pc = "insert"
  PROVE  CrowdKept'
<1>1. Living \subseteq Conns /\ Living' \subseteq Conns
  BY DEF Living
<1>2. Cardinality(Living') <= Cardinality(Living) /\ Cardinality(Living) \in Nat /\ Cardinality(Living') \in Nat
  BY <1>1, LivingCounts
<1>3. planMax \in Nat
  BY DEF CoInv, CoTyped, RestTyped
<1>4. QED BY <1>2, <1>3 DEF CoInv, CrowdKept, AskAt

LEMMA InOrderOfSize == \A i, j, k \in Nat : i <= j /\ k >= j => i <= k
  OBVIOUS

LEMMA ViewsAfter ==
  ASSUME CoInv, UNCHANGED settings, \A u \in CoTabs : ask'[u].pc # "" => ask[u].pc # "",
         \A c \in Conns : conn[c].state # "none" => conn'[c].state # "none" /\ conn'[c].secret >= conn[c].secret,
         ConnTyped'
  PROVE  ViewsKept'
<1> SUFFICES ASSUME NEW u \in CoTabs
             PROVE  /\ ask'[u].pc # "" => settings[u].loaded
                    /\ settings[u].secret # 0 =>
                         settings[u].row # 0 /\ conn'[settings[u].row].state # "none"
                         /\ settings[u].secret <= conn'[settings[u].row].secret
  BY DEF ViewsKept
<1>1. ask'[u].pc # "" => settings[u].loaded
  BY DEF CoInv, ViewsKept
<1>2. ASSUME settings[u].secret # 0
      PROVE  settings[u].row # 0 /\ conn'[settings[u].row].state # "none"
             /\ settings[u].secret <= conn'[settings[u].row].secret
  <2>1. /\ settings[u].row # 0 /\ conn[settings[u].row].state # "none"
        /\ settings[u].secret <= conn[settings[u].row].secret
    BY <1>2 DEF CoInv, ViewsKept
  <2>2. settings[u].row \in Conns /\ settings[u].secret \in Nat
    BY <2>1, ConnsAre DEF CoInv, CoTyped, ViewTyped, CoView
  <2>3. conn[settings[u].row].secret \in Nat /\ conn'[settings[u].row].secret \in Nat
    BY <2>2 DEF CoInv, CoTyped, ConnTyped, CoRow
  <2>4. conn'[settings[u].row].state # "none" /\ conn'[settings[u].row].secret >= conn[settings[u].row].secret
    BY <2>1, <2>2
  <2>6. settings[u].secret <= conn'[settings[u].row].secret
    BY <2>1, <2>2, <2>3, <2>4, InOrderOfSize
  <2>7. QED BY <2>1, <2>4, <2>6
<1>3. QED BY <1>1, <1>2

\* What an answer leaves.
LEMMA AnswerIs ==
  ASSUME CoInv, NEW t \in CoTabs, NEW x \in CoAsk, Answered(t, x)
  PROVE  /\ coLeft' \in [CoEvents -> Nat]
         /\ \E new \in CoAsk : /\ ask' = [ask EXCEPT ![t] = new] /\ new.pc \in {"done", "failed"} /\ new.do = x.do
                               /\ new.row = x.row /\ new.sends = x.sends /\ new.ok = x.ok /\ new.calm = x.calm
                               /\ new.despite = x.despite
<1>1. coLeft' \in [CoEvents -> Nat]
  BY CoUsesType, AskKnown DEF Answered, CoEvents
<1>2. PICK step \in {"done", "failed"} : ask' = [ask EXCEPT ![t] = [x EXCEPT !.pc = step]]
  BY DEF Answered
<1>3. step \in AskSteps
  BY DEF AskSteps
<1>4. PICK new \in CoAsk :
        /\ new = [x EXCEPT !.pc = step] /\ new.pc = step /\ new.do = x.do /\ new.row = x.row /\ new.sends = x.sends
        /\ new.ok = x.ok /\ new.calm = x.calm /\ new.despite = x.despite
  BY <1>3, AskStep, Zenon
<1>5. ask' = [ask EXCEPT ![t] = new] /\ new.pc \in {"done", "failed"}
  BY <1>2, <1>4
<1>6. QED BY <1>1, <1>4, <1>5

\* A write to a row that leaves its secrets alone, and its answer.
LEMMA WriteKeeps ==
  ASSUME CoInv, NEW t \in CoTabs, NEW c \in Conns, NEW new \in CoRow, conn' = [conn EXCEPT ![c] = new],
         conn[c].state # "none", new.state # "none", Living' \subseteq Living,
         new.banned <=> conn[c].banned, new.secret = conn[c].secret, new.previous = conn[c].previous,
         new.window <=> conn[c].window, new.despite = conn[c].despite,
         ask[t].do \in {"test", "disconnect"}, ask[t].pc = "write", ask[t].row = c, Answered(t, ask[t]),
         new.ok <=> (IF ask[t].do = "test" THEN ask[t].ok ELSE conn[c].ok),
         upset \union (CoTabs \ {t}) \subseteq upset', upset' \subseteq CoTabs,
         UNCHANGED <<planMax, shop, settings, panel, unproved, crossed, crowded>>,
         t \notin upset' /\ ask[t].do = "disconnect" => Newest' = 0,
         t \notin upset' /\ ask[t].do = "test" => Newest' = Newest
  PROVE  CoInv'
<1>1. PICK old \in CoAsk : old = ask[t]
  BY AskKnown
<1>2. PICK x \in CoAsk : /\ ask' = [ask EXCEPT ![t] = x] /\ x.pc \in {"done", "failed"} /\ x.do = old.do
                         /\ x.row = c /\ x.sends = old.sends /\ x.ok = old.ok /\ x.calm = old.calm
                         /\ x.despite = old.despite
  BY <1>1, AnswerIs
<1>3. coLeft' \in [CoEvents -> Nat]
  BY AnswerIs, AskKnown
<1>4. conn'[c] = new /\ ConnTyped' /\ \A d \in Conns \ {c} : conn'[d] = conn[d]
  BY RowMoves
<1>5. AskTyped' /\ ask'[t] = x /\ \A u \in CoTabs \ {t} : ask'[u] = ask[u]
  BY <1>2, AskMoves
<1>6. /\ RowsKept' /\ \A y \in CoAsk : AskKept(y) => AskKept(y)'
      /\ \A d \in Conns : Sound(d) => Sound(d)'
  BY RowTouched
<1>7. AsksKept'
  <2>1. AskKept(x)
    BY <1>1, <1>2, AskKnown, ConnsAre DEF AskKept
  <2>2. QED BY <1>2, <1>6, <2>1, AsksAfter
<1>8. CrowdKept'
  <2>1. \A u \in CoTabs : /\ ask'[u].do = "create" => ask[u].do = "create"
                          /\ ask'[u].do = "create" /\ ask'[u].pc = "insert" => ask[u].pc = "insert"
    BY <1>1, <1>2, <1>5
  <2>2. QED BY <2>1, CrowdAfter
<1>9. ProofKept'
  <2> SUFFICES ASSUME NEW d \in Conns \ unproved, conn'[d].ok \/ \E u \in CoTabs : Vouches(ask'[u], d) PROVE Sound(d)'
    BY DEF ProofKept, Vouches
  <2>1. conn'[d].ok => conn[d].ok \/ Vouches(old, d)
    BY <1>1, <1>4 DEF Vouches
  <2>2. Vouches(x, d) => Vouches(old, d)
    BY <1>1, <1>2 DEF Vouches
  <2>3. conn[d].ok \/ \E u \in CoTabs : Vouches(ask[u], d)
    BY <1>1, <1>5, <2>1, <2>2
  <2>4. QED BY <1>6, <2>3 DEF CoInv, ProofKept
<1>10. TabsKept'
  <2> SUFFICES ASSUME t \notin upset' PROVE TabKept(settings[t], ask[t])'
    BY DEF TabsKept
  <2>1. TabKept(settings[t], old) /\ settings[t].loaded
    BY <1>1, AskKnown DEF CoInv, ViewsKept
  <2>2. Shows(settings[t]) /\ c = Newest
    BY <1>1, <2>1 DEF TabKept
  <2>3. x.pc = "done" =>
         /\ x.do = "test" => /\ x.row = Newest' /\ settings[t].row = Newest' /\ x.ok = conn'[Newest'].ok
                             /\ settings[t].banned = conn'[Newest'].banned
         /\ x.do = "disconnect" => Newest' = 0
    <3>1. CASE old.do = "test"
      <4>1. Newest' = c
        BY <1>1, <2>2, <3>1
      <4>2. old.ok = new.ok /\ conn[c].banned = new.banned
        <5>1. old.ok \in BOOLEAN /\ new.ok \in BOOLEAN /\ conn[c].banned \in BOOLEAN /\ new.banned \in BOOLEAN
          BY DEF CoAsk, CoRow, CoInv, CoTyped, ConnTyped
        <5>2. old.ok <=> new.ok
          BY <1>1, <3>1
        <5>3. QED BY <5>1, <5>2
      <4>3. settings[t].row = c /\ settings[t].banned = conn[c].banned
        BY <2>2, ConnsAre DEF Shows
      <4>4. x.do = "test" /\ x.ok = old.ok
        BY <1>2, <3>1
      <4>5. QED BY <1>2, <1>4, <4>1, <4>2, <4>3, <4>4
    <3>2. CASE old.do = "disconnect"
      BY <1>1, <1>2, <3>2
    <3>3. QED BY <1>1, <3>1, <3>2
  <2>4. x.do # "create" /\ x.do # "rotate"
    BY <1>1, <1>2
  <2>5. QED BY <1>2, <1>5, <2>3, <2>4 DEF TabKept
<1>11. ViewsKept'
  <2>1. \A d \in Conns : conn[d].state # "none" => conn'[d].state # "none" /\ conn'[d].secret >= conn[d].secret
    BY <1>4 DEF CoInv, CoTyped, ConnTyped, CoRow
  <2>2. \A u \in CoTabs : ask'[u].pc # "" => ask[u].pc # ""
    BY <1>5
  <2>3. QED BY <1>4, <2>1, <2>2, ViewsAfter
<1>12. ShopTyped' /\ ViewTyped' /\ RestTyped'
  BY <1>3 DEF CoInv, CoTyped, ShopTyped, ViewTyped, RestTyped
<1>13. QED BY <1>4, <1>5, <1>6, <1>7, <1>8, <1>9, <1>10, <1>11, <1>12 DEF CoInv, CoTyped


LEMMA WriteTestKeeps ==
  ASSUME CoInv, NEW t \in CoTabs, WriteTest(t)
  PROVE  CoInv'
<1>1. /\ ask[t].do = "test" /\ ask[t].pc = "write" /\ Answered(t, ask[t])
      /\ upset' = upset \union (CoTabs \ {t})
      /\ UNCHANGED <<planMax, shop, settings, panel, unproved, crossed, crowded>>
  BY DEF WriteTest, AskAt, OthersUpset
<1>2. PICK old \in CoAsk : old = ask[t]
  BY AskKnown
<1>3. PICK c \in Conns : c = old.row /\ conn[c].state # "none"
  BY <1>1, <1>2, AskKnown, ConnsAre DEF AskKept, CoAsk
<1>4. PICK row \in CoRow : row = conn[c]
  BY DEF CoInv, CoTyped, ConnTyped
<1>5. PICK good \in BOOLEAN : good = old.ok
  BY DEF CoAsk
<1> DEFINE y == [row EXCEPT !.ok = good]
<1>6. /\ y \in CoRow /\ y.state = row.state /\ y.banned = row.banned /\ y.secret = row.secret
      /\ y.previous = row.previous /\ y.window = row.window /\ y.despite = row.despite /\ y.ok = good
  BY DEF CoRow
<1> HIDE DEF y
<1>7. PICK new \in CoRow : new = y
  BY <1>6
<1>8. conn' = [conn EXCEPT ![c] = new]
  <2>1. conn' = [conn EXCEPT ![c].ok = good]
    BY <1>2, <1>3, <1>5 DEF WriteTest
  <2>2. QED BY <1>4, <1>7, <2>1 DEF y
<1>9. conn'[c] = new /\ \A d \in Conns \ {c} : conn'[d] = conn[d]
  BY <1>8, RowMoves
<1>10. Living' = Living
  BY <1>4, <1>6, <1>7, <1>9 DEF Living
<1>11. Newest' = Newest
  BY <1>10, NewestStays
<1>12. new.ok <=> (IF ask[t].do = "test" THEN ask[t].ok ELSE conn[c].ok)
  BY <1>1, <1>2, <1>5, <1>6, <1>7
<1>13. /\ new.state # "none" /\ new.banned = conn[c].banned /\ new.secret = conn[c].secret
       /\ new.previous = conn[c].previous /\ new.window = conn[c].window /\ new.despite = conn[c].despite
  BY <1>3, <1>4, <1>6, <1>7
<1>14. upset' \subseteq CoTabs /\ upset \union (CoTabs \ {t}) \subseteq upset'
  BY <1>1, AskKnown
<1>15. /\ (new.banned <=> conn[c].banned) /\ (new.window <=> conn[c].window) /\ Living' \subseteq Living
       /\ ask[t].do \in {"test", "disconnect"} /\ ask[t].row = c
       /\ (t \notin upset' /\ ask[t].do = "disconnect" => Newest' = 0)
       /\ (t \notin upset' /\ ask[t].do = "test" => Newest' = Newest)
  BY <1>1, <1>2, <1>3, <1>10, <1>11, <1>13
<1>16. QED BY <1>1, <1>3, <1>8, <1>12, <1>13, <1>14, <1>15, WriteKeeps, Zenon

LEMMA WriteDisconnectKeeps ==
  ASSUME CoInv, NEW t \in CoTabs, WriteDisconnect(t)
  PROVE  CoInv'
<1>1. /\ ask[t].do = "disconnect" /\ ask[t].pc = "write" /\ Answered(t, ask[t])
      /\ UNCHANGED <<planMax, shop, settings, panel, unproved, crossed, crowded>>
  BY DEF WriteDisconnect, AskAt
<1>2. PICK old \in CoAsk : old = ask[t]
  BY AskKnown
<1>3. PICK c \in Conns : c = old.row /\ conn[c].state # "none"
  BY <1>1, <1>2, AskKnown, ConnsAre DEF AskKept, CoAsk
<1>4. PICK row \in CoRow : row = conn[c]
  BY DEF CoInv, CoTyped, ConnTyped
<1> DEFINE y == [row EXCEPT !.state = "gone"]
<1>5. /\ y \in CoRow /\ y.state = "gone" /\ y.banned = row.banned /\ y.secret = row.secret
      /\ y.previous = row.previous /\ y.window = row.window /\ y.despite = row.despite /\ y.ok = row.ok
  BY DEF CoRow
<1> HIDE DEF y
<1>6. PICK new \in CoRow : new = y
  BY <1>5
<1>7. conn' = [conn EXCEPT ![c] = new]
  <2>1. conn' = [conn EXCEPT ![c].state = "gone"]
    BY <1>2, <1>3 DEF WriteDisconnect
  <2>2. QED BY <1>4, <1>6, <2>1 DEF y
<1>8. conn'[c] = new /\ \A d \in Conns \ {c} : conn'[d] = conn[d]
  BY <1>7, RowMoves
<1>9. Living' = Living \ {c}
  BY <1>5, <1>6, <1>8 DEF Living
<1>10. upset' = (IF Living \subseteq {c} THEN upset \union (CoTabs \ {t}) ELSE CoTabs)
  BY <1>2, <1>3 DEF WriteDisconnect, OthersUpset
<1>11. t \notin upset' => Newest' = 0
  BY <1>9, <1>10, NewestIsNext
<1>12. new.ok <=> (IF ask[t].do = "test" THEN ask[t].ok ELSE conn[c].ok)
  BY <1>1, <1>4, <1>5, <1>6
<1>13. /\ new.state # "none" /\ new.banned = conn[c].banned /\ new.secret = conn[c].secret
       /\ new.previous = conn[c].previous /\ new.window = conn[c].window /\ new.despite = conn[c].despite
  BY <1>4, <1>5, <1>6
<1>14. upset' \subseteq CoTabs /\ upset \union (CoTabs \ {t}) \subseteq upset'
  BY <1>10, AskKnown
<1>15. /\ (new.banned <=> conn[c].banned) /\ (new.window <=> conn[c].window) /\ Living' \subseteq Living
       /\ ask[t].do \in {"test", "disconnect"} /\ ask[t].row = c
       /\ (t \notin upset' /\ ask[t].do = "disconnect" => Newest' = 0)
       /\ (t \notin upset' /\ ask[t].do = "test" => Newest' = Newest)
  BY <1>1, <1>2, <1>3, <1>9, <1>11, <1>13
<1>16. QED BY <1>1, <1>3, <1>7, <1>12, <1>13, <1>14, <1>15, WriteKeeps, Zenon

\* A connection is created: the last of all rows.
LEMMA InsertConnKeeps ==
  ASSUME CoInv, NEW t \in CoTabs, InsertConn(t)
  PROVE  CoInv'
<1>1. /\ ask[t].do = "create" /\ ask[t].pc = "insert" /\ upset' = upset \union (CoTabs \ {t})
      /\ UNCHANGED <<planMax, shop, settings, panel, unproved, crossed, crowded>>
  BY DEF InsertConn, AskAt, OthersUpset
<1>2. PICK old \in CoAsk : old = ask[t]
  BY AskKnown
<1>3. old.despite = {} /\ old.despite \in SUBSET Conns
  BY <1>1, <1>2, AskKnown DEF AskKept
<1>4. PICK c \in Conns :
        /\ conn[c].state = "none" /\ \A d \in Conns : d < c => conn[d].state # "none"
        /\ conn' = [conn EXCEPT ![c] = [NoConn EXCEPT !.state = "live", !.secret = 1, !.despite = ask[t].despite]]
        /\ Answered(t, [ask[t] EXCEPT !.row = c])
  BY DEF InsertConn
<1> DEFINE y == [NoConn EXCEPT !.state = "live", !.secret = 1, !.despite = {}]
<1>5. /\ y \in CoRow /\ y.state = "live" /\ ~y.banned /\ y.secret = 1
      /\ y.previous = 0 /\ ~y.window /\ y.despite = {} /\ ~y.ok
  BY DEF CoRow, NoConn
<1> HIDE DEF y
<1>6. PICK new \in CoRow : new = y
  BY <1>5
<1>7. conn' = [conn EXCEPT ![c] = new]
  BY <1>2, <1>3, <1>4, <1>6 DEF y
<1>8. ConnTyped' /\ conn'[c] = new /\ \A d \in Conns \ {c} : conn'[d] = conn[d]
  BY <1>7, RowMoves
<1> DEFINE z == [old EXCEPT !.row = c]
<1>9. /\ z \in CoAsk /\ z.do = old.do /\ z.pc = old.pc /\ z.row = c /\ z.sends = old.sends /\ z.ok = old.ok
      /\ z.calm = old.calm /\ z.despite = old.despite
  BY ConnsAre DEF CoAsk
<1> HIDE DEF z
<1>10. Answered(t, z)
  BY <1>2, <1>4 DEF z
<1>11. PICK x \in CoAsk : /\ ask' = [ask EXCEPT ![t] = x] /\ x.pc \in {"done", "failed"} /\ x.do = "create"
                          /\ x.row = c /\ x.despite = {}
  BY <1>1, <1>2, <1>3, <1>9, <1>10, AnswerIs
<1>12. coLeft' \in [CoEvents -> Nat]
  BY <1>9, <1>10, AnswerIs
<1>13. AskTyped' /\ ask'[t] = x /\ \A u \in CoTabs \ {t} : ask'[u] = ask[u]
  BY <1>11, AskMoves
<1>14. Living' = Living \union {c} /\ c \notin Living
  BY <1>4, <1>5, <1>6, <1>8 DEF Living
<1>15. Newest' = c
  <2>1. Newest' \in Living' /\ c <= Newest'
    BY <1>14, NewestIsNext
  <2>2. ASSUME Newest' # c PROVE FALSE
    <3>1. PICK d \in Conns : d = Newest' /\ d \in Living
      BY <1>14, <2>1, <2>2 DEF Living
    <3>2. conn[d].state # "none" /\ c < d
      BY <2>1, <2>2, <3>1, ConnsAre DEF Living
    <3>3. QED BY <1>4, <3>2 DEF CoInv, RowsKept
  <2>3. QED BY <2>2
<1>16. RowsKept'
  <2> SUFFICES ASSUME NEW d \in Conns
               PROVE  /\ conn'[d].state = "none" =>
                           ~conn'[d].banned /\ ~conn'[d].ok /\ ~conn'[d].window /\ shop'[d].secret = 0
                      /\ conn'[d].state # "none" => conn'[d].secret > 0 /\ \A e \in Conns : e < d => conn'[e].state # "none"
                      /\ conn'[d].despite = {}
                      /\ conn'[d].window /\ d \notin crossed' => conn'[d].previous = conn'[d].secret - 1
                      /\ conn'[d].previous <= conn'[d].secret /\ shop'[d].secret <= conn'[d].secret
    BY DEF RowsKept
  <2>1. \A e \in Conns : conn[e].state # "none" => conn'[e].state # "none"
    BY <1>4, <1>8
  <2>2. CASE d = c
    <3>1. shop[c].secret = 0
      BY <1>4 DEF CoInv, RowsKept
    <3>2. conn'[d] = new /\ shop'[d].secret = 0
      BY <1>1, <1>8, <2>2, <3>1
    <3>3. /\ new.state # "none" /\ new.secret = 1 /\ new.previous = 0 /\ new.despite = {} /\ ~new.window
      BY <1>5, <1>6
    <3>4. \A e \in Conns : e < d => conn'[e].state # "none"
      BY <1>4, <2>1, <2>2
    <3>5. QED BY <3>2, <3>3, <3>4
  <2>3. CASE d # c
    BY <1>1, <1>8, <2>1, <2>3 DEF CoInv, RowsKept
  <2>4. QED BY <2>2, <2>3
<1>17. Banned' = Banned
  <2>1. ~conn[c].banned
    BY <1>4 DEF CoInv, RowsKept
  <2>2. QED BY <1>5, <1>6, <1>8, <2>1 DEF Banned
<1>18. ASSUME NEW w \in CoAsk, AskKept(w) PROVE AskKept(w)' /\ w.row # c
  <2>1. w.row = 0 \/ w.row \in Conns
    BY ConnsAre DEF CoAsk
  <2>2. w.row # c
    BY <1>4, <1>18, ConnsAre DEF AskKept
  <2>3. CASE w.row \in Conns
    <3>1. conn'[w.row] = conn[w.row]
      BY <1>8, <2>2, <2>3
    <3>2. Sends(conn'[w.row]) = Sends(conn[w.row])
      BY <3>1
    <3>3. Accepts(w.row, w.sends)' <=> Accepts(w.row, w.sends)
      BY <1>1 DEF Accepts
    <3>4. QED BY <1>17, <1>18, <2>2, <3>1, <3>2, <3>3 DEF AskKept
  <2>4. CASE w.row = 0
    <3>1. ~(w.do \in {"test", "rotate", "disconnect"} /\ w.pc \in {"health", "probe", "write", "done"})
      BY <1>18, <2>4 DEF AskKept
    <3>2. QED BY <1>17, <1>18, <2>2, <2>4, <3>1 DEF AskKept
  <2>5. QED BY <2>1, <2>3, <2>4
<1>19. AsksKept'
  <2>1. AskKept(x)'
    BY <1>5, <1>6, <1>8, <1>11, ConnsAre DEF AskKept
  <2>2. QED BY <1>11, <1>18, <2>1, AsksAfter
<1>20. CrowdKept'
  <2> SUFFICES ASSUME ~crowded PROVE CrowdKept'
    BY <1>1 DEF CrowdKept
  <2>1. /\ Cardinality(Living) < planMax
        /\ \A u \in CoTabs : ask[u].do = "create" => u = t
    BY <1>1 DEF CoInv, CrowdKept, AskAt
  <2>2. Living \subseteq Conns /\ Living' \subseteq Conns
    BY DEF Living
  <2>3. Cardinality(Living') <= Cardinality(Living) + 1 /\ Cardinality(Living) \in Nat /\ Cardinality(Living') \in Nat
    BY <1>14, <2>2, LivingCounts
  <2>4. planMax \in Nat
    BY DEF CoInv, CoTyped, RestTyped
  <2>5. Cardinality(Living') <= planMax'
    BY <1>1, <2>1, <2>3, <2>4
  <2>6. \A u \in CoTabs : ask'[u].do = "create" => u = t
    BY <1>13, <2>1
  <2>7. \A u \in CoTabs : ~AskAt(u, "create", "insert")'
    BY <1>11, <1>13, <2>6 DEF AskAt
  <2>8. QED BY <2>5, <2>6, <2>7 DEF CrowdKept
<1>21. ProofKept'
  <2> SUFFICES ASSUME NEW d \in Conns \ unproved, conn'[d].ok \/ \E u \in CoTabs : Vouches(ask'[u], d) PROVE Sound(d)'
    BY <1>1 DEF ProofKept, Vouches
  <2>1. ASSUME NEW u \in CoTabs, Vouches(ask'[u], d) PROVE d # c /\ Vouches(ask[u], d)
    <3>1. u # t
      BY <1>11, <1>13, <2>1 DEF Vouches
    <3>2. Vouches(ask[u], d)
      BY <1>13, <2>1, <3>1
    <3>3. ask[u].row # c
      BY <1>18, AskKnown
    <3>4. QED BY <3>2, <3>3 DEF Vouches
  <2>2. d # c
    BY <1>5, <1>6, <1>8, <2>1
  <2>3. conn[d].ok \/ \E u \in CoTabs : Vouches(ask[u], d)
    BY <1>8, <2>1, <2>2
  <2>4. Sound(d)
    BY <2>3 DEF CoInv, ProofKept
  <2>5. QED BY <1>1, <1>8, <2>2, <2>4 DEF Sound
<1>22. TabsKept'
  <2> SUFFICES ASSUME t \notin upset' PROVE TabKept(settings[t], ask[t])'
    BY <1>1 DEF TabsKept
  <2>1. x.row = Newest' /\ ~conn'[Newest'].ok /\ ~conn'[Newest'].banned
    BY <1>5, <1>6, <1>8, <1>11, <1>15
  <2>2. x.do = "create" /\ x.pc \in {"done", "failed"}
    BY <1>11
  <2>3. QED BY <1>13, <2>1, <2>2 DEF TabKept
<1>23. ViewsKept'
  <2>1. \A d \in Conns : conn[d].state # "none" => conn'[d].state # "none" /\ conn'[d].secret >= conn[d].secret
    BY <1>4, <1>8 DEF CoInv, CoTyped, ConnTyped, CoRow
  <2>2. \A u \in CoTabs : ask'[u].pc # "" => ask[u].pc # ""
    BY <1>1, <1>13
  <2>3. QED BY <1>1, <1>8, <2>1, <2>2, ViewsAfter
<1>24. ShopTyped' /\ ViewTyped' /\ RestTyped'
  BY <1>1, <1>12 DEF CoInv, CoTyped, ShopTyped, ViewTyped, RestTyped
<1>25. QED BY <1>8, <1>13, <1>16, <1>19, <1>20, <1>21, <1>22, <1>23, <1>24 DEF CoInv, CoTyped


-----------------------------------------------------------------------------
(* What disturbs tests, step by step.                                        *)

\* x is the request y after something happened to connection c.
Calmed(x, y, c) ==
  /\ x.do = y.do /\ x.pc = y.pc /\ x.row = y.row /\ x.sends = y.sends /\ x.ok = y.ok /\ x.despite = y.despite
  /\ y.row = c => ~x.calm
  /\ y.row # c => x = y

LEMMA DisturbedIs ==
  ASSUME CoInv, NEW c \in Conns
  PROVE  /\ Disturbed(c, ask) \in [CoTabs -> CoAsk]
         /\ \A u \in CoTabs : Calmed(Disturbed(c, ask)[u], ask[u], c)
<1> DEFINE no == FALSE
           A == [u \in CoTabs |-> IF ask[u].row = c THEN [ask[u] EXCEPT !.calm = no] ELSE ask[u]]
<1>1. no \in BOOLEAN /\ ~no
  OBVIOUS
<1>2. Disturbed(c, ask) = A
  BY DEF Disturbed
<1> HIDE DEF no
<1>3. ASSUME NEW u \in CoTabs PROVE A[u] \in CoAsk /\ Calmed(A[u], ask[u], c)
  <2>1. PICK y \in CoAsk : y = ask[u]
    BY AskKnown
  <2>2. CASE y.row # c
    BY <2>1, <2>2 DEF Calmed
  <2>3. CASE y.row = c
    <3> DEFINE x == [y EXCEPT !.calm = no]
    <3>1. /\ x \in CoAsk /\ x.do = y.do /\ x.pc = y.pc /\ x.row = y.row /\ x.sends = y.sends /\ x.ok = y.ok
          /\ x.despite = y.despite /\ x.calm = no
      BY <1>1 DEF CoAsk
    <3>2. A[u] = x
      BY <2>1, <2>3
    <3> HIDE DEF x, A
    <3>3. QED BY <1>1, <2>1, <2>3, <3>1, <3>2 DEF Calmed
  <2>4. QED BY <2>2, <2>3
<1>4. QED BY <1>2, <1>3

\* The requests and the proofs after that: but for those that this step is of.
LEMMA DisturbKeeps ==
  ASSUME CoInv, NEW c \in Conns, ConnTyped', ShopTyped', AskTyped',
         \A d \in Conns \ {c} : conn'[d] = conn[d] /\ shop'[d] = shop[d],
         conn'[c].state = conn[c].state, conn'[c].banned = conn[c].banned, conn'[c].secret >= conn[c].secret,
         unproved' = unproved \union {c},
         \A u \in CoTabs : Calmed(ask'[u], ask[u], c) \/ (AskKept(ask[u])' /\ ask'[u].do # "test")
  PROVE  AsksKept' /\ ProofKept'
<1>1. Banned' = Banned
  BY DEF Banned
<1>2. AsksKept'
  <2> SUFFICES ASSUME NEW u \in CoTabs PROVE AskKept(ask[u])'
    BY DEF AsksKept
  <2>1. CASE ~Calmed(ask'[u], ask[u], c)
    BY <2>1
  <2>2. CASE Calmed(ask'[u], ask[u], c)
    <3>1. PICK x \in CoAsk, y \in CoAsk : x = ask'[u] /\ y = ask[u]
      BY AskKnown DEF AskTyped
    <3>2. AskKept(y) /\ Calmed(x, y, c)
      BY <2>2, <3>1, AskKnown
    <3>3. y.row = 0 \/ y.row \in Conns
      BY ConnsAre DEF CoAsk
    <3>4. AskKept(x)'
      <4>1. CASE y.row = c
        <5>1. /\ x.do = y.do /\ x.pc = y.pc /\ x.row = c /\ x.sends = y.sends /\ x.despite = y.despite /\ ~x.calm
              /\ c # 0
          BY <3>2, <4>1, ConnsAre DEF Calmed
        <5>2. x.do = "rotate" /\ x.pc \in {"write", "done"} => \E s \in 1..conn'[c].secret : x.sends = {s}
          <6>1. 1..conn[c].secret \subseteq 1..conn'[c].secret
            BY DEF CoInv, CoTyped, ConnTyped, CoRow
          <6>2. QED BY <3>2, <4>1, <5>1, <6>1 DEF AskKept
        <5>3. QED BY <1>1, <3>2, <4>1, <5>1, <5>2 DEF AskKept
      <4>2. CASE y.row # c /\ y.row \in Conns
        <5>1. x = y /\ conn'[x.row] = conn[x.row] /\ shop'[x.row] = shop[x.row]
          BY <3>2, <4>2 DEF Calmed
        <5>2. Sends(conn'[x.row]) = Sends(conn[x.row]) /\ (Accepts(x.row, x.sends)' <=> Accepts(x.row, x.sends))
          BY <5>1 DEF Accepts
        <5>3. QED BY <1>1, <3>2, <5>1, <5>2 DEF AskKept
      <4>3. CASE y.row = 0
        <5>1. x = y
          BY <3>2, <4>3, ConnsAre DEF Calmed
        <5>2. ~(x.do \in {"test", "rotate", "disconnect"} /\ x.pc \in {"health", "probe", "write", "done"})
          BY <3>2, <4>3, <5>1 DEF AskKept
        <5>3. QED BY <1>1, <3>2, <4>3, <5>1, <5>2 DEF AskKept
      <4>4. QED BY <3>3, <4>1, <4>2, <4>3
    <3>5. QED BY <3>1, <3>4 DEF AskKept
  <2>3. QED BY <2>1, <2>2
<1>3. ProofKept'
  <2> SUFFICES ASSUME NEW d \in Conns \ unproved', conn'[d].ok \/ \E u \in CoTabs : Vouches(ask'[u], d) PROVE Sound(d)'
    BY DEF ProofKept, Vouches
  <2>1. d \in Conns \ unproved /\ d # c /\ conn'[d] = conn[d] /\ shop'[d] = shop[d]
    OBVIOUS
  <2>2. ASSUME NEW u \in CoTabs, Vouches(ask'[u], d) PROVE Vouches(ask[u], d)
    <3>1. Calmed(ask'[u], ask[u], c)
      BY <2>2 DEF Vouches
    <3>2. ask[u].row = d
      BY <2>2, <3>1 DEF Vouches, Calmed
    <3>3. ask'[u] = ask[u]
      BY <2>1, <3>1, <3>2 DEF Calmed
    <3>4. QED BY <2>2, <3>3
  <2>3. Sound(d)
    BY <2>1, <2>2 DEF CoInv, ProofKept
  <2>4. QED BY <2>1, <2>3 DEF Sound
<1>4. QED BY <1>2, <1>3

\* The pages, and whatever else, after that.
LEMMA CalmKeeps ==
  ASSUME CoInv, NEW c \in Conns, ConnTyped', ShopTyped', AskTyped',
         \A d \in Conns \ {c} : conn'[d] = conn[d] /\ shop'[d] = shop[d],
         conn'[c].state = conn[c].state, conn'[c].banned = conn[c].banned, conn'[c].ok = conn[c].ok,
         conn'[c].secret = conn[c].secret, unproved' = unproved \union {c},
         \A u \in CoTabs : Calmed(ask'[u], ask[u], c),
         UNCHANGED <<planMax, settings, panel, crossed, crowded, upset>>, coLeft' \in [CoEvents -> Nat], RowsKept'
  PROVE  CoInv'
<1>1. conn[c].secret \in Nat
  BY DEF CoInv, CoTyped, ConnTyped, CoRow
<1>2. AsksKept' /\ ProofKept'
  BY <1>1, DisturbKeeps
<1>3. Living' = Living
  BY DEF Living
<1>4. CrowdKept'
  <2>1. \A u \in CoTabs : /\ ask'[u].do = "create" => ask[u].do = "create"
                          /\ ask'[u].do = "create" /\ ask'[u].pc = "insert" => ask[u].pc = "insert"
    BY DEF Calmed
  <2>2. QED BY <1>3, <2>1, CrowdAfter
<1>5. Newest' = Newest
  BY <1>3, NewestStays
<1>6. TabsKept'
  <2> SUFFICES ASSUME NEW u \in CoTabs \ upset PROVE TabKept(settings[u], ask[u])'
    BY DEF TabsKept
  <2>1. TabKept(settings[u], ask[u])
    BY AskKnown
  <2>2. ask'[u].pc = ask[u].pc /\ ask'[u].do = ask[u].do /\ ask'[u].row = ask[u].row /\ ask'[u].ok = ask[u].ok
    BY DEF Calmed
  <2>3. Newest # 0 => conn'[Newest].ok = conn[Newest].ok /\ conn'[Newest].banned = conn[Newest].banned
    BY NewestIs, ConnsAre
  <2>4. CASE Newest # 0
    BY <1>5, <2>1, <2>2, <2>3, <2>4 DEF TabKept, Shows
  <2>5. CASE Newest = 0
    <3>1. ask[u].row = Newest => ~(ask[u].do \in {"test", "rotate", "disconnect"} /\ ask[u].pc \in {"health", "probe", "write", "done"})
      BY <2>5, AskKnown DEF AskKept
    <3>2. ask[u].do = "create" /\ ask[u].pc = "done" => ask[u].row # 0
      BY AskKnown DEF AskKept
    <3>3. ask[u].do = "test" /\ ask[u].pc = "done" => ask[u].row # 0
      BY AskKnown DEF AskKept
    <3>5. QED BY <1>5, <2>1, <2>2, <2>5, <3>1, <3>2, <3>3 DEF TabKept, Shows
  <2>6. QED BY <2>4, <2>5
<1>7. ViewsKept'
  <2>1. \A d \in Conns : conn[d].state # "none" => conn'[d].state # "none" /\ conn'[d].secret >= conn[d].secret
    BY DEF CoInv, CoTyped, ConnTyped, CoRow
  <2>2. \A u \in CoTabs : ask'[u].pc # "" => ask[u].pc # ""
    BY DEF Calmed
  <2>3. QED BY <2>1, <2>2, ViewsAfter
<1>8. ViewTyped' /\ RestTyped'
  BY DEF CoInv, CoTyped, ViewTyped, RestTyped
<1>9. QED BY <1>2, <1>4, <1>6, <1>7, <1>8 DEF CoInv, CoTyped


\* A row gets the values of another one but for some fields.
LEMMA RowsAre == ASSUME CoInv, NEW c \in Conns PROVE conn[c] \in CoRow /\ shop[c] \in CoShop
  BY DEF CoInv, CoTyped, ConnTyped, ShopTyped

LEMMA ShopMoves ==
  ASSUME CoInv, NEW c \in Conns, NEW new \in CoShop, shop' = [shop EXCEPT ![c] = new], UNCHANGED <<conn, crossed>>,
         new.secret <= conn[c].secret, conn[c].state # "none"
  PROVE  ShopTyped' /\ RowsKept' /\ \A d \in Conns \ {c} : shop'[d] = shop[d]
<1>1. ShopTyped' /\ shop'[c] = new /\ \A d \in Conns \ {c} : shop'[d] = shop[d]
  BY DEF CoInv, CoTyped, ShopTyped
<1>2. RowsKept'
  <2> SUFFICES ASSUME NEW d \in Conns
               PROVE  /\ conn[d].state = "none" =>
                           ~conn[d].banned /\ ~conn[d].ok /\ ~conn[d].window /\ shop'[d].secret = 0
                      /\ conn[d].state # "none" => conn[d].secret > 0 /\ \A e \in Conns : e < d => conn[e].state # "none"
                      /\ conn[d].despite = {}
                      /\ conn[d].window /\ d \notin crossed => conn[d].previous = conn[d].secret - 1
                      /\ conn[d].previous <= conn[d].secret /\ shop'[d].secret <= conn[d].secret
    BY DEF RowsKept
  <2>1. CASE d = c
    BY <1>1, <2>1 DEF CoInv, RowsKept
  <2>2. CASE d # c
    BY <1>1, <2>2 DEF CoInv, RowsKept
  <2>3. QED BY <2>1, <2>2
<1>3. QED BY <1>1, <1>2

LEMMA TakeUpSecretKeeps ==
  ASSUME CoInv, NEW t \in CoTabs, TakeUpSecret(t)
  PROVE  CoInv'
<1>1. settings[t] \in CoView /\ settings[t].secret # 0
  BY DEF TakeUpSecret, CoInv, CoTyped, ViewTyped
<1>2. /\ settings[t].row # 0 /\ conn[settings[t].row].state # "none"
      /\ settings[t].secret <= conn[settings[t].row].secret
  BY <1>1 DEF CoInv, ViewsKept
<1>3. PICK c \in Conns : c = settings[t].row
  BY <1>1, <1>2, ConnsAre DEF CoView
<1>4. PICK s \in Nat : s = settings[t].secret
  BY <1>1 DEF CoView
<1>5. /\ shop' = [shop EXCEPT ![c].secret = s] /\ CoUses("shop")
      /\ unproved' = unproved \union {c} /\ ask' = Disturbed(c, ask)
      /\ UNCHANGED <<planMax, conn, settings, panel, crossed, crowded, upset>>
  BY <1>3, <1>4 DEF TakeUpSecret
<1>6. coLeft' \in [CoEvents -> Nat]
  BY <1>5, CoUsesType DEF CoEvents
<1>7. PICK old \in CoShop : old = shop[c]
  BY RowsAre
<1> DEFINE y == [old EXCEPT !.secret = s]
<1>8. y \in CoShop /\ y.secret = s
  BY DEF CoShop
<1> HIDE DEF y
<1>9. PICK new \in CoShop : new = y
  BY <1>8
<1>10. shop' = [shop EXCEPT ![c] = new]
  BY <1>5, <1>7, <1>9 DEF y
<1>11. ShopTyped' /\ RowsKept' /\ \A d \in Conns \ {c} : shop'[d] = shop[d]
  <2>1. new.secret <= conn[c].secret /\ conn[c].state # "none"
    BY <1>2, <1>3, <1>4, <1>8, <1>9
  <2>2. UNCHANGED <<conn, crossed>>
    BY <1>5
  <2>3. QED BY <1>10, <2>1, <2>2, ShopMoves
<1>12. AskTyped' /\ \A u \in CoTabs : Calmed(ask'[u], ask[u], c)
  BY <1>5, DisturbedIs DEF AskTyped
<1>13. ConnTyped'
  BY <1>5 DEF CoInv, CoTyped, ConnTyped
<1>14. QED BY <1>5, <1>6, <1>11, <1>12, <1>13, CalmKeeps

LEMMA ShopChecksKeeps ==
  ASSUME CoInv, NEW c \in Conns, ShopChecks(c)
  PROVE  CoInv'
<1>1. /\ conn[c].state = "live" /\ CoUses("shop") /\ shop' = [shop EXCEPT ![c].checks = ~@]
      /\ unproved' = unproved \union {c} /\ ask' = Disturbed(c, ask)
      /\ UNCHANGED <<planMax, conn, settings, panel, crossed, crowded, upset>>
  BY DEF ShopChecks
<1>2. coLeft' \in [CoEvents -> Nat]
  BY <1>1, CoUsesType DEF CoEvents
<1>3. PICK old \in CoShop : old = shop[c]
  BY RowsAre
<1>4. PICK b \in BOOLEAN : b = ~old.checks
  OBVIOUS
<1> DEFINE y == [old EXCEPT !.checks = b]
<1>5. y \in CoShop /\ y.secret = old.secret
  BY DEF CoShop
<1> HIDE DEF y
<1>6. PICK new \in CoShop : new = y
  BY <1>5
<1>7. shop' = [shop EXCEPT ![c] = new]
  BY <1>1, <1>3, <1>4, <1>6 DEF y
<1>8. new.secret <= conn[c].secret
  BY <1>3, <1>5, <1>6 DEF CoInv, RowsKept
<1>9. ShopTyped' /\ RowsKept' /\ \A d \in Conns \ {c} : shop'[d] = shop[d]
  BY <1>1, <1>7, <1>8, ShopMoves
<1>10. AskTyped' /\ \A u \in CoTabs : Calmed(ask'[u], ask[u], c)
  BY <1>1, DisturbedIs DEF AskTyped
<1>11. ConnTyped'
  BY <1>1 DEF CoInv, CoTyped, ConnTyped
<1>12. QED BY <1>1, <1>2, <1>9, <1>10, <1>11, CalmKeeps

LEMMA WindowEndsKeeps ==
  ASSUME CoInv, NEW c \in Conns, WindowEnds(c)
  PROVE  CoInv'
<1>1. /\ conn[c].window /\ conn' = [conn EXCEPT ![c].window = FALSE]
      /\ unproved' = unproved \union {c} /\ ask' = Disturbed(c, ask)
      /\ UNCHANGED <<planMax, shop, settings, panel, crossed, crowded, upset, coLeft>>
  BY DEF WindowEnds
<1>2. PICK old \in CoRow : old = conn[c]
  BY RowsAre
<1>3. PICK no \in BOOLEAN : no = FALSE
  OBVIOUS
<1> DEFINE y == [old EXCEPT !.window = no]
<1>4. /\ y \in CoRow /\ y.state = old.state /\ y.banned = old.banned /\ y.ok = old.ok /\ y.secret = old.secret
      /\ y.previous = old.previous /\ y.despite = old.despite /\ y.window = no
  BY DEF CoRow
<1> HIDE DEF y
<1>5. PICK new \in CoRow : new = y
  BY <1>4
<1>6. conn' = [conn EXCEPT ![c] = new]
  BY <1>1, <1>2, <1>3, <1>5 DEF y
<1>7. ConnTyped' /\ conn'[c] = new /\ \A d \in Conns \ {c} : conn'[d] = conn[d]
  BY <1>6, RowMoves
<1>8. RowsKept'
  <2> SUFFICES ASSUME NEW d \in Conns
               PROVE  /\ conn'[d].state = "none" =>
                           ~conn'[d].banned /\ ~conn'[d].ok /\ ~conn'[d].window /\ shop'[d].secret = 0
                      /\ conn'[d].state # "none" => conn'[d].secret > 0 /\ \A e \in Conns : e < d => conn'[e].state # "none"
                      /\ conn'[d].despite = {}
                      /\ conn'[d].window /\ d \notin crossed' => conn'[d].previous = conn'[d].secret - 1
                      /\ conn'[d].previous <= conn'[d].secret /\ shop'[d].secret <= conn'[d].secret
    BY DEF RowsKept
  <2>1. \A e \in Conns : conn'[e].state = conn[e].state
    BY <1>2, <1>4, <1>5, <1>7
  <2>2. CASE d = c
    <3>1. ~conn'[d].window /\ conn[d].state # "none"
      BY <1>1, <1>3, <1>4, <1>5, <1>7, <2>2 DEF CoInv, RowsKept
    <3>2. /\ conn'[d].secret = conn[d].secret /\ conn'[d].previous = conn[d].previous
          /\ conn'[d].despite = conn[d].despite /\ shop'[d] = shop[d]
      BY <1>1, <1>2, <1>4, <1>5, <1>7, <2>2
    <3>3. QED BY <2>1, <3>1, <3>2 DEF CoInv, RowsKept
  <2>3. CASE d # c
    <3>1. conn'[d] = conn[d] /\ shop'[d] = shop[d] /\ crossed' = crossed
      BY <1>1, <1>7, <2>3
    <3>2. QED BY <2>1, <3>1 DEF CoInv, RowsKept
  <2>4. QED BY <2>2, <2>3
<1>9. AskTyped' /\ \A u \in CoTabs : Calmed(ask'[u], ask[u], c)
  BY <1>1, DisturbedIs DEF AskTyped
<1>10. ShopTyped'
  BY <1>1 DEF CoInv, CoTyped, ShopTyped
<1>11. coLeft' \in [CoEvents -> Nat]
  BY <1>1 DEF CoInv, CoTyped, RestTyped
<1>12. /\ conn'[c].state = conn[c].state /\ conn'[c].banned = conn[c].banned /\ conn'[c].ok = conn[c].ok
       /\ conn'[c].secret = conn[c].secret
  BY <1>2, <1>4, <1>5, <1>7
<1>13. \A d \in Conns \ {c} : conn'[d] = conn[d] /\ shop'[d] = shop[d]
  BY <1>1, <1>7
<1>14. QED BY <1>1, <1>7, <1>8, <1>9, <1>10, <1>11, <1>12, <1>13, CalmKeeps

\* The super owner suspends and resumes: every page is left behind.
LEMMA BanKeeps ==
  ASSUME CoInv, ConnTyped', AskTyped',
         \A d \in Conns : /\ conn'[d].state = conn[d].state /\ conn'[d].ok = conn[d].ok
                          /\ conn'[d].secret = conn[d].secret /\ conn'[d].previous = conn[d].previous
                          /\ conn'[d].window = conn[d].window /\ conn'[d].despite = conn[d].despite
                          /\ conn[d].state = "none" => ~conn'[d].banned,
         \A u \in CoTabs : /\ ask'[u].do = ask[u].do /\ ask'[u].pc = ask[u].pc /\ ask'[u].row = ask[u].row
                           /\ ask'[u].sends = ask[u].sends /\ ask'[u].ok = ask[u].ok /\ ask'[u].calm = ask[u].calm
                           /\ ask'[u].despite \subseteq ask[u].despite /\ ask'[u].despite \subseteq Banned',
         upset' = CoTabs, UNCHANGED <<planMax, shop, settings, panel, unproved, crossed, crowded>>,
         coLeft' \in [CoEvents -> Nat]
  PROVE  CoInv'
<1>1. RowsKept'
  BY DEF CoInv, RowsKept
<1>2. \A d \in Conns : Sends(conn'[d]) = Sends(conn[d])
  BY DEF Sends
<1>3. AsksKept'
  <2> SUFFICES ASSUME NEW u \in CoTabs PROVE AskKept(ask[u])'
    BY DEF AsksKept
  <2>1. PICK x \in CoAsk, y \in CoAsk : x = ask'[u] /\ y = ask[u]
    BY AskKnown DEF AskTyped
  <2>2. /\ AskKept(y) /\ x.do = y.do /\ x.pc = y.pc /\ x.row = y.row /\ x.sends = y.sends /\ x.calm = y.calm
        /\ x.despite \subseteq y.despite /\ x.despite \subseteq Banned'
    BY <2>1, AskKnown
  <2>3. y.row = 0 \/ y.row \in Conns
    BY ConnsAre DEF CoAsk
  <2>4. AskKept(x)'
    <3>1. CASE y.row \in Conns
      <4>1. /\ conn'[x.row].state = conn[y.row].state /\ conn'[x.row].secret = conn[y.row].secret
            /\ Sends(conn'[x.row]) = Sends(conn[y.row])
        BY <1>2, <2>2, <3>1
      <4>2. Accepts(x.row, x.sends)' <=> Accepts(y.row, y.sends)
        BY <2>2 DEF Accepts
      <4>3. QED BY <2>2, <4>1, <4>2 DEF AskKept
    <3>2. CASE y.row = 0
      <4>1. ~(x.do \in {"test", "rotate", "disconnect"} /\ x.pc \in {"health", "probe", "write", "done"})
        BY <2>2, <3>2 DEF AskKept
      <4>2. QED BY <2>2, <3>2, <4>1 DEF AskKept
    <3>3. QED BY <2>3, <3>1, <3>2
  <2>5. QED BY <2>1, <2>4 DEF AskKept
<1>4. Living' = Living
  BY DEF Living
<1>5. CrowdKept'
  <2>1. \A u \in CoTabs : /\ ask'[u].do = "create" => ask[u].do = "create"
                          /\ ask'[u].do = "create" /\ ask'[u].pc = "insert" => ask[u].pc = "insert"
    OBVIOUS
  <2>2. QED BY <1>4, <2>1, CrowdAfter
<1>6. ProofKept'
  <2> SUFFICES ASSUME NEW d \in Conns \ unproved, conn'[d].ok \/ \E u \in CoTabs : Vouches(ask'[u], d) PROVE Sound(d)'
    BY DEF ProofKept, Vouches
  <2>1. conn[d].ok \/ \E u \in CoTabs : Vouches(ask[u], d)
    BY DEF Vouches
  <2>2. Sound(d)
    BY <2>1 DEF CoInv, ProofKept
  <2>3. QED BY <1>2, <2>2 DEF Sound
<1>7. TabsKept'
  BY DEF TabsKept
<1>8. ViewsKept'
  <2>1. \A d \in Conns : conn[d].state # "none" => conn'[d].state # "none" /\ conn'[d].secret >= conn[d].secret
    BY DEF CoInv, CoTyped, ConnTyped, CoRow
  <2>2. QED BY <2>1, ViewsAfter
<1>9. ShopTyped' /\ ViewTyped' /\ RestTyped'
  BY DEF CoInv, CoTyped, ShopTyped, ViewTyped, RestTyped
<1>10. QED BY <1>1, <1>3, <1>5, <1>6, <1>7, <1>8, <1>9 DEF CoInv, CoTyped

LEMMA SuspendKeeps ==
  ASSUME CoInv, NEW c \in Conns, Suspend(c)
  PROVE  CoInv'
<1>1. /\ conn[c].state # "none" /\ CoUses("bans") /\ conn' = [conn EXCEPT ![c].banned = TRUE] /\ upset' = CoTabs
      /\ UNCHANGED <<planMax, shop, settings, ask, panel, unproved, crossed, crowded>>
  BY DEF Suspend
<1>2. PICK old \in CoRow : old = conn[c]
  BY RowsAre
<1>3. PICK yes \in BOOLEAN : yes = TRUE
  OBVIOUS
<1> DEFINE y == [old EXCEPT !.banned = yes]
<1>4. /\ y \in CoRow /\ y.state = old.state /\ y.banned = yes /\ y.ok = old.ok /\ y.secret = old.secret
      /\ y.previous = old.previous /\ y.despite = old.despite /\ y.window = old.window
  BY DEF CoRow
<1> HIDE DEF y
<1>5. PICK new \in CoRow : new = y
  BY <1>4
<1>6. conn' = [conn EXCEPT ![c] = new]
  BY <1>1, <1>2, <1>3, <1>5 DEF y
<1>7. ConnTyped' /\ conn'[c] = new /\ \A d \in Conns \ {c} : conn'[d] = conn[d]
  BY <1>6, RowMoves
<1>8. coLeft' \in [CoEvents -> Nat]
  BY <1>1, CoUsesType DEF CoEvents
<1>9. AskTyped'
  BY <1>1 DEF CoInv, CoTyped, AskTyped
<1>10. Banned \subseteq Banned'
  BY <1>3, <1>4, <1>5, <1>7 DEF Banned
<1>11. \A u \in CoTabs : ask[u].despite \subseteq Banned'
  BY <1>10, AskKnown DEF AskKept
<1>12. \A d \in Conns : /\ conn'[d].state = conn[d].state /\ conn'[d].ok = conn[d].ok
                        /\ conn'[d].secret = conn[d].secret /\ conn'[d].previous = conn[d].previous
                        /\ conn'[d].window = conn[d].window /\ conn'[d].despite = conn[d].despite
                        /\ conn[d].state = "none" => ~conn'[d].banned
  <2> SUFFICES ASSUME NEW d \in Conns
               PROVE  /\ conn'[d].state = conn[d].state /\ conn'[d].ok = conn[d].ok
                      /\ conn'[d].secret = conn[d].secret /\ conn'[d].previous = conn[d].previous
                      /\ conn'[d].window = conn[d].window /\ conn'[d].despite = conn[d].despite
                      /\ conn[d].state = "none" => ~conn'[d].banned
    OBVIOUS
  <2>1. CASE d = c
    BY <1>1, <1>2, <1>4, <1>5, <1>7, <2>1
  <2>2. CASE d # c
    BY <1>7, <2>2 DEF CoInv, RowsKept
  <2>3. QED BY <2>1, <2>2
<1>13. QED BY <1>1, <1>7, <1>8, <1>9, <1>11, <1>12, BanKeeps

LEMMA ResumeKeeps ==
  ASSUME CoInv, NEW c \in Conns, Resume(c)
  PROVE  CoInv'
<1>1. /\ conn' = [d \in Conns |-> [conn[d] EXCEPT !.banned = @ /\ d # c]]
      /\ ask' = [t \in CoTabs |-> [ask[t] EXCEPT !.despite = @ \ {c}]] /\ upset' = CoTabs
      /\ UNCHANGED <<planMax, shop, settings, panel, unproved, crossed, crowded, coLeft>>
  BY DEF Resume
<1>2. ASSUME NEW d \in Conns
      PROVE  /\ conn'[d] \in CoRow /\ conn'[d].state = conn[d].state /\ conn'[d].ok = conn[d].ok
             /\ conn'[d].secret = conn[d].secret /\ conn'[d].previous = conn[d].previous
             /\ conn'[d].window = conn[d].window /\ conn'[d].despite = conn[d].despite
             /\ (conn'[d].banned <=> conn[d].banned /\ d # c)
  <2>1. PICK old \in CoRow : old = conn[d]
    BY RowsAre
  <2>2. PICK b \in BOOLEAN : b <=> (old.banned /\ d # c)
    <3>1. (old.banned /\ d # c) \in BOOLEAN
      OBVIOUS
    <3>2. QED BY <3>1
  <2> DEFINE y == [old EXCEPT !.banned = b]
  <2>3. /\ y \in CoRow /\ y.state = old.state /\ y.banned = b /\ y.ok = old.ok /\ y.secret = old.secret
        /\ y.previous = old.previous /\ y.despite = old.despite /\ y.window = old.window
    BY DEF CoRow
  <2>4. conn'[d] = y
    <3>1. conn'[d] = [old EXCEPT !.banned = old.banned /\ d # c]
      BY <1>1, <2>1
    <3>2. (old.banned /\ d # c) = b
      BY <2>2
    <3>3. QED BY <3>1, <3>2
  <2> HIDE DEF y
  <2>5. QED BY <2>1, <2>2, <2>3, <2>4
<1>3. ASSUME NEW u \in CoTabs
      PROVE  /\ ask'[u] \in CoAsk /\ ask'[u].do = ask[u].do /\ ask'[u].pc = ask[u].pc /\ ask'[u].row = ask[u].row
             /\ ask'[u].sends = ask[u].sends /\ ask'[u].ok = ask[u].ok /\ ask'[u].calm = ask[u].calm
             /\ ask'[u].despite = ask[u].despite \ {c}
  <2>1. PICK old \in CoAsk : old = ask[u]
    BY AskKnown
  <2>2. PICK D \in SUBSET Conns : D = old.despite \ {c}
    BY DEF CoAsk
  <2> DEFINE y == [old EXCEPT !.despite = D]
  <2>3. /\ y \in CoAsk /\ y.do = old.do /\ y.pc = old.pc /\ y.row = old.row /\ y.sends = old.sends
        /\ y.ok = old.ok /\ y.calm = old.calm /\ y.despite = D
    BY DEF CoAsk
  <2>4. ask'[u] = y
    BY <1>1, <2>1, <2>2
  <2> HIDE DEF y
  <2>5. QED BY <2>1, <2>2, <2>3, <2>4
<1>4. ConnTyped' /\ AskTyped'
  <2>1. conn' = [d \in Conns |-> conn'[d]] /\ ask' = [u \in CoTabs |-> ask'[u]]
    BY <1>1
  <2>2. QED BY <1>2, <1>3, <2>1 DEF ConnTyped, AskTyped
<1>5. Banned' = Banned \ {c}
  BY <1>2 DEF Banned
<1>6. \A u \in CoTabs : ask'[u].despite \subseteq ask[u].despite /\ ask'[u].despite \subseteq Banned'
  BY <1>3, <1>5, AskKnown DEF AskKept
<1>7. \A d \in Conns : conn[d].state = "none" => ~conn'[d].banned
  BY <1>2 DEF CoInv, RowsKept
<1>8. coLeft' \in [CoEvents -> Nat]
  BY <1>1 DEF CoInv, CoTyped, RestTyped
<1>9. QED BY <1>1, <1>2, <1>3, <1>4, <1>6, <1>7, <1>8, BanKeeps


-----------------------------------------------------------------------------
(* The rotation, and what reaches the pages, step by step.                   *)

LEMMA WriteRotateKeeps ==
  ASSUME CoInv, NEW t \in CoTabs, WriteRotate(t)
  PROVE  CoInv'
<1>1. /\ ask[t].do = "rotate" /\ ask[t].pc = "write" /\ upset' = upset \union (CoTabs \ {t})
      /\ UNCHANGED <<planMax, shop, settings, panel, crowded>>
  BY DEF WriteRotate, AskAt, OthersUpset
<1>2. PICK old \in CoAsk : old = ask[t]
  BY AskKnown
<1>3. PICK c \in Conns : c = old.row /\ conn[c].state # "none"
  BY <1>1, <1>2, AskKnown, ConnsAre DEF AskKept, CoAsk
<1>4. PICK row \in CoRow : row = conn[c]
  BY RowsAre
<1>5. PICK s \in 1..row.secret : old.sends = {s}
  BY <1>1, <1>2, <1>3, <1>4, AskKnown DEF AskKept
<1>6. row.secret \in Nat /\ s \in Nat /\ s <= row.secret
  BY <1>5 DEF CoRow
<1>7. PICK n \in Nat : n = row.secret + 1
  BY <1>6
<1>8. PICK yes \in BOOLEAN : yes = TRUE
  OBVIOUS
<1> DEFINE y == [row EXCEPT !.secret = n, !.previous = s, !.window = yes]
<1>9. /\ y \in CoRow /\ y.state = row.state /\ y.banned = row.banned /\ y.secret = n /\ y.previous = s
      /\ y.window = yes /\ y.despite = row.despite /\ y.ok = row.ok
  BY <1>6 DEF CoRow
<1>10. conn' = [conn EXCEPT ![c] = y]
  <2>1. conn' = [conn EXCEPT ![c] = Rotated(row, s)]
    BY <1>2, <1>3, <1>4, <1>5 DEF WriteRotate
  <2>2. Rotated(row, s) = y
    BY <1>7, <1>8 DEF Rotated
  <2>3. QED BY <2>1, <2>2
<1> HIDE DEF y
<1>11. PICK new \in CoRow : new = y
  BY <1>9
<1>12. ConnTyped' /\ conn'[c] = new /\ \A d \in Conns \ {c} : conn'[d] = conn[d]
  BY <1>10, <1>11, RowMoves
<1>13. /\ conn'[c].state = conn[c].state /\ conn'[c].banned = conn[c].banned /\ conn'[c].ok = conn[c].ok
       /\ conn'[c].secret = conn[c].secret + 1 /\ conn'[c].previous = s /\ conn'[c].despite = conn[c].despite
       /\ conn[c].secret \in Nat /\ s \in Nat /\ s <= conn[c].secret
  BY <1>4, <1>6, <1>7, <1>9, <1>11, <1>12
<1>14. crossed' = (IF conn[c].secret = s THEN crossed ELSE crossed \union {c}) /\ unproved' = unproved \union {c}
  BY <1>2, <1>3, <1>5 DEF WriteRotate
<1>15. RowsKept'
  <2> SUFFICES ASSUME NEW d \in Conns
               PROVE  /\ conn'[d].state = "none" =>
                           ~conn'[d].banned /\ ~conn'[d].ok /\ ~conn'[d].window /\ shop'[d].secret = 0
                      /\ conn'[d].state # "none" => conn'[d].secret > 0 /\ \A e \in Conns : e < d => conn'[e].state # "none"
                      /\ conn'[d].despite = {}
                      /\ conn'[d].window /\ d \notin crossed' => conn'[d].previous = conn'[d].secret - 1
                      /\ conn'[d].previous <= conn'[d].secret /\ shop'[d].secret <= conn'[d].secret
    BY DEF RowsKept
  <2>1. \A e \in Conns : conn'[e].state = conn[e].state
    BY <1>12, <1>13
  <2>2. CASE d = c
    <3>1. \A e \in Conns : e < c => conn[e].state # "none"
      BY <1>3 DEF CoInv, RowsKept
    <3>2. shop'[c].secret <= conn'[c].secret
      <4>1. shop[c].secret <= conn[c].secret /\ shop[c].secret \in Nat
        BY RowsAre DEF CoInv, RowsKept, CoShop
      <4>2. QED BY <1>1, <1>13, <4>1
    <3>3. conn'[c].despite = {}
      BY <1>13 DEF CoInv, RowsKept
    <3>4. c \notin crossed' => s = conn[c].secret
      BY <1>14
    <3>5. QED BY <1>3, <1>13, <2>1, <2>2, <3>1, <3>2, <3>3, <3>4
  <2>3. CASE d # c
    <3>1. conn'[d] = conn[d] /\ shop'[d] = shop[d] /\ (d \in crossed' <=> d \in crossed)
      BY <1>1, <1>12, <1>14, <2>3
    <3>2. QED BY <2>1, <3>1 DEF CoInv, RowsKept
  <2>4. QED BY <2>2, <2>3
<1>16. /\ Disturbed(c, ask) \in [CoTabs -> CoAsk]
       /\ \A u \in CoTabs : Calmed(Disturbed(c, ask)[u], ask[u], c)
  BY DisturbedIs
<1>17. PICK x \in CoAsk :
         /\ ask' = [Disturbed(c, ask) EXCEPT ![t] = x] /\ x.do = "rotate" /\ x.row = c /\ x.despite = old.despite
         /\ x.pc \in {"done", "failed"} /\ x.ok = old.ok /\ \E k \in 1..n : x.sends = {k}
  <2>1. CASE ask' = [Disturbed(c, ask) EXCEPT ![t] = [ask[t] EXCEPT !.pc = "done", !.sends = {conn'[c].secret}]]
    <3>1. PICK S \in SUBSET Nat : S = {n}
      OBVIOUS
    <3>2. PICK step \in AskSteps : step = "done"
      BY DEF AskSteps
    <3> DEFINE z == [old EXCEPT !.pc = step, !.sends = S]
    <3>3. /\ z \in CoAsk /\ z.do = old.do /\ z.pc = step /\ z.row = old.row /\ z.sends = S /\ z.ok = old.ok
          /\ z.despite = old.despite
      BY DEF CoAsk
    <3>4. ask' = [Disturbed(c, ask) EXCEPT ![t] = z]
      BY <1>2, <1>9, <1>11, <1>12, <2>1, <3>1, <3>2
    <3> HIDE DEF z
    <3>5. n \in 1..n
      BY <1>6, <1>7
    <3>6. QED BY <1>1, <1>2, <1>3, <3>1, <3>2, <3>3, <3>4, <3>5
  <2>2. CASE ask' = [Disturbed(c, ask) EXCEPT ![t].pc = "failed"]
    <3>1. PICK w \in CoAsk : w = Disturbed(c, ask)[t]
      BY <1>16
    <3>2. /\ w.do = old.do /\ w.row = old.row /\ w.sends = old.sends /\ w.ok = old.ok /\ w.despite = old.despite
      BY <1>2, <1>16, <3>1 DEF Calmed
    <3>3. PICK step \in AskSteps : step = "failed"
      BY DEF AskSteps
    <3> DEFINE z == [w EXCEPT !.pc = step]
    <3>4. /\ z \in CoAsk /\ z.do = w.do /\ z.pc = step /\ z.row = w.row /\ z.sends = w.sends /\ z.ok = w.ok
          /\ z.despite = w.despite
      BY DEF CoAsk
    <3>5. ask' = [Disturbed(c, ask) EXCEPT ![t] = z]
      BY <2>2, <3>1, <3>3
    <3> HIDE DEF z
    <3>6. s \in 1..n
      BY <1>5, <1>6, <1>7
    <3>7. QED BY <1>1, <1>2, <1>3, <1>5, <3>2, <3>3, <3>4, <3>5, <3>6
  <2>3. QED BY <1>2, <1>3, <2>1, <2>2 DEF WriteRotate
<1>18. /\ AskTyped' /\ ask'[t] = x /\ \A u \in CoTabs \ {t} : Calmed(ask'[u], ask[u], c)
  BY <1>16, <1>17 DEF AskTyped
<1>19. coLeft' \in [CoEvents -> Nat]
  BY <1>2, <1>3, CoUsesType, AskKnown DEF WriteRotate, CoEvents
<1>20. AskKept(ask[t])'
  <2>1. Banned' = Banned
    BY <1>12, <1>13 DEF Banned
  <2>2. x.despite \subseteq Banned
    BY <1>2, <1>17, AskKnown DEF AskKept
  <2>3. conn'[c].secret = n /\ c # 0 /\ conn'[c].state # "none"
    BY <1>3, <1>9, <1>11, <1>12, <1>13, ConnsAre
  <2>4. AskKept(x)'
    BY <1>17, <2>1, <2>2, <2>3 DEF AskKept
  <2>5. QED BY <1>18, <2>4 DEF AskKept
<1>21. ShopTyped'
  BY <1>1 DEF CoInv, CoTyped, ShopTyped
<1>22. AsksKept' /\ ProofKept'
  <2>1. \A d \in Conns \ {c} : conn'[d] = conn[d] /\ shop'[d] = shop[d]
    BY <1>1, <1>12
  <2>2. \A u \in CoTabs : Calmed(ask'[u], ask[u], c) \/ (AskKept(ask[u])' /\ ask'[u].do # "test")
    BY <1>17, <1>18, <1>20
  <2>3. conn'[c].secret >= conn[c].secret
    BY <1>13
  <2>4. /\ conn'[c].state = conn[c].state /\ conn'[c].banned = conn[c].banned /\ unproved' = unproved \union {c}
        /\ ConnTyped' /\ ShopTyped' /\ AskTyped'
    BY <1>12, <1>13, <1>14, <1>18, <1>21
  <2>5. QED BY <2>1, <2>2, <2>3, <2>4, DisturbKeeps
<1>23. Living' = Living
  BY <1>12, <1>13 DEF Living
<1>24. CrowdKept'
  <2>1. \A u \in CoTabs : /\ ask'[u].do = "create" => ask[u].do = "create"
                          /\ ask'[u].do = "create" /\ ask'[u].pc = "insert" => ask[u].pc = "insert"
    BY <1>17, <1>18 DEF Calmed
  <2>2. QED BY <1>1, <1>23, <2>1, CrowdAfter
<1>25. TabsKept'
  <2> SUFFICES ASSUME t \notin upset' PROVE TabKept(settings[t], ask[t])'
    BY <1>1 DEF TabsKept
  <2>1. TabKept(settings[t], old) /\ settings[t].loaded
    BY <1>1, <1>2, AskKnown DEF CoInv, ViewsKept
  <2>2. Shows(settings[t]) /\ c = Newest /\ old.ok = conn[Newest].ok
    BY <1>1, <1>2, <1>3, <2>1 DEF TabKept
  <2>3. Newest' = c
    BY <1>23, <2>2, NewestStays
  <2>4. x.ok = conn'[c].ok /\ settings'[t].banned = conn'[c].banned
    BY <1>1, <1>13, <1>17, <2>2, ConnsAre DEF Shows
  <2>5. QED BY <1>17, <1>18, <2>3, <2>4 DEF TabKept
<1>26. ViewsKept'
  <2>1. \A d \in Conns : conn[d].state # "none" => conn'[d].state # "none" /\ conn'[d].secret >= conn[d].secret
    <3>1. \A d \in Conns : conn[d].secret \in Nat
      BY RowsAre DEF CoRow
    <3>2. QED BY <1>12, <1>13, <3>1
  <2>2. \A u \in CoTabs : ask'[u].pc # "" => ask[u].pc # ""
    BY <1>1, <1>18 DEF Calmed
  <2>3. QED BY <1>1, <1>12, <2>1, <2>2, ViewsAfter
<1>27. ViewTyped'
  BY <1>1 DEF CoInv, CoTyped, ViewTyped
<1>28. RestTyped'
  BY <1>1, <1>14, <1>19 DEF CoInv, CoTyped, RestTyped
<1>29. QED BY <1>12, <1>15, <1>18, <1>21, <1>22, <1>24, <1>25, <1>26, <1>27, <1>28 DEF CoInv, CoTyped

\* A page shows something else, and its request, if there was one, is over.
LEMMA PageMoves ==
  ASSUME CoInv, NEW t \in CoTabs, NEW v \in CoView, settings' = [settings EXCEPT ![t] = v],
         ask' = [ask EXCEPT ![t] = NoAsk], UNCHANGED <<planMax, conn, shop, panel, unproved, crossed, crowded>>,
         coLeft' \in [CoEvents -> Nat], upset \ {t} \subseteq upset', upset' \subseteq CoTabs,
         v.loaded, t \in upset' \/ Shows(v),
         v.secret # 0 => v.row # 0 /\ conn[v.row].state # "none" /\ v.secret <= conn[v.row].secret
  PROVE  CoInv'
<1>1. PICK new \in CoAsk : new = NoAsk /\ new.do = "nothing" /\ new.pc = "" /\ new.row = 0 /\ new.despite = {}
  BY NoAskIs
<1>2. ask' = [ask EXCEPT ![t] = new]
  BY <1>1
<1>3. AskTyped' /\ ask'[t] = new /\ \A u \in CoTabs \ {t} : ask'[u] = ask[u]
  BY <1>2, AskMoves
<1>4. ViewTyped' /\ settings'[t] = v /\ \A u \in CoTabs \ {t} : settings'[u] = settings[u]
  BY DEF CoInv, CoTyped, ViewTyped
<1>5. ConnTyped' /\ ShopTyped' /\ RestTyped' /\ RowsKept'
  BY DEF CoInv, CoTyped, ConnTyped, ShopTyped, RestTyped, RowsKept
<1>6. AsksKept'
  <2> SUFFICES ASSUME NEW u \in CoTabs PROVE AskKept(ask[u])'
    BY DEF AsksKept
  <2>1. PICK x \in CoAsk : x = ask'[u]
    BY <1>3 DEF AskTyped
  <2>2. AskKept(x)
    <3>1. AskKept(new)
      BY <1>1 DEF AskKept
    <3>2. QED BY <1>3, <2>1, <3>1 DEF CoInv, AsksKept
  <2>3. AskKept(x)'
    BY <2>2, AskStays
  <2>4. QED BY <2>1, <2>3 DEF AskKept
<1>7. CrowdKept'
  BY <1>1, <1>2, CrowdStays
<1>8. ProofKept'
  <2>1. \A c \in Conns : ~Vouches(new, c)
    BY <1>1 DEF Vouches
  <2>2. QED BY <1>2, <2>1, ProofStays
<1>9. Newest' = Newest
  BY NewestStays DEF Living
<1>10. TabsKept'
  <2> SUFFICES ASSUME NEW u \in CoTabs \ upset' PROVE TabKept(settings[u], ask[u])'
    BY DEF TabsKept
  <2>1. CASE u = t
    <3>1. Shows(v)'
      BY <1>9, <2>1 DEF Shows
    <3>2. TabKept(v, new)'
      BY <1>1, <3>1 DEF TabKept
    <3>3. QED BY <1>3, <1>4, <2>1, <3>2 DEF TabKept, Shows
  <2>2. CASE u # t
    <3>1. TabKept(settings[u], ask[u])
      BY <2>2 DEF CoInv, TabsKept
    <3>2. QED BY <1>3, <1>4, <1>9, <2>2, <3>1 DEF TabKept, Shows
  <2>3. QED BY <2>1, <2>2
<1>11. ViewsKept'
  <2> SUFFICES ASSUME NEW u \in CoTabs
               PROVE  /\ ask'[u].pc # "" => settings'[u].loaded
                      /\ settings'[u].secret # 0 =>
                           settings'[u].row # 0 /\ conn'[settings'[u].row].state # "none"
                           /\ settings'[u].secret <= conn'[settings'[u].row].secret
    BY DEF ViewsKept
  <2>1. CASE u = t
    BY <1>4, <2>1
  <2>2. CASE u # t
    BY <1>3, <1>4, <2>2 DEF CoInv, ViewsKept
  <2>3. QED BY <2>1, <2>2
<1>12. QED BY <1>3, <1>4, <1>5, <1>6, <1>7, <1>8, <1>10, <1>11 DEF CoInv, CoTyped

LEMMA EmptyIs == Empty \in CoView /\ Empty.loaded /\ Empty.row = 0 /\ Empty.secret = 0
  BY ConnsAre DEF Empty, NoView, CoView

\* A page that is idle has no request.
LEMMA IdleStays == ASSUME CoInv, NEW t \in CoTabs, ask[t] = NoAsk, UNCHANGED ask PROVE ask' = [ask EXCEPT ![t] = NoAsk]
  BY DEF CoInv, CoTyped, AskTyped

LEMMA LoadsKeep ==
  ASSUME CoInv, NEW t \in CoTabs, LoadSettings(t) \/ LoadSettingsFails(t)
  PROVE  CoInv'
<1>1. CASE LoadSettings(t)
  <2>1. /\ ask[t] = NoAsk /\ upset' = upset \ {t} /\ coLeft' \in [CoEvents -> Nat]
        /\ UNCHANGED <<planMax, conn, shop, ask, panel, unproved, crossed, crowded>>
    BY <1>1, CoUsesType DEF LoadSettings, CoIdle, CoEvents
  <2>2. PICK N \in 0..MaxConns : N = Newest
    BY NewestIs
  <2>3. N # 0 => N \in Conns /\ conn[N] \in CoRow
    BY ConnsAre, RowsAre
  <2>4. (IF N = 0 THEN Empty ELSE ViewOf(N)) \in CoView
    BY <2>3, EmptyIs, ConnsAre DEF CoRow, CoView, ViewOf
  <2>5. PICK v \in CoView : v = IF N = 0 THEN Empty ELSE ViewOf(N)
    BY <2>4
  <2>6. v.loaded /\ v.secret = 0 /\ v.row = N
    BY <2>5, EmptyIs DEF ViewOf
  <2>7. Shows(v)
    BY <2>2, <2>5, <2>6 DEF Shows, ViewOf
  <2>8. settings' = [settings EXCEPT ![t] = v]
    BY <1>1, <2>2, <2>5 DEF LoadSettings
  <2>9. ask' = [ask EXCEPT ![t] = NoAsk]
    BY <2>1, IdleStays
  <2>10. upset \ {t} \subseteq upset' /\ upset' \subseteq CoTabs
    BY <2>1, AskKnown
  <2>11. QED BY <2>1, <2>6, <2>7, <2>8, <2>9, <2>10, PageMoves
<1>2. CASE LoadSettingsFails(t)
  <2>1. /\ ask[t] = NoAsk /\ upset' = upset \union {t} /\ coLeft' \in [CoEvents -> Nat]
        /\ UNCHANGED <<planMax, conn, shop, ask, panel, unproved, crossed, crowded>>
    BY <1>2, CoUsesType DEF LoadSettingsFails, CoIdle, CoEvents
  <2>2. PICK v \in CoView : v = Empty
    BY EmptyIs
  <2>3. settings' = [settings EXCEPT ![t] = v] /\ v.loaded /\ v.secret = 0
    BY <1>2, <2>2, EmptyIs DEF LoadSettingsFails
  <2>4. ask' = [ask EXCEPT ![t] = NoAsk]
    BY <2>1, IdleStays
  <2>5. upset \ {t} \subseteq upset' /\ upset' \subseteq CoTabs /\ t \in upset'
    BY <2>1, AskKnown
  <2>6. QED BY <2>1, <2>3, <2>4, <2>5, PageMoves
<1>3. QED BY <1>1, <1>2

\* What an answer makes of a page.
LEMMA AnswerShows ==
  ASSUME CoInv, NEW t \in CoTabs, LandAnswer(t)
  PROVE  \E v \in CoView :
           /\ settings' = [settings EXCEPT ![t] = v] /\ v.loaded /\ (t \in upset \/ Shows(v))
           /\ v.secret # 0 => v.row # 0 /\ conn[v.row].state # "none" /\ v.secret <= conn[v.row].secret
<1>1. PICK x \in CoAsk, old \in CoView : x = ask[t] /\ old = settings[t]
  BY AskKnown DEF CoInv, CoTyped, ViewTyped
<1>2. x.pc = "done" /\ AskKept(x) /\ (t \notin upset => TabKept(old, x)) /\ x.do # "nothing" /\ old.loaded
  BY <1>1, AskKnown DEF LandAnswer, AskKept, CoInv, ViewsKept
<1>3. CASE x.do = "create"
  <2> DEFINE v == [Empty EXCEPT !.row = x.row, !.secret = 1]
  <2>1. /\ v \in CoView /\ v.row = x.row /\ v.secret = 1 /\ v.loaded /\ ~v.ok /\ ~v.banned
    BY DEF Empty, NoView, CoView, CoAsk
  <2>2. settings' = [settings EXCEPT ![t] = v]
    BY <1>1, <1>3 DEF LandAnswer
  <2> HIDE DEF v
  <2>3. x.row # 0 /\ conn[x.row].state # "none"
    BY <1>2, <1>3 DEF AskKept
  <2>4. 1 <= conn[x.row].secret
    <3>1. x.row \in Conns
      BY <2>3, ConnsAre DEF CoAsk
    <3>2. QED BY <2>3, <3>1, RowsAre DEF CoInv, RowsKept, CoRow
  <2>5. t \in upset \/ Shows(v)
    <3> SUFFICES ASSUME t \notin upset PROVE Shows(v)
      OBVIOUS
    <3>1. x.row = Newest /\ ~conn[Newest].ok /\ ~conn[Newest].banned
      BY <1>2, <1>3 DEF TabKept
    <3>2. Newest \in Conns
      BY <2>3, <3>1, NewestIs, ConnsAre
    <3>3. conn[Newest].ok \in BOOLEAN /\ conn[Newest].banned \in BOOLEAN /\ v.ok \in BOOLEAN /\ v.banned \in BOOLEAN
      BY <2>1, <3>2, RowsAre DEF CoRow, CoView
    <3>4. conn[Newest].ok = v.ok /\ conn[Newest].banned = v.banned
      BY <2>1, <3>1, <3>3
    <3>5. QED BY <2>1, <3>1, <3>4 DEF Shows
  <2>6. QED BY <2>1, <2>2, <2>3, <2>4, <2>5
<1>4. CASE x.do = "rotate"
  <2>1. x.row # 0 /\ conn[x.row].state # "none"
    BY <1>2, <1>4 DEF AskKept
  <2>2. PICK s \in 1..conn[x.row].secret : x.sends = {s}
    BY <1>2, <1>4 DEF AskKept
  <2>3. s \in Nat /\ s <= conn[x.row].secret
    <3>1. x.row \in Conns
      BY <2>1, ConnsAre DEF CoAsk
    <3>2. QED BY <2>2, <3>1, RowsAre DEF CoRow
  <2> DEFINE v == [old EXCEPT !.row = x.row, !.ok = x.ok, !.secret = s]
  <2>4. /\ v \in CoView /\ v.row = x.row /\ v.secret = s /\ v.loaded /\ v.ok = x.ok /\ v.banned = old.banned
    BY <1>2, <2>3 DEF CoView, CoAsk
  <2>5. settings' = [settings EXCEPT ![t] = v]
    <3>1. Max(x.sends) = s
      BY <2>2, <2>3, MaxOfOne
    <3>2. QED BY <1>1, <1>4, <3>1 DEF LandAnswer
  <2> HIDE DEF v
  <2>6. t \in upset \/ Shows(v)
    BY <1>2, <1>4, <2>4 DEF TabKept, Shows
  <2>7. QED BY <2>1, <2>3, <2>4, <2>5, <2>6
<1>5. CASE x.do = "test"
  <2> DEFINE v == [old EXCEPT !.ok = x.ok]
  <2>1. /\ v \in CoView /\ v.row = old.row /\ v.secret = old.secret /\ v.loaded /\ v.ok = x.ok /\ v.banned = old.banned
    BY <1>2 DEF CoView, CoAsk
  <2>2. settings' = [settings EXCEPT ![t] = v]
    BY <1>1, <1>5 DEF LandAnswer
  <2> HIDE DEF v
  <2>3. t \in upset \/ Shows(v)
    BY <1>2, <1>5, <2>1 DEF TabKept, Shows
  <2>4. v.secret # 0 => v.row # 0 /\ conn[v.row].state # "none" /\ v.secret <= conn[v.row].secret
    BY <1>1, <2>1 DEF CoInv, ViewsKept
  <2>5. QED BY <2>1, <2>2, <2>3, <2>4
<1>6. CASE x.do = "disconnect"
  <2>1. PICK v \in CoView : v = Empty /\ v.loaded /\ v.row = 0 /\ v.secret = 0
    BY EmptyIs
  <2>2. settings' = [settings EXCEPT ![t] = v]
    BY <1>1, <1>6, <2>1 DEF LandAnswer
  <2>3. t \in upset \/ Shows(v)
    BY <1>2, <1>6, <2>1 DEF TabKept, Shows
  <2>4. QED BY <2>1, <2>2, <2>3
<1>7. QED BY <1>2, <1>3, <1>4, <1>5, <1>6 DEF CoAsk

LEMMA LandAnswerKeeps ==
  ASSUME CoInv, NEW t \in CoTabs, LandAnswer(t)
  PROVE  CoInv'
<1>1. PICK v \in CoView :
        /\ settings' = [settings EXCEPT ![t] = v] /\ v.loaded /\ (t \in upset \/ Shows(v))
        /\ v.secret # 0 => v.row # 0 /\ conn[v.row].state # "none" /\ v.secret <= conn[v.row].secret
  BY AnswerShows
<1>2. /\ ask' = [ask EXCEPT ![t] = NoAsk]
      /\ UNCHANGED <<planMax, conn, shop, panel, unproved, crossed, crowded, upset, coLeft>>
  BY DEF LandAnswer
<1>3. coLeft' \in [CoEvents -> Nat] /\ upset \ {t} \subseteq upset' /\ upset' \subseteq CoTabs
  BY <1>2, AskKnown
<1>4. t \in upset' \/ Shows(v)
  BY <1>1, <1>2
<1>5. QED BY <1>1, <1>2, <1>3, <1>4, PageMoves

-----------------------------------------------------------------------------
(* The connection invariants hold in every step.                             *)

\* What only the panel, or nothing, sees.
LEMMA PanelKeeps ==
  ASSUME CoInv, UNCHANGED <<planMax, conn, shop, settings, ask, unproved, crossed, crowded, upset>>,
         panel' \in {"hidden", "shown", "found", "refused"}, coLeft' \in [CoEvents -> Nat]
  PROVE  CoInv'
<1>1. CoTyped' /\ RowsKept' /\ ViewsKept'
  BY DEF CoInv, CoTyped, ConnTyped, ShopTyped, AskTyped, ViewTyped, RestTyped, RowsKept, ViewsKept
<1>2. Living' = Living /\ Newest' = Newest
  BY NewestStays DEF Living
<1>3. AsksKept'
  <2> SUFFICES ASSUME NEW u \in CoTabs PROVE AskKept(ask[u])'
    BY DEF AsksKept
  <2>1. PICK x \in CoAsk : x = ask[u] /\ AskKept(x)
    BY AskKnown
  <2>2. AskKept(x)'
    BY <2>1, AskStays
  <2>3. QED BY <2>1, <2>2 DEF AskKept
<1>4. CrowdKept'
  BY <1>2 DEF CoInv, CrowdKept, AskAt
<1>5. ProofKept'
  BY DEF CoInv, ProofKept, Sound, Vouches, Sends
<1>6. TabsKept'
  BY <1>2 DEF CoInv, TabsKept, TabKept, Shows
<1>7. QED BY <1>1, <1>3, <1>4, <1>5, <1>6 DEF CoInv

LEMMA ConnectionsStepKeeps == ASSUME CoInv, [CoNext]_coVars PROVE CoInv'
<1>0. coLeft \in [CoEvents -> Nat] /\ panel \in {"hidden", "shown", "found", "refused"}
  BY DEF CoInv, CoTyped, RestTyped
<1>1. CASE OpenPanel
  BY <1>1, CoUsesType, PanelKeeps DEF OpenPanel, CoEvents
<1>2. CASE Search
  BY <1>2, CoUsesType, PanelKeeps DEF Search, CoEvents
<1>3. ASSUME NEW t \in CoTabs,
             \/ LoadSettings(t) \/ LoadSettingsFails(t) \/ PressCreate(t) \/ PressTest(t) \/ PressRotate(t)
             \/ PressDisconnect(t)
      PROVE  CoInv'
  BY <1>3, LoadsKeep, PressesKeep
<1>4. ASSUME NEW t \in CoTabs,
             \/ CheckBans(t) \/ CountConns(t) \/ InsertConn(t) \/ ReadConn(t) \/ CallHealth(t) \/ CallBadlySigned(t)
      PROVE  CoInv'
  BY <1>4, CheckBansKeeps, CountConnsKeeps, InsertConnKeeps, ReadConnKeeps, CallHealthKeeps, CallBadlySignedKeeps
<1>5. ASSUME NEW t \in CoTabs,
             \/ WriteTest(t) \/ WriteRotate(t) \/ WriteDisconnect(t) \/ LandAnswer(t) \/ LandError(t) \/ TakeUpSecret(t)
      PROVE  CoInv'
  BY <1>5, WriteTestKeeps, WriteRotateKeeps, WriteDisconnectKeeps, LandAnswerKeeps, LandErrorKeeps, TakeUpSecretKeeps
<1>6. ASSUME NEW c \in Conns, ShopChecks(c) \/ WindowEnds(c) \/ Suspend(c) \/ Resume(c)
      PROVE  CoInv'
  BY <1>6, ShopChecksKeeps, WindowEndsKeeps, SuspendKeeps, ResumeKeeps
<1>7. CASE UNCHANGED coVars
  BY <1>0, <1>7, PanelKeeps DEF coVars
<1>8. QED BY <1>1, <1>2, <1>3, <1>4, <1>5, <1>6, <1>7 DEF CoNext

\* What the invariant says of types.
LEMMA CoTypesHold == ASSUME CoInv PROVE CoTypeOK
<1>1. /\ conn \in [Conns -> CoRow] /\ shop \in [Conns -> CoShop] /\ ask \in [CoTabs -> CoAsk]
      /\ settings \in [CoTabs -> CoView]
  BY DEF CoInv, CoTyped, ConnTyped, ShopTyped, AskTyped, ViewTyped
<1>2. \A c \in Conns :
        /\ conn[c].state \in {"none", "live", "gone"} /\ conn[c].secret \in Nat
        /\ conn[c].previous \in 0..conn[c].secret /\ conn[c].despite \subseteq Conns
        /\ shop[c].secret \in 0..conn[c].secret /\ shop[c].checks \in BOOLEAN
  BY <1>1 DEF CoRow, CoShop, CoInv, RowsKept
<1>3. \A t \in CoTabs :
        /\ ask[t].pc \in AskSteps /\ ask[t].row \in 0..MaxConns
        /\ settings[t].row \in 0..MaxConns
  BY <1>1 DEF CoAsk, CoView
<1>4. RestTyped
  BY DEF CoInv, CoTyped
<1>5. QED BY <1>2, <1>3, <1>4 DEF CoTypeOK, RestTyped

\* The properties follow from the invariant.
LEMMA ConnectionsFollow == ASSUME CoInv PROVE ConnectionHolds
<1>1. SuspensionStands
  BY DEF CoInv, RowsKept, SuspensionStands
<1>2. ConnectionsInPlan
  BY DEF CoInv, CrowdKept, ConnectionsInPlan
<1>3. HeldSecretWorks
  <2>1. \A c \in Conns : conn[c].secret \in Sends(conn[c])
    BY DEF Sends
  <2>2. \A c \in Conns : conn[c].window => conn[c].previous \in Sends(conn[c])
    BY DEF Sends
  <2>3. QED BY <2>1, <2>2 DEF CoInv, RowsKept, HeldSecretWorks
<1>4. VerifiedIsSound
  BY DEF CoInv, ProofKept, Sound, VerifiedIsSound, Accepts
<1>5. SettingsAreTrue
  <2> SUFFICES ASSUME NEW t \in CoTabs \ upset, ask[t] = NoAsk, settings[t].loaded
               PROVE  /\ settings[t].row = Newest
                      /\ Newest # 0 => settings[t].ok = conn[Newest].ok /\ settings[t].banned = conn[Newest].banned
    BY DEF SettingsAreTrue, CoIdle
  <2>1. Shows(settings[t])
    BY NoAskIs, AskKnown DEF TabKept
  <2>2. QED BY <2>1 DEF Shows
<1>6. QED BY <1>1, <1>2, <1>3, <1>4, <1>5 DEF ConnectionHolds

\* The connection of every tenant: a suspension stands, the plan's number is kept, the secret
\* that was handed out last works, a connection that passed its test is sound, and the page
\* shows what is (integrations.service.ts, connect-settings.tsx).
THEOREM ConnectionIsHeld == CoSpec => []ConnectionHolds
<1>1. CoInit => CoInv
  BY CoInitially
<1>2. CoInv /\ [CoNext]_coVars => CoInv'
  BY ConnectionsStepKeeps
<1>3. CoInv => ConnectionHolds
  BY ConnectionsFollow
<1>4. QED BY <1>1, <1>2, <1>3, PTL DEF CoSpec
=============================================================================
