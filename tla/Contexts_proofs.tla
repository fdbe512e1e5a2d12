---------------------------- MODULE Contexts_proofs ----------------------------
(***************************************************************************)
(* Proofs about devices and contexts, for any finite sets of threads and   *)
(* contexts and any devices: both reference counts are exact, nothing that *)
(* was freed is in use, and playback runs when it should.                  *)
(***************************************************************************)
EXTENDS Contexts, FiniteSetTheorems, TLAPS

Creating == {"create", "update", "link"}
Ending == {"destroy", "close", "barrier", "local", "global", "own", "stop", "last"}
OnDevice == {"device", "failed"} \cup Creating \cup Ending
OnContext == {"read", "wild", "ref", "lock", "locked", "destroy", "close",
              "barrier", "local", "global", "own"}

(* What was allocated.                                                      *)
BornInv ==
  /\ open \subseteq born
  /\ \A c \in Context : /\ c \in born => device[c] \in Device \cap born
                        /\ c \notin born => ref[c] = 0

(* The list of a device has its contexts, and is a chain: no context is the *)
(* next of two others, and none has the head as its next.                   *)
ListInv ==
  \A d \in Device :
    /\ \A c \in InList(d) : c \in born /\ device[c] = d /\ next[c] # head[d]
    /\ \A c, e \in InList(d) : next[c] = next[e] /\ next[c] # Null => c = e

(* What the locals of each place are, and who holds the list lock.          *)
PlaceInv ==
  \A t \in Thread :
    /\ pc[t] \in OnDevice => dev[t] \in Device \cap born
    /\ pc[t] \in OnContext => ctx[t] \in Context \cap born /\ dev[t] = device[ctx[t]]
    /\ pc[t] \in Creating \cup {"read", "destroy"} => ListLock = t
    /\ pc[t] \in Ending /\ dev[t] \in open => ListLock = t
    /\ pc[t] \in Creating \cup {"destroy"} => dev[t] \in open
    /\ pc[t] \in {"close", "last"} => dev[t] \notin open

(* One thread at a time takes contexts off a device's list.                 *)
EndOf(t) ==
  /\ pc[t] = "destroy" => ctx[t] \in InList(dev[t])
  /\ pc[t] = "close" => ctx[t] = head[dev[t]]
  /\ Unlinked(t) => \A d \in Device : ctx[t] \notin InList(d)
  /\ pc[t] = "stop" => head[dev[t]] = Null

EndInv ==
  /\ \A t, u \in Thread :
       pc[t] \in Ending /\ pc[u] \in Ending /\ dev[t] = dev[u] => t = u
  /\ \A t \in Thread : EndOf(t)

(* Where the mixer stands, and where it goes from a context taken off the   *)
(* list under it.                                                           *)
MixOf(d) ==
  Mutex[d] = Mixing =>
    /\ running[d]
    /\ mixer[d] # Null => \/ mixer[d] \in InList(d)
                          \/ \E t \in Thread : pc[t] = "barrier" /\ ctx[t] = mixer[d] /\ dev[t] = d

BarrierOf(t) == pc[t] = "barrier" => next[ctx[t]] \in InList(dev[t]) \cup {Null}

MixInv == (\A d \in Device : MixOf(d)) /\ (\A t \in Thread : BarrierOf(t))

(* Playback runs only for contexts, or under a call that will see to it.    *)
Sees(t) == pc[t] \in Creating \cup {"stop"} \/ Unlinked(t)
Closes(t) == pc[t] \in Ending \ {"last"}
Restarts(t) == pc[t] \in {"update", "failed"}

PlayOf(d) ==
  /\ running[d] => \/ head[d] # Null
                   \/ \E t \in Thread : dev[t] = d /\ Sees(t)
  /\ running[d] => d \in open \/ \E t \in Thread : dev[t] = d /\ Closes(t)
  /\ d \in open /\ Connected[d] /\ head[d] # Null =>
       running[d] \/ \E t \in Thread : dev[t] = d /\ Restarts(t)

LinkOf(t) == pc[t] = "link" => running[dev[t]]

PlayInv == (\A d \in Device : PlayOf(d)) /\ (\A t \in Thread : LinkOf(t))

(* The global current context is on its device's list until a call that     *)
(* took it off has cleared it; and so is the one a call has just read.      *)
GlobalOf(t) ==
  /\ pc[t] = "read" /\ dev[t] \in open => ctx[t] \in InList(dev[t])
  /\ pc[t] = "wild" => dev[t] \notin open

GlobalInv ==
  /\ GlobalContext # Null =>
       \/ GlobalContext \in InList(device[GlobalContext])
       \/ \E t \in Thread : pc[t] \in {"barrier", "local", "global"} /\ ctx[t] = GlobalContext
  /\ \A t \in Thread : GlobalOf(t)

IInv ==
  /\ TypeOK /\ BornInv /\ ListInv /\ PlaceInv /\ EndInv /\ MixInv /\ PlayInv /\ GlobalInv
  /\ ContextRefs /\ DeviceRefs

-----------------------------------------------------------------------------
(* The list that starts at h and goes on by n, and what the operations make *)
(* of it.  These facts are about values, so that they can be used for the   *)
(* state before and for the state after a step.                             *)

Links == [Context -> Context \cup {Null}]

Fol(h, n, S) == h \in S \cup {Null} /\ \A c \in S : n[c] \in S \cup {Null}

List(h, n) == {c \in Context : \A S \in SUBSET Context : Fol(h, n, S) => c \in S}

Chain(h, n) ==
  /\ \A c \in List(h, n) : n[c] # h
  /\ \A c, e \in List(h, n) : n[c] = n[e] /\ n[c] # Null => c = e

LEMMA ListOf ==
  ASSUME NEW d \in Device
  PROVE  InList(d) = List(head[d], next) /\ InList(d)' = List(head'[d], next')
BY DEF InList, Follows, List, Fol

LEMMA ListFollows ==
  ASSUME NEW h \in Context \cup {Null}, NEW n \in Links
  PROVE  List(h, n) \subseteq Context /\ Fol(h, n, List(h, n))
BY DEF List, Fol, Links

LEMMA ListLeast ==
  ASSUME NEW h, NEW n, NEW S \in SUBSET Context, Fol(h, n, S)
  PROVE  List(h, n) \subseteq S
BY DEF List

(* Only the next of the contexts on the list matter.                        *)
LEMMA ListSame ==
  ASSUME NEW h \in Context \cup {Null}, NEW n \in Links, NEW m \in Links,
         \A c \in List(h, n) : m[c] = n[c]
  PROVE  List(h, m) = List(h, n) /\ (Chain(h, n) => Chain(h, m))
<1> DEFINE L == List(h, n)
           M == List(h, m)
<1>1. L \subseteq Context /\ Fol(h, n, L) /\ M \subseteq Context /\ Fol(h, m, M)
  BY ListFollows
<1>2. M \subseteq L
  <2>1. Fol(h, m, L)
    BY <1>1 DEF Fol
  <2> QED
    BY <1>1, <2>1, ListLeast
<1>3. L \subseteq M
  <2>1. Fol(h, n, M)
    BY <1>1, <1>2 DEF Fol
  <2> QED
    BY <1>1, <2>1, ListLeast
<1> QED
  BY <1>2, <1>3 DEF Chain

(* A context is put in front ...                                            *)
LEMMA ListPush ==
  ASSUME NEW h \in Context \cup {Null}, NEW n \in Links, Chain(h, n),
         NEW c \in Context, c \notin List(h, n),
         NEW m \in Links, m[c] = h, \A x \in Context \ {c} : m[x] = n[x]
  PROVE  List(c, m) = List(h, n) \cup {c} /\ Chain(c, m)
<1> DEFINE L == List(h, n)
           M == List(c, m)
<1>1. L \subseteq Context /\ Fol(h, n, L) /\ M \subseteq Context /\ Fol(c, m, M) /\ c # Null
  BY ListFollows, NullAssumption
<1>2. m[c] = h /\ \A x \in L : m[x] = n[x]
  BY <1>1 DEF Links
<1> HIDE DEF L, M
<1>3. M \subseteq L \cup {c}
  <2>1. Fol(c, m, L \cup {c})
    BY <1>1, <1>2 DEF Fol
  <2> QED
    BY <1>1, <2>1, ListLeast DEF M
<1>4. L \subseteq M \ {c}
  <2>1. Fol(h, n, M \ {c})
    BY <1>1, <1>2, <1>3 DEF Fol, L
  <2> QED
    BY <1>1, <2>1, ListLeast DEF L
<1>5. M = L \cup {c}
  BY <1>1, <1>3, <1>4 DEF Fol
<1>6. Chain(c, m)
  <2>1. \A x \in M : m[x] # c
    BY <1>1, <1>2, <1>5 DEF Fol, L
  <2>2. ASSUME NEW x \in M, NEW y \in M, m[x] = m[y], m[x] # Null
        PROVE  x = y
    <3>1. \A z \in L : n[z] # h
      BY DEF Chain, L
    <3> QED
      BY <1>2, <1>5, <2>2, <3>1 DEF Chain, L
  <2> QED
    BY <2>1, <2>2 DEF Chain, M
<1> QED
  BY <1>5, <1>6 DEF L, M

(* ... the first is taken off ...                                           *)
LEMMA ListPop ==
  ASSUME NEW h \in Context, NEW n \in Links, Chain(h, n)
  PROVE  List(n[h], n) = List(h, n) \ {h} /\ Chain(n[h], n) /\ h \in List(h, n)
<1> DEFINE L == List(h, n)
           M == List(n[h], n)
<1>1. /\ L \subseteq Context /\ Fol(h, n, L) /\ h \in L /\ h # Null
      /\ n[h] \in Context \cup {Null}
  BY ListFollows, NullAssumption DEF Fol, Links
<1>2. M \subseteq Context /\ Fol(n[h], n, M)
  BY <1>1, ListFollows
<1>3. \A x \in L : n[x] # h
  BY DEF Chain
<1> HIDE DEF L, M
<1>4. M \subseteq L \ {h}
  <2>1. Fol(n[h], n, L \ {h})
    BY <1>1, <1>3 DEF Fol
  <2> QED
    BY <1>1, <2>1, ListLeast DEF M
<1>5. L \subseteq M \cup {h}
  <2>1. Fol(h, n, M \cup {h})
    BY <1>2 DEF Fol
  <2> QED
    BY <1>2, <2>1, ListLeast DEF L
<1>6. M = L \ {h}
  BY <1>1, <1>4, <1>5
<1>7. Chain(n[h], n)
  <2>1. ASSUME NEW x \in M
        PROVE  n[x] # n[h]
    <3>1. n[h] # Null
      <4>1. n[h] = Null => Fol(n[h], n, {})
        BY DEF Fol
      <4>2. n[h] = Null => M = {}
        BY <4>1, ListLeast DEF M
      <4> QED
        BY <4>2
    <3> QED
      BY <1>1, <1>6, <3>1 DEF Chain, L
  <2> QED
    BY <1>6, <2>1 DEF Chain, L, M
<1> QED
  BY <1>1, <1>6, <1>7 DEF L, M

(* ... or one behind it.                                                    *)
LEMMA ListCut ==
  ASSUME NEW h \in Context \cup {Null}, NEW n \in Links, Chain(h, n),
         NEW c \in List(h, n), c # h, NEW m \in Links,
         m = [x \in Context |-> IF n[x] = c /\ x \in List(h, n) THEN n[c] ELSE n[x]]
  PROVE  List(h, m) = List(h, n) \ {c} /\ Chain(h, m)
<1> DEFINE L == List(h, n)
           M == List(h, m)
<1>1. /\ L \subseteq Context /\ Fol(h, n, L) /\ M \subseteq Context /\ Fol(h, m, M)
      /\ c \in L /\ c # Null
  BY ListFollows, NullAssumption
<1>2. \A x \in L : m[x] = IF n[x] = c THEN n[c] ELSE n[x]
  BY <1>1
<1> HIDE DEF L, M
<1>3. /\ \A x \in L : n[x] # h
      /\ \A x, y \in L : n[x] = n[y] /\ n[x] # Null => x = y
  BY DEF Chain, L
<1>4. n[c] # c
  <2>1. n[c] = c => Fol(h, n, L \ {c})
    BY <1>1, <1>3 DEF Fol
  <2> QED
    BY <1>1, <2>1, ListLeast DEF L
<1>5. M \subseteq L \ {c}
  <2>1. Fol(h, m, L \ {c})
    BY <1>1, <1>2, <1>4 DEF Fol
  <2> QED
    BY <1>1, <2>1, ListLeast DEF M
<1>6. PICK p \in M : n[p] = c
  <2>1. (\A x \in M : n[x] # c) => Fol(h, n, M)
    BY <1>1, <1>2, <1>5 DEF Fol
  <2>2. ~ (L \subseteq M)
    BY <1>1, <1>5
  <2> QED
    BY <1>1, <2>1, <2>2, ListLeast DEF L
<1>7. L \subseteq M \cup {c}
  <2>1. n[c] \in M \cup {Null}
    BY <1>1, <1>2, <1>5, <1>6 DEF Fol
  <2>2. Fol(h, n, M \cup {c})
    BY <1>1, <1>2, <1>5, <2>1 DEF Fol
  <2> QED
    BY <1>1, <2>2, ListLeast DEF L
<1>8. M = L \ {c}
  BY <1>1, <1>5, <1>7
<1>9. Chain(h, m)
  <2>1. \A x \in M : m[x] # h
    BY <1>1, <1>2, <1>3, <1>8
  <2>2. \A x, y \in M : m[x] = m[y] /\ m[x] # Null => x = y
    BY <1>1, <1>2, <1>3, <1>8
  <2> QED
    BY <2>1, <2>2 DEF Chain, M
<1> QED
  BY <1>8, <1>9 DEF L, M

-----------------------------------------------------------------------------
(* What a step makes of the lists.                                          *)

Kept == UNCHANGED <<head, next>> /\ \A d \in Device : InList(d)' = InList(d)

Linked(t, c, d) ==
  /\ CreateLink(t, c) /\ dev[t] = d
  /\ InList(d)' = InList(d) \cup {c}
  /\ \A e \in Device : c \notin InList(e) /\ (e # d => InList(e)' = InList(e))

Cut(t, c, d) ==
  /\ Unlink(t) /\ ctx[t] = c /\ dev[t] = d
  /\ c \in InList(d) /\ InList(d)' = InList(d) \ {c}
  /\ \A e \in Device : e # d => c \notin InList(e) /\ InList(e)' = InList(e)
  /\ next'[c] = next[c] /\ next[c] \in InList(d)' \cup {Null}

LEMMA ListChain ==
  ASSUME IInv, NEW d \in Device
  PROVE  /\ head[d] \in Context \cup {Null} /\ next \in Links
         /\ InList(d) = List(head[d], next) /\ Chain(head[d], next)
         /\ InList(d) \subseteq Context /\ Fol(head[d], next, InList(d))
<1>1. head[d] \in Context \cup {Null} /\ next \in Links
  BY DEF IInv, TypeOK, Links
<1>2. InList(d) = List(head[d], next)
  BY ListOf
<1>3. Chain(head[d], next)
  BY <1>2 DEF Chain, IInv, ListInv
<1> QED
  BY <1>1, <1>2, <1>3, ListFollows

(* ListInv after the step, from the chains.                                 *)
LEMMA ChainsMake ==
  ASSUME \A d \in Device : Chain(head'[d], next'),
         \A d \in Device : \A c \in InList(d)' : c \in born' /\ device'[c] = d
  PROVE  ListInv'
<1>1. \A d \in Device : InList(d)' = List(head'[d], next')
  BY ListOf
<1> QED
  BY <1>1 DEF ListInv, Chain

LEMMA LinkStep ==
  ASSUME IInv, NEW t \in Thread, NEW c \in Context, CreateLink(t, c)
  PROVE  /\ head' \in [Device -> Context \cup {Null}] /\ next' \in Links
         /\ ListInv' /\ \E d \in Device : Linked(t, c, d)
<1>0. PICK e \in Device : e = dev[t]
  BY DEF CreateLink, IInv, PlaceInv, OnDevice, Creating
<1>1. c \notin born /\ c # Null
  BY NullAssumption DEF CreateLink
<1>2. /\ next' = [next EXCEPT ![c] = head[e]] /\ head' = [head EXCEPT ![e] = c]
      /\ head' \in [Device -> Context \cup {Null}] /\ next' \in Links
  BY <1>0, <1>1 DEF CreateLink, IInv, TypeOK, Links
<1>3. \A d \in Device : c \notin InList(d)
  BY <1>1 DEF IInv, ListInv
<1>4. InList(e)' = InList(e) \cup {c} /\ Chain(head'[e], next')
  <2>1. head'[e] = c /\ InList(e)' = List(c, next')
    BY <1>1, <1>2, ListOf DEF IInv, TypeOK
  <2>2. PICK h \in Context \cup {Null} : h = head[e]
    BY ListChain
  <2>3. /\ next \in Links /\ Chain(h, next) /\ c \notin List(h, next)
        /\ List(h, next) = InList(e)
    BY <1>3, <2>2, ListChain
  <2>4. PICK n \in Links, m \in Links : n = next /\ m = next'
    BY <1>2, <2>3
  <2>5. m[c] = h /\ (\A x \in Context \ {c} : m[x] = n[x]) /\ Chain(h, n) /\ c \notin List(h, n)
    BY <1>2, <2>2, <2>3, <2>4 DEF Links
  <2>6. List(c, m) = List(h, n) \cup {c} /\ Chain(c, m)
    BY <2>5, ListPush
  <2> QED
    BY <2>1, <2>3, <2>4, <2>6
<1>5. ASSUME NEW d \in Device, d # e
      PROVE  InList(d)' = InList(d) /\ Chain(head'[d], next')
  <2>1. head'[d] = head[d] /\ InList(d)' = List(head[d], next')
    BY <1>1, <1>2, <1>5, ListOf DEF IInv, TypeOK
  <2>2. \A x \in List(head[d], next) : next'[x] = next[x]
    BY <1>2, <1>3, ListChain
  <2> QED
    BY <1>2, <2>1, <2>2, ListChain, ListSame
<1>6. Linked(t, c, e)
  BY <1>0, <1>1, <1>3, <1>4, <1>5 DEF Linked
<1>7. \A d \in Device : \A x \in InList(d)' : x \in born' /\ device'[x] = d
  <2>1. born' = born \cup {c} /\ device' = [device EXCEPT ![c] = e]
    BY <1>0 DEF CreateLink
  <2> QED
    BY <1>1, <1>3, <1>4, <1>5, <2>1 DEF IInv, ListInv, TypeOK
<1>8. ListInv'
  BY <1>1, <1>4, <1>5, <1>7, ChainsMake
<1> QED
  BY <1>2, <1>6, <1>8

LEMMA CutStep ==
  ASSUME IInv, NEW t \in Thread, Unlink(t)
  PROVE  /\ head' \in [Device -> Context \cup {Null}] /\ next' \in Links
         /\ ListInv' /\ \E c \in Context, d \in Device : Cut(t, c, d)
<1>0. PICK e \in Device, c \in Context : e = dev[t] /\ c = ctx[t]
  BY DEF Unlink, IInv, PlaceInv, OnDevice, OnContext, Ending
<1>1. c # Null
  BY NullAssumption
<1>2. c \in InList(e)
  <2>1. pc[t] = "close" => head[e] \in InList(e)
    BY <1>0, <1>1, ListChain DEF Fol, IInv, EndInv, EndOf
  <2> QED
    BY <1>0, <2>1 DEF Unlink, IInv, EndInv, EndOf
<1>3. \A d \in Device : d # e => c \notin InList(d)
  BY <1>1, <1>2 DEF IInv, ListInv
<1>4. /\ head' \in [Device -> Context \cup {Null}] /\ next' \in Links
      /\ \A d \in Device : d # e => head'[d] = head[d]
      /\ \A x \in Context : x \notin InList(e) => next'[x] = next[x]
      /\ UNCHANGED <<born, device>>
  BY <1>0, <1>1 DEF Unlink, IInv, TypeOK, Links
<1>5. /\ InList(e)' = InList(e) \ {c} /\ Chain(head'[e], next')
      /\ next'[c] = next[c] /\ next[c] \in InList(e)' \cup {Null}
  <2>1. InList(e)' = List(head'[e], next')
    BY <1>1, ListOf
  <2>2. CASE head[e] = c
    <3>1. head'[e] = next[c] /\ next' = next
      BY <1>0, <2>2 DEF Unlink, IInv, TypeOK
    <3>2. InList(e)' = InList(e) \ {c} /\ Chain(head'[e], next')
      BY <1>1, <2>1, <2>2, <3>1, ListChain, ListPop
    <3>3. next[c] \in InList(e)' \cup {Null}
      BY <1>1, <1>4, <2>1, <3>1, ListFollows DEF Fol
    <3> QED
      BY <3>1, <3>2, <3>3
  <2>3. CASE head[e] # c
    <3>1. /\ head' = head
          /\ next' = [x \in Context |-> IF next[x] = c /\ x \in InList(e) THEN next[c] ELSE next[x]]
      BY <1>0, <2>3 DEF Unlink
    <3>2. InList(e)' = InList(e) \ {c} /\ Chain(head'[e], next')
      BY <1>1, <1>2, <1>4, <2>1, <2>3, <3>1, ListChain, ListCut
    <3>3. next'[c] = next[c]
      BY <1>1, <3>1
    <3>4. PICK p \in Context : p \in InList(e) /\ p # c /\ next[p] = c
      <4>1. (\A x \in InList(e) \ {c} : next[x] # c) => Fol(head[e], next, InList(e) \ {c})
        <5> SUFFICES ASSUME \A x \in InList(e) \ {c} : next[x] # c
                     PROVE  Fol(head[e], next, InList(e) \ {c})
          OBVIOUS
        <5> QED
          BY <1>1, <2>3, ListChain DEF Fol
      <4>2. ~Fol(head[e], next, InList(e) \ {c})
        BY <1>1, <1>2, ListChain, ListLeast
      <4> QED
        BY <1>1, <4>1, <4>2, ListChain
    <3>5. next'[p] = next[c] /\ p \in InList(e)'
      BY <3>1, <3>2, <3>4
    <3>6. next'[p] \in InList(e)' \cup {Null}
      BY <1>1, <1>4, <2>1, <3>5, ListFollows DEF Fol
    <3> QED
      BY <3>2, <3>3, <3>5, <3>6
  <2> QED
    BY <2>2, <2>3
<1>6. ASSUME NEW d \in Device, d # e
      PROVE  InList(d)' = InList(d) /\ Chain(head'[d], next')
  <2>1. head'[d] = head[d] /\ InList(d)' = List(head[d], next')
    BY <1>4, <1>6, ListOf
  <2>2. \A x \in List(head[d], next) : next'[x] = next[x]
    <3>1. \A x \in InList(d) : x \in Context /\ x \notin InList(e)
      BY <1>1, <1>6, ListChain DEF IInv, ListInv
    <3> QED
      BY <1>4, <3>1, ListChain
  <2> QED
    BY <1>4, <2>1, <2>2, ListChain, ListSame
<1>7. Cut(t, c, e)
  BY <1>0, <1>1, <1>2, <1>3, <1>5, <1>6 DEF Cut
<1>8. \A d \in Device : \A x \in InList(d)' : x \in born' /\ device'[x] = d
  BY <1>1, <1>4, <1>5, <1>6 DEF IInv, ListInv
<1>9. ListInv'
  BY <1>1, <1>5, <1>6, <1>8, ChainsMake
<1> QED
  BY <1>4, <1>7, <1>9

LEMMA ListStep ==
  ASSUME IInv, [Next]_vars
  PROVE  /\ head' \in [Device -> Context \cup {Null}] /\ next' \in Links
         /\ ListInv'
         /\ \/ Kept
            \/ \E t \in Thread, c \in Context, d \in Device : Linked(t, c, d)
            \/ \E t \in Thread, c \in Context, d \in Device : Cut(t, c, d)
<1>1. CASE UNCHANGED <<head, next, device>> /\ born \subseteq born'
  <2>1. Kept
    BY <1>1 DEF Kept, InList, Follows
  <2>2. ListInv'
    BY <1>1, <2>1 DEF Kept, IInv, ListInv
  <2> QED
    BY <1>1, <2>1, <2>2 DEF IInv, TypeOK, Links
<1>2. CASE \E t \in Thread, c \in Context : CreateLink(t, c)
  BY <1>2, LinkStep
<1>3. CASE \E t \in Thread : Unlink(t)
  BY <1>3, CutStep
<1> QED
  BY <1>1, <1>2, <1>3
  DEF Next, Begin, Step, vars, lists, OpenDevice, VerifyDevice, DeviceDecRef, CreateContext,
      StopForAttributes, Restart, RestartFails, HandleDisconnect, CreateFails,
      MakeContextCurrent, SetThreadContext, ReleaseThreadCtx, GetLocal, ReadGlobal,
      IncRefGlobal, EnterMutex, LeaveMutex, DecRef, DestroyContext, CloseDevice, Barrier,
      DropLocal, DropGlobal, DropOwn, StopPlayback, ClosePlayback,
      MixBegin, MixNext, MixEnd, MixDisconnect

-----------------------------------------------------------------------------
(* The counts move.  What holds a context has a count above zero.           *)

LEMMA Counted ==
  ASSUME NEW S \in SUBSET Thread
  PROVE  Cardinality(S) \in Nat /\ \A t \in S : Cardinality(S) > 0
<1>1. IsFiniteSet(S) /\ Cardinality(S) \in Nat
  BY FiniteAssumption, FS_Subset, FS_CardinalityType
<1>2. Cardinality(S) = 0 <=> S = {}
  BY <1>1, FS_EmptySet
<1> QED
  BY <1>1, <1>2

LEMMA Held ==
  ASSUME IInv
  PROVE  /\ \A d \in Device : \A c \in InList(d) : ref[c] > 0
         /\ GlobalContext # Null => ref[GlobalContext] > 0
         /\ \A t \in Thread : LocalContext[t] # Null => ref[LocalContext[t]] > 0
         /\ \A t \in Thread : HasRef(t) \/ Unlinked(t) => ctx[t] \in Context /\ ref[ctx[t]] > 0
<1>1. ASSUME NEW c \in Context
      PROVE  /\ Cardinality({t \in Thread : Unlinked(t) /\ ctx[t] = c}) \in Nat
             /\ Cardinality({t \in Thread : LocalContext[t] = c}) \in Nat
             /\ Cardinality({t \in Thread : HasRef(t) /\ ctx[t] = c}) \in Nat
             /\ \A t \in Thread : Unlinked(t) /\ ctx[t] = c =>
                  Cardinality({u \in Thread : Unlinked(u) /\ ctx[u] = c}) > 0
             /\ \A t \in Thread : LocalContext[t] = c =>
                  Cardinality({u \in Thread : LocalContext[u] = c}) > 0
             /\ \A t \in Thread : HasRef(t) /\ ctx[t] = c =>
                  Cardinality({u \in Thread : HasRef(u) /\ ctx[u] = c}) > 0
  <2>1. /\ {t \in Thread : Unlinked(t) /\ ctx[t] = c} \in SUBSET Thread
        /\ {t \in Thread : LocalContext[t] = c} \in SUBSET Thread
        /\ {t \in Thread : HasRef(t) /\ ctx[t] = c} \in SUBSET Thread
    OBVIOUS
  <2>2. \A t \in Thread : Unlinked(t) /\ ctx[t] = c => t \in {u \in Thread : Unlinked(u) /\ ctx[u] = c}
    OBVIOUS
  <2>3. \A t \in Thread : LocalContext[t] = c => t \in {u \in Thread : LocalContext[u] = c}
    OBVIOUS
  <2>4. \A t \in Thread : HasRef(t) /\ ctx[t] = c => t \in {u \in Thread : HasRef(u) /\ ctx[u] = c}
    OBVIOUS
  <2> QED
    BY <2>1, <2>2, <2>3, <2>4, Counted
<1>2. \A c \in Context :
        ref[c] = One(\E d \in Device : c \in InList(d))
                 + Cardinality({t \in Thread : Unlinked(t) /\ ctx[t] = c})
                 + One(GlobalContext = c)
                 + Cardinality({t \in Thread : LocalContext[t] = c})
                 + Cardinality({t \in Thread : HasRef(t) /\ ctx[t] = c})
  BY DEF IInv, ContextRefs
<1>3. ASSUME NEW c \in Context
      PROVE  /\ (\E d \in Device : c \in InList(d)) => ref[c] > 0
             /\ GlobalContext = c => ref[c] > 0
             /\ \A t \in Thread : LocalContext[t] = c => ref[c] > 0
             /\ \A t \in Thread : (HasRef(t) \/ Unlinked(t)) /\ ctx[t] = c => ref[c] > 0
  <2> DEFINE listed == \E d \in Device : c \in InList(d)
             taken == Cardinality({t \in Thread : Unlinked(t) /\ ctx[t] = c})
             mine == Cardinality({t \in Thread : LocalContext[t] = c})
             uses == Cardinality({t \in Thread : HasRef(t) /\ ctx[t] = c})
  <2>1. ref[c] = One(listed) + taken + One(GlobalContext = c) + mine + uses
    BY <1>2
  <2>2. /\ taken \in Nat /\ \A t \in Thread : Unlinked(t) /\ ctx[t] = c => taken > 0
        /\ mine \in Nat /\ \A t \in Thread : LocalContext[t] = c => mine > 0
        /\ uses \in Nat /\ \A t \in Thread : HasRef(t) /\ ctx[t] = c => uses > 0
    BY <1>1
  <2> HIDE DEF taken, mine, uses
  <2> QED
    BY <2>1, <2>2 DEF One
<1>4. \A t \in Thread : HasRef(t) \/ Unlinked(t) => ctx[t] \in Context
  BY DEF IInv, PlaceInv, OnContext, HasRef, Unlinked
<1>5. \A d \in Device : InList(d) \subseteq Context
  BY DEF InList
<1> QED
  BY <1>3, <1>4, <1>5 DEF IInv, TypeOK

(* Every step's CountRefs is about contexts that live.                      *)
Alive(c) == c = Null \/ (c \in Context /\ ref[c] > 0)

LEMMA Counting ==
  ASSUME IInv, NEW gained \in Context \cup {Null}, NEW lost \in Context \cup {Null},
         CountRefs(gained, lost), Alive(gained), Alive(lost), UNCHANGED device
  PROVE  /\ ref' \in [Context -> Int] /\ dref' \in [Device -> Int]
         /\ \A c \in Context : /\ ref'[c] = ref[c] + One(c = gained) - One(c = lost)
                               /\ ref[c] = 0 => ref'[c] = 0
         /\ \A d \in Device :
              dref'[d] = dref[d] - One(lost # Null /\ gained # lost /\ ref[lost] = 1 /\ device[lost] = d)
<1>1. /\ ref' = [c \in Context |-> ref[c] + One(c = gained) - One(c = lost)]
      /\ ref \in [Context -> Nat]
  BY DEF CountRefs, Moved, One, IInv, TypeOK
<1>2. \A c \in Context : ref[c] = 0 => ref'[c] = 0
  BY <1>1, NullAssumption DEF Alive, One
<1>3. Freed(lost) <=> lost # Null /\ ref[lost] = 1
  BY <1>1, NullAssumption DEF Freed, Moved, Alive
<1>4. /\ dref' \in [Device -> Int]
      /\ \A d \in Device :
           dref'[d] = dref[d] - One(lost # Null /\ gained # lost /\ ref[lost] = 1 /\ device[lost] = d)
  <2>1. CASE lost # Null /\ gained # lost /\ ref[lost] = 1
    <3>1. dref' = [dref EXCEPT ![device[lost]] = @ - 1]
      BY <1>3, <2>1 DEF CountRefs
    <3>2. \A d \in Device : dref'[d] = dref[d] - One(device[lost] = d)
      BY <3>1 DEF IInv, TypeOK, One
    <3>3. \A d \in Device : dref'[d] \in Int
      BY <3>2 DEF IInv, TypeOK, One
    <3>4. DOMAIN dref' = Device /\ dref' = [d \in DOMAIN dref' |-> dref'[d]]
      BY <3>1 DEF IInv, TypeOK
    <3>5. dref' \in [Device -> Int]
      BY <3>3, <3>4
    <3> QED
      BY <2>1, <3>2, <3>5 DEF One
  <2>2. CASE ~(lost # Null /\ gained # lost /\ ref[lost] = 1)
    <3>1. dref' = dref
      BY <1>3, <2>2 DEF CountRefs
    <3>2. \A d \in Device : dref'[d] = dref[d] - 0
      BY <3>1 DEF IInv, TypeOK
    <3> QED
      BY <2>2, <3>1, <3>2 DEF IInv, TypeOK, One
  <2> QED
    BY <2>1, <2>2
<1> QED
  BY <1>1, <1>2, <1>4 DEF One

Counts(gained, lost) ==
  /\ gained \in Context \cup {Null} /\ lost \in Context \cup {Null}
  /\ CountRefs(gained, lost) /\ Alive(gained) /\ Alive(lost) /\ UNCHANGED device

LEMMA CountsAre ==
  ASSUME IInv, NEW t \in Thread
  PROVE  /\ \A c \in Context \cup {Null} :
              SetThreadContext(t, c) => Counts(c, LocalContext[t]) /\ c # LocalContext[t]
         /\ ReleaseThreadCtx(t) => Counts(Null, LocalContext[t])
         /\ GetLocal(t) => Counts(LocalContext[t], Null)
         /\ IncRefGlobal(t) => UNCHANGED <<ref, dref, device>> \/ Counts(ctx[t], Null)
         /\ DecRef(t) => Counts(Null, ctx[t])
         /\ DropLocal(t) => IF LocalContext[t] = ctx[t] THEN Counts(Null, ctx[t])
                            ELSE UNCHANGED <<ref, dref, device>>
         /\ DropGlobal(t) => IF IsCurrent(t) THEN Counts(Null, ctx[t])
                             ELSE UNCHANGED <<ref, dref, device>>
         /\ DropOwn(t) => Counts(Null, ctx[t])
<1> USE DEF Counts, lists
<1>1. Alive(Null)
  BY DEF Alive
<1>2. LocalContext[t] \in Context \cup {Null} /\ Alive(LocalContext[t])
  BY Held DEF IInv, TypeOK, Alive
<1>3. \A c \in Context \cup {Null} : c = Null \/ IsContext(c) => Alive(c)
  BY Held DEF IsContext, IInv, TypeOK, Alive
<1>4. HasRef(t) \/ Unlinked(t) => ctx[t] \in Context /\ Alive(ctx[t])
  BY Held DEF Alive
<1>5. \A c \in Context \cup {Null} :
        SetThreadContext(t, c) => Counts(c, LocalContext[t]) /\ c # LocalContext[t]
  BY <1>2, <1>3 DEF SetThreadContext
<1>6. ReleaseThreadCtx(t) => Counts(Null, LocalContext[t])
  BY <1>1, <1>2 DEF ReleaseThreadCtx
<1>7. GetLocal(t) => Counts(LocalContext[t], Null)
  BY <1>1, <1>2 DEF GetLocal
<1>8. IncRefGlobal(t) => UNCHANGED <<ref, dref, device>> \/ Counts(ctx[t], Null)
  <2>1. pc[t] = "read" => ctx[t] \in Context
    BY DEF IInv, PlaceInv, OnContext
  <2>2. pc[t] = "read" /\ ref[ctx[t]] # 0 => Alive(ctx[t])
    BY <2>1 DEF IInv, TypeOK, Alive
  <2> QED
    BY <1>1, <2>1, <2>2 DEF IncRefGlobal
<1>9. DecRef(t) => Counts(Null, ctx[t])
  BY <1>1, <1>4 DEF DecRef, HasRef
<1>10. DropLocal(t) => IF LocalContext[t] = ctx[t] THEN Counts(Null, ctx[t])
                       ELSE UNCHANGED <<ref, dref, device>>
  BY <1>1, <1>4 DEF DropLocal, Unlinked
<1>11. DropGlobal(t) => IF IsCurrent(t) THEN Counts(Null, ctx[t])
                        ELSE UNCHANGED <<ref, dref, device>>
  BY <1>1, <1>4 DEF DropGlobal, Unlinked
<1>12. DropOwn(t) => Counts(Null, ctx[t])
  BY <1>1, <1>4 DEF DropOwn, Unlinked
<1> QED
  BY <1>5, <1>6, <1>7, <1>8, <1>9, <1>10, <1>11, <1>12

(* alcMakeContextCurrent gives up to two references back, of one context or *)
(* of two.                                                                  *)
Releases(t, c) ==
  {x \in {GlobalContext, LocalContext[t]} \ {Null} :
     ref[x] + One(x = c) - One(x = GlobalContext) - One(x = LocalContext[t]) = 0}

LEMMA MakeCurrent ==
  ASSUME IInv, NEW t \in Thread, NEW c \in Context \cup {Null}, MakeContextCurrent(t, c)
  PROVE  /\ ref' \in [Context -> Int] /\ dref' \in [Device -> Int]
         /\ \A x \in Context :
              /\ ref'[x] = ref[x] + One(x = c) - One(x = GlobalContext) - One(x = LocalContext[t])
              /\ ref[x] = 0 => ref'[x] = 0
         /\ \A d \in Device :
              dref'[d] = dref[d] - Cardinality({x \in Releases(t, c) : device[x] = d})
<1> DEFINE old == {GlobalContext, LocalContext[t]} \ {Null}
           now == [x \in Context |-> ref[x] + (IF x = c THEN 1 ELSE 0)
                     - ((IF x = GlobalContext THEN 1 ELSE 0) + (IF x = LocalContext[t] THEN 1 ELSE 0))]
<1>1. /\ ref' = now
      /\ dref' = [d \in Device |-> dref[d] - Cardinality({x \in old : now[x] = 0 /\ device[x] = d})]
  BY DEF MakeContextCurrent
<1>2. /\ ref \in [Context -> Nat] /\ old \subseteq Context
      /\ GlobalContext \in Context \cup {Null} /\ LocalContext[t] \in Context \cup {Null}
  BY DEF IInv, TypeOK
<1>3. \A x \in Context :
        /\ now[x] \in Int
        /\ now[x] = ref[x] + One(x = c) - One(x = GlobalContext) - One(x = LocalContext[t])
  BY <1>2 DEF One
<1>4. \A x \in Context : ref[x] = 0 => x # c /\ x # GlobalContext /\ x # LocalContext[t]
  <2>1. c = Null \/ IsContext(c)
    BY DEF MakeContextCurrent
  <2>2. c # Null => ref[c] > 0
    BY <2>1, Held DEF IsContext, IInv, TypeOK
  <2> QED
    BY <2>2, Held, NullAssumption
<1> HIDE DEF now
<1>5. \A d \in Device : {x \in old : now[x] = 0 /\ device[x] = d} = {x \in Releases(t, c) : device[x] = d}
  BY <1>2, <1>3 DEF Releases
<1>6. \A d \in Device : Cardinality({x \in Releases(t, c) : device[x] = d}) \in Nat
  <2>1. ASSUME NEW d \in Device
        PROVE  IsFiniteSet({x \in Releases(t, c) : device[x] = d})
    <3>1. {x \in Releases(t, c) : device[x] = d} \subseteq Context
      BY <1>2 DEF Releases
    <3> QED
      BY <3>1, FiniteAssumption, FS_Subset
  <2> QED
    BY <2>1, FS_CardinalityType
<1> HIDE DEF old
<1>7. \A d \in Device : dref[d] - Cardinality({x \in Releases(t, c) : device[x] = d}) \in Int
  BY <1>6 DEF IInv, TypeOK
<1>8. dref' = [d \in Device |-> dref[d] - Cardinality({x \in Releases(t, c) : device[x] = d})]
  BY <1>1, <1>5
<1>9. dref' \in [Device -> Int]
  BY <1>7, <1>8
<1>10. ref' \in [Context -> Int]
  BY <1>1, <1>3 DEF now
<1> QED
  BY <1>1, <1>3, <1>4, <1>8, <1>9, <1>10 DEF One

(* Only alcCreateContext gives a count to a context that has none.          *)
LEMMA CountsStep ==
  ASSUME IInv, [Next]_vars
  PROVE  /\ ref' \in [Context -> Int] /\ dref' \in [Device -> Int]
         /\ \A c \in Context : ref[c] = 0 /\ (\A t \in Thread : ~CreateLink(t, c)) => ref'[c] = 0
<1> DEFINE Goal == /\ ref' \in [Context -> Int] /\ dref' \in [Device -> Int]
                   /\ \A c \in Context : ref[c] = 0 => ref'[c] = 0
<1>1. CASE UNCHANGED <<ref, dref>>
  BY <1>1 DEF IInv, TypeOK
<1>2. ASSUME NEW gained, NEW lost, Counts(gained, lost)
      PROVE  Goal
  BY <1>2, Counting DEF Counts
<1>3. ASSUME NEW t \in Thread, NEW c \in Context \cup {Null}, MakeContextCurrent(t, c)
      PROVE  Goal
  BY <1>3, MakeCurrent
<1>4. ASSUME NEW t \in Thread, NEW c \in Context, CreateLink(t, c)
      PROVE  /\ ref' \in [Context -> Int] /\ dref' \in [Device -> Int]
             /\ \A e \in Context : ref[e] = 0 /\ e # c => ref'[e] = 0
  <2>1. PICK d \in Device : d = dev[t]
    BY <1>4 DEF CreateLink, IInv, PlaceInv, OnDevice, Creating
  <2>2. dref' = [dref EXCEPT ![d] = @ + 1] /\ ref' = [ref EXCEPT ![c] = 1]
    BY <1>4, <2>1 DEF CreateLink, InitContext
  <2>3. dref' \in [Device -> Int]
    BY <2>2 DEF IInv, TypeOK
  <2>4. ref' \in [Context -> Int] /\ \A e \in Context : ref[e] = 0 /\ e # c => ref'[e] = 0
    BY <2>2 DEF IInv, TypeOK
  <2> QED
    BY <2>3, <2>4
<1>5. ASSUME UNCHANGED ref, NEW d, dref' = [dref EXCEPT ![d] = @ + 1]
                                   \/ dref' = [dref EXCEPT ![d] = @ - 1]
                                   \/ dref' = [dref EXCEPT ![d] = 1]
      PROVE  Goal
  BY <1>5 DEF IInv, TypeOK
<1>6. ASSUME NEW t \in Thread, Begin(t)
      PROVE  Goal
  <2>1. CASE \E c \in Context \cup {Null} : MakeContextCurrent(t, c)
    BY <1>3, <2>1
  <2>2. CASE \/ \E c \in Context \cup {Null} : SetThreadContext(t, c)
             \/ ReleaseThreadCtx(t) \/ GetLocal(t)
    BY <1>2, <2>2, CountsAre
  <2>3. CASE \E d \in Device : OpenDevice(t, d) \/ VerifyDevice(t, d) \/ CreateContext(t, d)
    BY <1>5, <2>3 DEF OpenDevice, VerifyDevice, CreateContext
  <2>4. CASE (\E d \in Device : CloseDevice(t, d)) \/ (\E c \in Context : DestroyContext(t, c))
             \/ ReadGlobal(t)
    BY <1>1, <2>4 DEF CloseDevice, DestroyContext, ReadGlobal
  <2> QED
    BY <1>6, <2>1, <2>2, <2>3, <2>4 DEF Begin
<1>7. ASSUME NEW t \in Thread, Step(t)
      PROVE  Goal \/ \E c \in Context : CreateLink(t, c)
  <2>1. CASE DecRef(t) \/ DropOwn(t) \/ IncRefGlobal(t) \/ DropLocal(t) \/ DropGlobal(t)
    BY <1>1, <1>2, <2>1, CountsAre
  <2>2. CASE DeviceDecRef(t) \/ ClosePlayback(t)
    BY <1>5, <2>2 DEF DeviceDecRef, ClosePlayback
  <2>3. CASE \/ StopForAttributes(t) \/ Restart(t) \/ RestartFails(t) \/ HandleDisconnect(t)
             \/ CreateFails(t) \/ EnterMutex(t) \/ LeaveMutex(t) \/ Unlink(t) \/ Barrier(t)
             \/ StopPlayback(t)
    BY <1>1, <2>3 DEF StopForAttributes, Restart, RestartFails, HandleDisconnect, CreateFails,
                      EnterMutex, LeaveMutex, Unlink, Barrier, StopPlayback
  <2> QED
    BY <1>7, <2>1, <2>2, <2>3 DEF Step
<1>8. CASE \/ \E d \in Device : MixBegin(d) \/ MixNext(d) \/ MixEnd(d) \/ MixDisconnect(d)
           \/ UNCHANGED vars
  BY <1>1, <1>8 DEF MixBegin, MixNext, MixEnd, MixDisconnect, vars
<1> QED
  BY <1>4, <1>6, <1>7, <1>8 DEF Next

-----------------------------------------------------------------------------
LEMMA BornStep ==
  ASSUME IInv, [Next]_vars
  PROVE  BornInv'
<1>1. CASE UNCHANGED <<open, born, device>> /\ \A c \in Context : ref[c] = 0 => ref'[c] = 0
  BY <1>1 DEF IInv, BornInv
<1>2. ASSUME NEW t \in Thread, NEW c \in Context, CreateLink(t, c)
      PROVE  BornInv'
  <2>1. dev[t] \in Device \cap born
    BY <1>2 DEF CreateLink, IInv, PlaceInv, OnDevice, Creating
  <2> QED
    BY <1>2, <2>1 DEF CreateLink, IInv, BornInv, TypeOK
<1>3. ASSUME NEW t \in Thread, NEW d \in Device, OpenDevice(t, d)
      PROVE  BornInv'
  BY <1>3, MemoryAssumption DEF OpenDevice, IInv, BornInv
<1>4. ASSUME NEW t \in Thread, NEW d \in Device, CloseDevice(t, d)
      PROVE  BornInv'
  BY <1>4 DEF CloseDevice, IInv, BornInv
<1>5. CASE \/ \E t \in Thread, d \in Device : OpenDevice(t, d) \/ CloseDevice(t, d)
           \/ \E t \in Thread, c \in Context : CreateLink(t, c)
  BY <1>2, <1>3, <1>4, <1>5
<1>6. CASE ~(\E t \in Thread, c \in Context : CreateLink(t, c)) /\ UNCHANGED <<open, born, device>>
  <2>1. \A c \in Context : ref[c] = 0 => ref'[c] = 0
    BY <1>6, CountsStep
  <2> QED
    BY <1>1, <1>6, <2>1
<1> QED
  BY <1>5, <1>6
  DEF Next, Begin, Step, vars, lists, VerifyDevice, DeviceDecRef, CreateContext,
      StopForAttributes, Restart, RestartFails, HandleDisconnect, CreateFails,
      MakeContextCurrent, SetThreadContext, ReleaseThreadCtx, GetLocal, ReadGlobal,
      IncRefGlobal, EnterMutex, LeaveMutex, DecRef, DestroyContext, Unlink, Barrier,
      DropLocal, DropGlobal, DropOwn, StopPlayback, ClosePlayback,
      MixBegin, MixNext, MixEnd, MixDisconnect

-----------------------------------------------------------------------------
(* A step changes the places of its own thread only.                        *)

LEMMA PlaceBegin ==
  ASSUME IInv, NEW t \in Thread, Begin(t)
  PROVE  PlaceInv'
<1> USE DEF IInv, TypeOK, BornInv, PlaceInv, Go, Aim, Done, LockLists, UnlockLists,
            OnDevice, OnContext, Creating, Ending, lists, local
<1>0. \A u \in Thread : u # Null
  BY NullAssumption
<1>1. ASSUME NEW d \in Device, OpenDevice(t, d)
      PROVE  PlaceInv'
  BY <1>1 DEF OpenDevice
<1>2. ASSUME NEW d \in Device, VerifyDevice(t, d)
      PROVE  PlaceInv'
  BY <1>2 DEF VerifyDevice
<1>3. ASSUME NEW d \in Device, CreateContext(t, d)
      PROVE  PlaceInv'
  BY <1>0, <1>3 DEF CreateContext
<1>4. ASSUME NEW d \in Device, CloseDevice(t, d)
      PROVE  PlaceInv'
  <2>1. /\ pc[t] = "idle" /\ ListLock = Null /\ d \in open /\ open' = open \ {d}
        /\ UNCHANGED <<device, born, ListLock>>
        /\ ctx' = [ctx EXCEPT ![t] = head[d]] /\ dev' = [dev EXCEPT ![t] = d]
        /\ pc' = [pc EXCEPT ![t] = IF head[d] = Null THEN "last" ELSE "close"]
    BY <1>4 DEF CloseDevice
  <2>2. head[d] # Null => head[d] \in Context \cap born /\ device[head[d]] = d
    BY ListChain DEF Fol, ListInv
  <2>3. ASSUME NEW u \in Thread, u # t
        PROVE  /\ pc'[u] = pc[u] /\ ctx'[u] = ctx[u] /\ dev'[u] = dev[u]
               /\ pc[u] \notin Creating \cup {"read", "destroy"}
               /\ ~(pc[u] \in Ending /\ dev[u] \in open)
    BY <1>0, <2>1, <2>3
  <2>4. /\ pc'[t] = IF head[d] = Null THEN "last" ELSE "close"
        /\ ctx'[t] = head[d] /\ dev'[t] = d
    BY <2>1
  <2> QED
    BY <2>1, <2>2, <2>3, <2>4
<1>5. ASSUME NEW c \in Context, DestroyContext(t, c)
      PROVE  PlaceInv'
  <2>1. c \in born /\ device[c] \in open
    BY <1>5 DEF DestroyContext, IsContext, ListInv
  <2> QED
    BY <1>0, <1>5, <2>1 DEF DestroyContext
<1>6. CASE \/ \E c \in Context \cup {Null} : MakeContextCurrent(t, c) \/ SetThreadContext(t, c)
           \/ ReleaseThreadCtx(t)
  BY <1>6 DEF MakeContextCurrent, SetThreadContext, ReleaseThreadCtx
<1>7. CASE GetLocal(t)
  <2>1. LocalContext[t] \in born
    BY <1>7, Held DEF GetLocal
  <2> QED
    BY <1>7, <2>1 DEF GetLocal
<1>8. CASE ReadGlobal(t)
  <2>1. GlobalContext \in born
    BY <1>8, Held DEF ReadGlobal
  <2> QED
    BY <1>0, <1>8, <2>1 DEF ReadGlobal
<1> QED
  BY <1>1, <1>2, <1>3, <1>4, <1>5, <1>6, <1>7, <1>8, Begin(t) DEF Begin

LEMMA PlaceStep ==
  ASSUME IInv, [Next]_vars
  PROVE  PlaceInv'
<1> USE DEF IInv, TypeOK, BornInv, PlaceInv, Go, Aim, Done, LockLists, UnlockLists,
            OnDevice, OnContext, Creating, Ending, lists, local
<1>1. ASSUME NEW t \in Thread, Step(t)
      PROVE  PlaceInv'
  <2>0. t # Null
    BY NullAssumption
  <2>1. CASE DeviceDecRef(t)
    BY <2>1 DEF DeviceDecRef
  <2>2. CASE StopForAttributes(t) \/ Restart(t) \/ RestartFails(t)
    BY <2>0, <2>2 DEF StopForAttributes, Restart, RestartFails
  <2>3. CASE HandleDisconnect(t)
    BY <2>3 DEF HandleDisconnect
  <2>4. ASSUME NEW c \in Context, CreateLink(t, c)
        PROVE  PlaceInv'
    BY <2>0, <2>4 DEF CreateLink
  <2>5. CASE CreateFails(t)
    BY <2>0, <2>5 DEF CreateFails
  <2>6. CASE IncRefGlobal(t)
    BY <2>0, <2>6 DEF IncRefGlobal
  <2>7. CASE EnterMutex(t) \/ LeaveMutex(t)
    BY <2>0, <2>7 DEF EnterMutex, LeaveMutex
  <2>8. CASE DecRef(t)
    BY <2>8 DEF DecRef
  <2>9. CASE Unlink(t)
    BY <2>9 DEF Unlink
  <2>10. CASE Barrier(t) \/ DropLocal(t) \/ DropGlobal(t)
    BY <2>10 DEF Barrier, DropLocal, DropGlobal
  <2>11. CASE DropOwn(t)
    <3>1. dev[t] \in Device \cap born
      BY <2>11 DEF DropOwn
    <3>2. ~Empty(dev[t]) => head[dev[t]] \in Context \cap born /\ device[head[dev[t]]] = dev[t]
      BY <3>1, ListChain DEF Empty, Fol, ListInv
    <3> QED
      BY <2>0, <2>11, <3>1, <3>2 DEF DropOwn
  <2>12. CASE StopPlayback(t)
    BY <2>0, <2>12 DEF StopPlayback
  <2>13. CASE ClosePlayback(t)
    BY <2>13 DEF ClosePlayback
  <2> QED
    BY <1>1, <2>1, <2>2, <2>3, <2>4, <2>5, <2>6, <2>7, <2>8, <2>9, <2>10, <2>11, <2>12, <2>13 DEF Step
<1>2. CASE \/ \E d \in Device : MixBegin(d) \/ MixNext(d) \/ MixEnd(d) \/ MixDisconnect(d)
           \/ UNCHANGED vars
  BY <1>2 DEF MixBegin, MixNext, MixEnd, MixDisconnect, vars
<1> QED
  BY <1>1, <1>2, PlaceBegin DEF Next

LEMMA Keeps ==
  ASSUME UNCHANGED <<head, next>>
  PROVE  Kept
BY DEF Kept, InList, Follows

OthersStay(t) ==
  \A u \in Thread \ {t} : pc'[u] = pc[u] /\ ctx'[u] = ctx[u] /\ dev'[u] = dev[u]

LEMMA Stays ==
  ASSUME IInv, NEW t \in Thread, Begin(t) \/ Step(t)
  PROVE  OthersStay(t)
<1> USE DEF IInv, TypeOK, OthersStay, Go, Aim, Done, local
<1>1. CASE Begin(t)
  BY <1>1 DEF Begin, OpenDevice, VerifyDevice, CreateContext, CloseDevice, DestroyContext,
              MakeContextCurrent, SetThreadContext, ReleaseThreadCtx, GetLocal, ReadGlobal
<1>2. CASE Step(t)
  BY <1>2 DEF Step, DeviceDecRef, StopForAttributes, Restart, RestartFails, HandleDisconnect,
              CreateFails, CreateLink, IncRefGlobal, EnterMutex, LeaveMutex, DecRef, Unlink,
              Barrier, DropLocal, DropGlobal, DropOwn, StopPlayback, ClosePlayback
<1> QED
  BY <1>1, <1>2

LEMMA EndMoves ==
  ASSUME IInv, NEW t \in Thread, OthersStay(t),
         \A u \in Thread \ {t} : pc'[t] \in Ending /\ pc[u] \in Ending => dev'[t] # dev[u],
         EndOf(t)', Kept \/ \A u \in Thread \ {t} : EndOf(u)'
  PROVE  EndInv'
<1>1. \A u \in Thread \ {t} : EndOf(u)'
  <2>1. CASE Kept
    <3> SUFFICES ASSUME NEW u \in Thread \ {t}
                 PROVE  EndOf(u)'
      OBVIOUS
    <3>1. /\ pc'[u] = pc[u] /\ ctx'[u] = ctx[u] /\ dev'[u] = dev[u] /\ EndOf(u)
          /\ pc[u] \in Ending => dev[u] \in Device
      BY DEF OthersStay, IInv, EndInv, PlaceInv, OnDevice
    <3> QED
      BY <2>1, <3>1 DEF EndOf, Unlinked, Ending, Kept
  <2> QED
    BY <2>1
<1>2. \A u, v \in Thread : pc'[u] \in Ending /\ pc'[v] \in Ending /\ dev'[u] = dev'[v] => u = v
  BY DEF OthersStay, IInv, EndInv
<1> QED
  BY <1>1, <1>2 DEF EndInv

(* A thread that is not taking contexts off a list.                         *)
LEMMA EndNot ==
  ASSUME IInv, NEW t \in Thread, OthersStay(t), Kept, pc'[t] \notin Ending
  PROVE  EndInv'
<1>1. EndOf(t)'
  BY DEF EndOf, Unlinked, Ending
<1> QED
  BY <1>1, EndMoves

LEMMA EndBegin ==
  ASSUME IInv, NEW t \in Thread, Begin(t)
  PROVE  EndInv'
<1> USE DEF Go, Aim, Done, LockLists, Ending, lists, local
<1>0. OthersStay(t) /\ (\A u \in Thread : u # Null) /\ TypeOK
  BY Stays, NullAssumption DEF IInv
<1>1. CASE \/ \E c \in Context \cup {Null} : MakeContextCurrent(t, c) \/ SetThreadContext(t, c)
           \/ ReleaseThreadCtx(t) \/ \E d \in Device : OpenDevice(t, d)
  <2>1. UNCHANGED <<head, next>> /\ pc'[t] \notin Ending
    BY <1>1 DEF MakeContextCurrent, SetThreadContext, ReleaseThreadCtx, OpenDevice
  <2> QED
    BY <1>0, <2>1, Keeps, EndNot
<1>2. CASE \/ \E d \in Device : VerifyDevice(t, d) \/ CreateContext(t, d)
           \/ GetLocal(t) \/ ReadGlobal(t)
  <2>1. UNCHANGED <<head, next>> /\ pc'[t] \notin Ending
    BY <1>0, <1>2 DEF VerifyDevice, CreateContext, GetLocal, ReadGlobal, TypeOK
  <2> QED
    BY <1>0, <2>1, Keeps, EndNot
<1>3. ASSUME NEW d \in Device, CloseDevice(t, d)
      PROVE  EndInv'
  <2>1. Kept
    BY <1>3, Keeps DEF CloseDevice
  <2>2. \A u \in Thread : ~(pc[u] \in Ending /\ dev[u] = d)
    BY <1>0, <1>3 DEF CloseDevice, IInv, PlaceInv
  <2>3. /\ pc'[t] = IF head[d] = Null THEN "last" ELSE "close"
        /\ ctx'[t] = head[d] /\ dev'[t] = d /\ head' = head
    BY <1>0, <1>3 DEF CloseDevice, TypeOK
  <2>4. EndOf(t)'
    BY <2>3 DEF EndOf, Unlinked
  <2> QED
    BY <1>0, <2>1, <2>2, <2>3, <2>4, EndMoves
<1>4. ASSUME NEW c \in Context, DestroyContext(t, c)
      PROVE  EndInv'
  <2>1. Kept
    BY <1>4, Keeps DEF DestroyContext
  <2>2. PICK d \in Device : d \in open /\ c \in InList(d) /\ device[c] = d
    BY <1>0, <1>4 DEF DestroyContext, IsContext, IInv, ListInv, TypeOK
  <2>3. \A u \in Thread : ~(pc[u] \in Ending /\ dev[u] = d)
    BY <1>0, <1>4, <2>2 DEF DestroyContext, IInv, PlaceInv
  <2>4. pc'[t] = "destroy" /\ ctx'[t] = c /\ dev'[t] = d
    BY <1>0, <1>4, <2>2 DEF DestroyContext, TypeOK
  <2>5. EndOf(t)'
    BY <2>1, <2>2, <2>4 DEF EndOf, Unlinked, Kept
  <2> QED
    BY <1>0, <2>1, <2>3, <2>4, <2>5, EndMoves
<1> QED
  BY <1>1, <1>2, <1>3, <1>4 DEF Begin

LEMMA EndStep ==
  ASSUME IInv, [Next]_vars
  PROVE  EndInv'
<1> USE DEF Go, Aim, Done, Ending, lists, local
<1>1. ASSUME NEW t \in Thread, Step(t)
      PROVE  EndInv'
  <2>0. /\ OthersStay(t) /\ TypeOK /\ EndOf(t)
        /\ pc[t] \in Ending => dev[t] \in Device /\ \A u \in Thread \ {t} : pc[u] \in Ending => dev[u] # dev[t]
    BY <1>1, Stays DEF IInv, EndInv, PlaceInv, OnDevice
  <2>1. CASE \/ DeviceDecRef(t) \/ DecRef(t) \/ ClosePlayback(t)
             \/ StopForAttributes(t) \/ Restart(t) \/ RestartFails(t) \/ HandleDisconnect(t)
             \/ CreateFails(t) \/ IncRefGlobal(t) \/ EnterMutex(t) \/ LeaveMutex(t)
    <3>1. UNCHANGED <<head, next>> /\ pc'[t] \notin Ending
      BY <2>0, <2>1 DEF DeviceDecRef, DecRef, ClosePlayback, StopForAttributes, Restart, RestartFails,
              HandleDisconnect, CreateFails, IncRefGlobal, EnterMutex, LeaveMutex, TypeOK
    <3> QED
      BY <2>0, <3>1, Keeps, EndNot
  <2>4. CASE Barrier(t) \/ DropLocal(t) \/ DropGlobal(t)
    <3>1. /\ Kept /\ Unlinked(t) /\ pc'[t] \in {"local", "global", "own"}
          /\ ctx'[t] = ctx[t] /\ dev'[t] = dev[t]
      BY <2>0, <2>4, Keeps DEF Barrier, DropLocal, DropGlobal, Unlinked, TypeOK
    <3>2. EndOf(t)'
      BY <2>0, <3>1 DEF EndOf, Unlinked, Kept
    <3> QED
      BY <2>0, <3>1, <3>2, EndMoves DEF Unlinked
  <2>5. ASSUME NEW x \in Context, CreateLink(t, x)
        PROVE  EndInv'
    <3>1. PICK d \in Device : Linked(t, x, d)
      BY <2>5, LinkStep
    <3>2. pc[t] = "link" /\ dev[t] = d /\ x \notin born /\ d \in open /\ ListLock = t
      BY <2>5, <3>1 DEF CreateLink, Linked, IInv, PlaceInv, Creating
    <3>3. pc'[t] = "device" /\ \A e \in Device \ {d} : head'[e] = head[e]
      BY <2>0, <2>5, <3>2 DEF CreateLink, TypeOK
    <3>4. ASSUME NEW u \in Thread \ {t}
          PROVE  EndOf(u)'
      <4>1. pc'[u] = pc[u] /\ ctx'[u] = ctx[u] /\ dev'[u] = dev[u] /\ EndOf(u)
        BY <2>0 DEF OthersStay, IInv, EndInv
      <4>2. pc[u] \in Ending => dev[u] \in Device \ {d}
        BY <3>2 DEF IInv, PlaceInv, OnDevice
      <4>3. Unlinked(u) => \A e \in Device : ctx[u] \notin InList(e)'
        BY <3>1, <3>2, <4>1 DEF Linked, EndOf, IInv, PlaceInv, OnContext, Unlinked
      <4> QED
        BY <3>1, <3>3, <4>1, <4>2, <4>3 DEF EndOf, Unlinked, Linked
    <3>5. EndOf(t)'
      BY <3>3 DEF EndOf, Unlinked
    <3> QED
      BY <2>0, <3>3, <3>4, <3>5, EndMoves
  <2>6. CASE Unlink(t)
    <3>1. PICK c \in Context, d \in Device : Cut(t, c, d)
      BY <2>6, CutStep
    <3>2. pc[t] \in Ending /\ dev[t] = d /\ ctx[t] = c
      BY <2>6, <3>1 DEF Cut, Unlink
    <3>3. /\ pc'[t] = "barrier" /\ ctx'[t] = c /\ dev'[t] = d
          /\ \A e \in Device : e # d => head'[e] = head[e]
      BY <2>0, <2>6, <3>2 DEF Unlink, TypeOK
    <3>4. ASSUME NEW u \in Thread \ {t}
          PROVE  EndOf(u)'
      <4>1. pc'[u] = pc[u] /\ ctx'[u] = ctx[u] /\ dev'[u] = dev[u] /\ EndOf(u)
        BY <2>0 DEF OthersStay, IInv, EndInv
      <4>2. pc[u] \in Ending => dev[u] \in Device \ {d}
        BY <2>0, <3>2 DEF IInv, PlaceInv, OnDevice
      <4>3. Unlinked(u) => \A e \in Device : ctx[u] \notin InList(e)'
        BY <3>1, <4>1 DEF Cut, EndOf
      <4> QED
        BY <3>1, <3>3, <4>1, <4>2, <4>3 DEF EndOf, Unlinked, Cut
    <3>5. EndOf(t)'
      BY <3>1, <3>3 DEF EndOf, Unlinked, Cut
    <3> QED
      BY <2>0, <3>2, <3>3, <3>4, <3>5, EndMoves
  <2>7. CASE DropOwn(t) \/ StopPlayback(t)
    <3>1. /\ Kept /\ UNCHANGED head /\ pc[t] \in Ending
          /\ \/ pc'[t] = "idle"
             \/ /\ dev'[t] = dev[t]
                /\ \/ pc'[t] = "stop" /\ head[dev[t]] = Null
                   \/ pc'[t] = "close" /\ ctx'[t] = head[dev[t]]
                   \/ pc'[t] = "last"
      BY <2>0, <2>7, Keeps DEF DropOwn, StopPlayback, Empty, TypeOK
    <3>2. EndOf(t)'
      BY <3>1 DEF EndOf, Unlinked
    <3> QED
      BY <2>0, <3>1, <3>2, EndMoves
  <2> QED
    BY <1>1, <2>1, <2>4, <2>5, <2>6, <2>7 DEF Step
<1>2. CASE \/ \E d \in Device : MixBegin(d) \/ MixNext(d) \/ MixEnd(d) \/ MixDisconnect(d)
           \/ UNCHANGED vars
  <2>1. UNCHANGED <<head, next, pc, ctx, dev>>
    BY <1>2 DEF MixBegin, MixNext, MixEnd, MixDisconnect, vars
  <2>2. ASSUME NEW u \in Thread
        PROVE  EndOf(u)'
    <3>1. EndOf(u) /\ (pc[u] \in Ending => dev[u] \in Device)
      BY DEF IInv, EndInv, PlaceInv, OnDevice
    <3> QED
      BY <2>1, <3>1, Keeps DEF Kept, EndOf, Unlinked
  <2> QED
    BY <2>1, <2>2 DEF IInv, EndInv
<1> QED
  BY <1>1, <1>2, EndBegin DEF Next

-----------------------------------------------------------------------------
(* The mixer, and the thread that takes a context from under it.            *)

LEMMA BarrierStep ==
  ASSUME IInv, [Next]_vars
  PROVE  \A t \in Thread : BarrierOf(t)'
<1>0. \A u \in Thread : /\ BarrierOf(u) /\ EndOf(u)
                        /\ pc[u] = "barrier" => ctx[u] \in Context \cap born /\ dev[u] \in Device
  BY DEF IInv, MixInv, EndInv, PlaceInv, OnContext, OnDevice, Ending
<1>1. ASSUME NEW t \in Thread, Begin(t) \/ Step(t), NEW u \in Thread \ {t}
      PROVE  BarrierOf(u)'
  <2>0. pc'[u] = pc[u] /\ ctx'[u] = ctx[u] /\ dev'[u] = dev[u]
    BY <1>1, Stays DEF OthersStay
  <2>1. CASE Kept
    BY <1>0, <2>0, <2>1 DEF Kept, BarrierOf
  <2>2. ASSUME NEW v \in Thread, NEW c \in Context, NEW d \in Device, Linked(v, c, d)
        PROVE  BarrierOf(u)'
    <3>1. \A x \in born : next'[x] = next[x]
      BY <2>2 DEF Linked, CreateLink, IInv, TypeOK
    <3>2. \A e \in Device : InList(e) \subseteq InList(e)'
      BY <2>2 DEF Linked
    <3> QED
      BY <1>0, <2>0, <3>1, <3>2 DEF BarrierOf
  <2>3. ASSUME NEW v \in Thread, NEW c \in Context, NEW d \in Device, Cut(v, c, d)
        PROVE  BarrierOf(u)'
    <3>1. pc'[v] = "barrier" /\ pc[v] \in {"destroy", "close"}
      BY <2>3 DEF Cut, Unlink, Go, IInv, TypeOK
    <3>2. pc[u] = "barrier" => dev[u] # d
      BY <2>0, <2>3, <3>1 DEF Cut, Unlink, IInv, EndInv, Ending
    <3>3. \A x \in Context : x \notin InList(d) => next'[x] = next[x]
      BY <2>3 DEF Cut, Unlink
    <3>4. pc[u] = "barrier" => next'[ctx[u]] = next[ctx[u]] /\ InList(dev[u])' = InList(dev[u])
      BY <1>0, <2>0, <2>3, <3>2, <3>3 DEF EndOf, Unlinked, Cut
    <3> QED
      BY <1>0, <2>0, <3>4 DEF BarrierOf
  <2> QED
    BY <2>1, <2>2, <2>3, ListStep
<1>2. ASSUME NEW t \in Thread, Begin(t) \/ Step(t)
      PROVE  BarrierOf(t)'
  <2>1. CASE Unlink(t)
    <3>1. PICK c \in Context, d \in Device : Cut(t, c, d)
      BY <2>1, CutStep
    <3>2. ctx'[t] = c /\ dev'[t] = d
      BY <3>1 DEF Cut, Unlink
    <3> QED
      BY <3>1, <3>2 DEF BarrierOf, Cut
  <2>2. CASE ~Unlink(t)
    <3>1. pc'[t] # "barrier" \/ UNCHANGED <<head, next, pc, ctx, dev>>
      BY <1>2, <2>2 DEF Begin, Step, OpenDevice, VerifyDevice, DeviceDecRef, CreateContext,
           StopForAttributes, Restart, RestartFails, HandleDisconnect, CreateFails, CreateLink,
           MakeContextCurrent, SetThreadContext, ReleaseThreadCtx, GetLocal, ReadGlobal,
           IncRefGlobal, EnterMutex, LeaveMutex, DecRef, DestroyContext, CloseDevice, Barrier,
           DropLocal, DropGlobal, DropOwn, StopPlayback, ClosePlayback,
           Go, Aim, Done, lists, local, IInv, TypeOK
    <3> QED
      BY <1>0, <3>1, Keeps DEF BarrierOf, Kept
  <2> QED
    BY <2>1, <2>2
<1>3. CASE \/ \E d \in Device : MixBegin(d) \/ MixNext(d) \/ MixEnd(d) \/ MixDisconnect(d)
           \/ UNCHANGED vars
  <2>1. UNCHANGED <<head, next, pc, ctx, dev>>
    BY <1>3 DEF MixBegin, MixNext, MixEnd, MixDisconnect, vars, lists, local
  <2> QED
    BY <1>0, <2>1, Keeps DEF BarrierOf, Kept
<1> QED
  BY <1>1, <1>2, <1>3 DEF Next

LEMMA MixStep ==
  ASSUME IInv, [Next]_vars
  PROVE  MixInv'
<1>0. IInv /\ (\A d \in Device : MixOf(d)) /\ TypeOK
  BY DEF IInv, MixInv
<1>1. ASSUME NEW t \in Thread, Begin(t) \/ Step(t), NEW d \in Device
      PROVE  MixOf(d)'
  <2> USE DEF Go, Aim, Done, lists, local, playback
  <2>1. UNCHANGED mixer
    BY <1>1 DEF Begin, Step, OpenDevice, VerifyDevice, DeviceDecRef, CreateContext,
           StopForAttributes, Restart, RestartFails, HandleDisconnect, CreateFails, CreateLink,
           MakeContextCurrent, SetThreadContext, ReleaseThreadCtx, GetLocal, ReadGlobal,
           IncRefGlobal, EnterMutex, LeaveMutex, DecRef, DestroyContext, CloseDevice, Unlink,
           Barrier, DropLocal, DropGlobal, DropOwn, StopPlayback, ClosePlayback
  <2>2. Mutex'[d] = Mixing => Mutex[d] = Mixing /\ (running'[d] = running[d] \/ running'[d])
    <3>1. CASE EnterMutex(t)
      BY <1>0, <3>1, MixingAssumption DEF EnterMutex, TypeOK
    <3>2. CASE LeaveMutex(t)
      BY <1>0, <3>2, MixingAssumption DEF LeaveMutex, TypeOK
    <3>3. CASE StopForAttributes(t) \/ Restart(t) \/ CreateFails(t) \/ StopPlayback(t)
      BY <1>0, <3>3 DEF StopForAttributes, Restart, CreateFails, StopPlayback, Joined, TypeOK
    <3>4. CASE ~(EnterMutex(t) \/ LeaveMutex(t) \/ StopForAttributes(t) \/ Restart(t)
                 \/ CreateFails(t) \/ StopPlayback(t))
      <4>1. UNCHANGED <<Mutex, running>>
        BY <1>1, <3>4 DEF Begin, Step, OpenDevice, VerifyDevice, DeviceDecRef, CreateContext,
           RestartFails, HandleDisconnect, CreateLink,
           MakeContextCurrent, SetThreadContext, ReleaseThreadCtx, GetLocal, ReadGlobal,
           IncRefGlobal, DecRef, DestroyContext, CloseDevice, Unlink,
           Barrier, DropLocal, DropGlobal, DropOwn, ClosePlayback
      <4> QED
        BY <4>1
    <3> QED
      BY <3>1, <3>2, <3>3, <3>4
  <2>3. \A u \in Thread : pc[u] = "barrier" /\ dev[u] = d /\ Mutex[d] = Mixing =>
          pc'[u] = "barrier" /\ ctx'[u] = ctx[u] /\ dev'[u] = dev[u]
    <3>1. pc[t] = "barrier" => UNCHANGED <<pc, ctx, dev>> \/ Mutex[dev[t]] = Null
      BY <1>1 DEF Begin, Step, OpenDevice, VerifyDevice, DeviceDecRef, CreateContext,
           StopForAttributes, Restart, RestartFails, HandleDisconnect, CreateFails, CreateLink,
           MakeContextCurrent, SetThreadContext, ReleaseThreadCtx, GetLocal, ReadGlobal,
           IncRefGlobal, EnterMutex, LeaveMutex, DecRef, DestroyContext, CloseDevice, Unlink,
           Barrier, DropLocal, DropGlobal, DropOwn, StopPlayback, ClosePlayback, Quiet
    <3> QED
      BY <1>1, <3>1, Stays, MixingAssumption DEF OthersStay
  <2>4. \A x \in InList(d) : \/ x \in InList(d)'
                             \/ \E u \in Thread : pc'[u] = "barrier" /\ ctx'[u] = x /\ dev'[u] = d
    <3>1. ASSUME NEW v \in Thread, NEW c \in Context, NEW e \in Device, Cut(v, c, e)
          PROVE  pc'[v] = "barrier" /\ ctx'[v] = c /\ dev'[v] = e
      BY <1>0, <3>1 DEF Cut, Unlink, TypeOK
    <3> QED
      BY <3>1, ListStep DEF Kept, Linked, Cut
  <2> QED
    BY <1>0, <2>1, <2>2, <2>3, <2>4 DEF MixOf
<1>2. ASSUME NEW e \in Device, MixBegin(e) \/ MixNext(e) \/ MixEnd(e) \/ MixDisconnect(e), NEW d \in Device
      PROVE  MixOf(d)'
  <2>1. UNCHANGED <<head, next, running, pc, ctx, dev>>
    BY <1>2 DEF MixBegin, MixNext, MixEnd, MixDisconnect, lists, local, playback
  <2>2. InList(d)' = InList(d) /\ head[d] \in InList(d) \cup {Null}
        /\ \A x \in InList(d) : next[x] \in InList(d) \cup {Null}
    BY <2>1, Keeps, ListChain DEF Kept, Fol
  <2>3. CASE e # d \/ MixDisconnect(e)
    <3>1. Mutex'[d] = Mutex[d] /\ mixer'[d] = mixer[d]
      BY <1>0, <1>2, <2>3 DEF MixBegin, MixNext, MixEnd, MixDisconnect, TypeOK, playback
    <3> QED
      BY <1>0, <2>1, <2>2, <3>1, ZenonT(30) DEF MixOf
  <2>4. CASE MixBegin(d)
    <3>1. mixer'[d] = head[d] /\ running[d]
      BY <1>0, <2>4 DEF MixBegin, TypeOK
    <3> QED
      BY <2>1, <2>2, <3>1 DEF MixOf
  <2>5. CASE MixNext(d)
    <3>1. Mutex[d] = Mixing /\ mixer[d] # Null /\ mixer'[d] = next[mixer[d]]
      BY <1>0, <2>5 DEF MixNext, TypeOK
    <3>2. next[mixer[d]] \in InList(d) \cup {Null}
      <4>1. \A u \in Thread : BarrierOf(u)
        BY DEF IInv, MixInv
      <4> QED
        BY <1>0, <2>2, <3>1, <4>1 DEF MixOf, BarrierOf
    <3> QED
      BY <1>0, <2>1, <2>2, <3>1, <3>2 DEF MixOf
  <2>6. CASE MixEnd(d)
    BY <1>0, <2>6, MixingAssumption DEF MixEnd, MixOf, TypeOK
  <2> QED
    BY <1>2, <2>3, <2>4, <2>5, <2>6
<1>3. ASSUME UNCHANGED vars
      PROVE  \A d \in Device : MixOf(d)'
  <2>1. UNCHANGED <<head, next, running, Mutex, mixer, pc, ctx, dev>>
    BY <1>3 DEF vars
  <2> QED
    BY <1>0, <2>1, Keeps DEF Kept, MixOf
<1>4. \A d \in Device : MixOf(d)'
  BY <1>1, <1>2, <1>3 DEF Next
<1> QED
  BY <1>4, BarrierStep DEF MixInv

-----------------------------------------------------------------------------
(* The global current context.                                              *)

LEMMA GlobalStep ==
  ASSUME IInv, [Next]_vars
  PROVE  GlobalInv'
<1>0. /\ TypeOK /\ GlobalInv /\ (\A u \in Thread : u # Null)
      /\ \A u \in Thread : GlobalOf(u)
  BY NullAssumption DEF IInv, GlobalInv
(* A thread that stays where it was.                                        *)
<1>1. ASSUME NEW u \in Thread, pc'[u] = pc[u], ctx'[u] = ctx[u], dev'[u] = dev[u]
      PROVE  GlobalOf(u)'
  <2>1. pc[u] \in {"read", "wild"} => /\ dev[u] \in Device \cap born
                                      /\ dev[u] \in open' => dev[u] \in open
    <3>1. pc[u] \in {"read", "wild"} => dev[u] \in Device \cap born
      BY DEF IInv, PlaceInv, BornInv, OnContext
    <3>2. open' \cap born \subseteq open
      BY DEF Next, Begin, Step, OpenDevice, VerifyDevice, DeviceDecRef, CreateContext,
           StopForAttributes, Restart, RestartFails, HandleDisconnect, CreateFails, CreateLink,
           MakeContextCurrent, SetThreadContext, ReleaseThreadCtx, GetLocal, ReadGlobal,
           IncRefGlobal, EnterMutex, LeaveMutex, DecRef, DestroyContext, CloseDevice, Unlink,
           Barrier, DropLocal, DropGlobal, DropOwn, StopPlayback, ClosePlayback,
           MixBegin, MixNext, MixEnd, MixDisconnect, vars, lists
    <3> QED
      BY <3>1, <3>2
  <2>2. pc[u] = "read" /\ dev[u] \in open => InList(dev[u]) \subseteq InList(dev[u])'
    <3>1. ASSUME NEW v \in Thread, NEW c \in Context, NEW d \in Device, Cut(v, c, d),
                 pc[u] = "read", dev[u] \in open
          PROVE  dev[u] # d
      BY <3>1 DEF Cut, Unlink, IInv, PlaceInv, Ending
    <3> QED
      BY <1>1, <2>1, <3>1, ListStep DEF Kept, Linked, Cut
  <2> QED
    BY <1>0, <1>1, <2>1, <2>2 DEF GlobalOf
<1>2. ASSUME NEW t \in Thread, ReadGlobal(t)
      PROVE  GlobalOf(t)'
  <2>1. pc'[t] = "read" /\ ctx'[t] = GlobalContext /\ dev'[t] = device[GlobalContext] /\ open' = open
        /\ ListLock = Null /\ GlobalContext # Null
    BY <1>0, <1>2 DEF ReadGlobal, LockLists, Go, Aim, lists, TypeOK
  <2>2. \A u \in Thread : pc[u] \in {"barrier", "local", "global"} => dev[u] \notin open /\ dev[u] = device[ctx[u]]
    BY <1>0, <2>1 DEF IInv, PlaceInv, Ending, OnContext
  <2>3. device[GlobalContext] \in open => GlobalContext \in InList(device[GlobalContext])
    BY <1>0, <2>1, <2>2 DEF GlobalInv
  <2>4. device[GlobalContext] \in Device
    BY <2>1, Held DEF IInv, BornInv, TypeOK
  <2>5. \A d \in Device : InList(d)' = InList(d)
    BY <1>2, Keeps DEF ReadGlobal, lists, Kept
  <2> QED
    BY <2>1, <2>3, <2>4, <2>5 DEF GlobalOf
<1>3. ASSUME NEW t \in Thread, IncRefGlobal(t)
      PROVE  GlobalOf(t)'
  <2>1. pc[t] = "read" /\ dev'[t] = dev[t] /\ open' = open /\ dev[t] \in Device
    BY <1>3 DEF IncRefGlobal, lists, IInv, PlaceInv, BornInv, OnContext
  <2>2. pc'[t] = "wild" => ref[ctx[t]] = 0
    BY <1>0, <1>3 DEF IncRefGlobal, Go, TypeOK
  <2>3. dev[t] \in open => ref[ctx[t]] > 0
    BY <1>0, <2>1, Held DEF GlobalOf
  <2>4. pc'[t] # "read"
    BY <1>0, <1>3 DEF IncRefGlobal, Go, TypeOK
  <2> QED
    BY <2>1, <2>2, <2>3, <2>4 DEF GlobalOf
<1>4. ASSUME NEW t \in Thread, Begin(t) \/ Step(t)
      PROVE  GlobalOf(t)'
  <2>1. CASE ReadGlobal(t) \/ IncRefGlobal(t)
    BY <1>2, <1>3, <2>1
  <2>2. CASE ~(ReadGlobal(t) \/ IncRefGlobal(t))
    <3>1. pc'[t] \notin {"read", "wild"} \/ UNCHANGED <<pc, ctx, dev>>
      BY <1>0, <1>4, <2>2 DEF Begin, Step, OpenDevice, VerifyDevice, DeviceDecRef, CreateContext,
           StopForAttributes, Restart, RestartFails, HandleDisconnect, CreateFails, CreateLink,
           MakeContextCurrent, SetThreadContext, ReleaseThreadCtx, GetLocal,
           EnterMutex, LeaveMutex, DecRef, DestroyContext, CloseDevice, Unlink,
           Barrier, DropLocal, DropGlobal, DropOwn, StopPlayback, ClosePlayback,
           Go, Aim, Done, local, TypeOK
    <3> QED
      BY <1>1, <3>1 DEF GlobalOf
  <2> QED
    BY <2>1, <2>2
<1>5. \A t \in Thread : GlobalOf(t)'
  <2>1. CASE \E t \in Thread : Begin(t) \/ Step(t)
    BY <1>1, <1>4, <2>1, Stays DEF OthersStay
  <2>2. CASE UNCHANGED <<pc, ctx, dev>>
    BY <1>1, <2>2
  <2> QED
    BY <2>1, <2>2 DEF Next, MixBegin, MixNext, MixEnd, MixDisconnect, vars, local
(* The context that is current after the step.                              *)
<1> DEFINE Leaves(t) == pc[t] \in {"barrier", "local", "global"} /\ ctx[t] = GlobalContext
<1>6. ASSUME GlobalContext' = GlobalContext, GlobalContext # Null
      PROVE  \/ GlobalContext \in InList(device[GlobalContext])'
             \/ \E t \in Thread : Leaves(t)'
  <2>1. GlobalContext \in born /\ device[GlobalContext] \in Device
    BY <1>6, Held DEF IInv, BornInv, TypeOK
  <2>2. device'[GlobalContext] = device[GlobalContext]
    <3>1. ASSUME NEW t \in Thread, NEW c \in Context, CreateLink(t, c)
          PROVE  device'[GlobalContext] = device[GlobalContext]
      BY <1>0, <2>1, <3>1 DEF CreateLink, TypeOK
    <3>2. UNCHANGED device \/ \E t \in Thread, c \in Context : CreateLink(t, c)
      BY DEF Next, Begin, Step, OpenDevice, VerifyDevice, DeviceDecRef, CreateContext,
           StopForAttributes, Restart, RestartFails, HandleDisconnect, CreateFails,
           MakeContextCurrent, SetThreadContext, ReleaseThreadCtx, GetLocal, ReadGlobal,
           IncRefGlobal, EnterMutex, LeaveMutex, DecRef, DestroyContext, CloseDevice, Unlink,
           Barrier, DropLocal, DropGlobal, DropOwn, StopPlayback, ClosePlayback,
           MixBegin, MixNext, MixEnd, MixDisconnect, vars, lists
    <3> QED
      BY <3>1, <3>2
  <2>3. CASE GlobalContext \in InList(device[GlobalContext])
    <3>1. ASSUME NEW v \in Thread, NEW c \in Context, NEW d \in Device, Cut(v, c, d)
          PROVE  pc'[v] = "barrier" /\ ctx'[v] = c
      BY <1>0, <3>1 DEF Cut, Unlink, Go, TypeOK
    <3> QED
      BY <1>6, <2>1, <2>2, <2>3, <3>1, ListStep DEF Kept, Linked, Cut
  <2>4. ASSUME NEW t \in Thread, Leaves(t)
        PROVE  Leaves(t)'
    <3>1. ASSUME Begin(t) \/ Step(t)
          PROVE  Leaves(t)'
      BY <1>0, <1>6, <2>4, <3>1 DEF Begin, Step, OpenDevice, VerifyDevice, DeviceDecRef, CreateContext,
           StopForAttributes, Restart, RestartFails, HandleDisconnect, CreateFails, CreateLink,
           MakeContextCurrent, SetThreadContext, ReleaseThreadCtx, GetLocal, ReadGlobal,
           IncRefGlobal, EnterMutex, LeaveMutex, DecRef, DestroyContext, CloseDevice, Unlink,
           Barrier, DropLocal, DropGlobal, DropOwn, StopPlayback, ClosePlayback, IsCurrent, Go, TypeOK
    <3>2. CASE \E u \in Thread \ {t} : Begin(u) \/ Step(u)
      BY <1>6, <2>4, <3>2, Stays DEF OthersStay
    <3>3. CASE UNCHANGED <<pc, ctx, dev>>
      BY <1>6, <2>4, <3>3
    <3> QED
      BY <3>1, <3>2, <3>3 DEF Next, MixBegin, MixNext, MixEnd, MixDisconnect, vars, local
  <2> QED
    BY <1>0, <1>6, <2>3, <2>4 DEF GlobalInv
<1>7. ASSUME NEW t \in Thread, NEW c \in Context \cup {Null}, MakeContextCurrent(t, c), c # Null
      PROVE  GlobalContext' = c /\ c \in InList(device[c])'
  <2>1. c = Null \/ IsContext(c)
    BY <1>7 DEF MakeContextCurrent
  <2>2. PICK d \in Device : c \in InList(d) /\ device[c] = d
    BY <1>0, <1>7, <2>1 DEF IsContext, IInv, ListInv, TypeOK
  <2>3. GlobalContext' = c /\ UNCHANGED <<head, next, device>>
    BY <1>7 DEF MakeContextCurrent, lists
  <2> QED
    BY <2>2, <2>3, Keeps DEF Kept
<1>8. GlobalContext' \in {GlobalContext, Null} \/ \E t \in Thread, c \in Context \cup {Null} : MakeContextCurrent(t, c) /\ GlobalContext' = c
  BY DEF Next, Begin, Step, OpenDevice, VerifyDevice, DeviceDecRef, CreateContext,
           StopForAttributes, Restart, RestartFails, HandleDisconnect, CreateFails, CreateLink,
           MakeContextCurrent, SetThreadContext, ReleaseThreadCtx, GetLocal, ReadGlobal,
           IncRefGlobal, EnterMutex, LeaveMutex, DecRef, DestroyContext, CloseDevice, Unlink,
           Barrier, DropLocal, DropGlobal, DropOwn, StopPlayback, ClosePlayback,
           MixBegin, MixNext, MixEnd, MixDisconnect, vars, current
<1>9. GlobalContext' # Null =>
        \/ GlobalContext' \in InList(device[GlobalContext])'
        \/ \E t \in Thread : pc'[t] \in {"barrier", "local", "global"} /\ ctx'[t] = GlobalContext'
  BY <1>6, <1>7, <1>8
<1> QED
  BY <1>5, <1>9 DEF GlobalInv

-----------------------------------------------------------------------------
(* Playback.                                                                *)

LEMMA PlaySame ==
  ASSUME IInv, NEW t \in Thread, OthersStay(t), NEW d \in Device,
         running'[d] = running[d], head'[d] = head[d], Connected'[d] = Connected[d],
         d \in open' <=> d \in open,
         dev[t] = d /\ (Sees(t) \/ Closes(t) \/ Restarts(t)) => dev'[t] = d,
         dev[t] = d => /\ Sees(t) => Sees(t)'
                       /\ Closes(t) => Closes(t)'
                       /\ Restarts(t) => Restarts(t)'
  PROVE  PlayOf(d)'
<1>1. PlayOf(d)
  BY DEF IInv, PlayInv
<1>2. ASSUME NEW u \in Thread, dev[u] = d
      PROVE  /\ Sees(u) => dev'[u] = d /\ Sees(u)'
             /\ Closes(u) => dev'[u] = d /\ Closes(u)'
             /\ Restarts(u) => dev'[u] = d /\ Restarts(u)'
  BY <1>2 DEF OthersStay, Sees, Closes, Restarts, Unlinked
<1> QED
  BY <1>1, <1>2 DEF PlayOf

(* Steps that touch no device's playback.                                   *)
LEMMA PlayKept ==
  ASSUME IInv, NEW t \in Thread, OthersStay(t), UNCHANGED <<running, head, Connected, open>>,
         Sees(t) \/ Closes(t) \/ Restarts(t) =>
            dev'[t] = dev[t] /\ (Sees(t) => Sees(t)') /\ (Closes(t) => Closes(t)')
                             /\ (Restarts(t) => Restarts(t)')
  PROVE  \A d \in Device : PlayOf(d)'
BY PlaySame

LEMMA PlayBegin ==
  ASSUME IInv, NEW t \in Thread, Begin(t)
  PROVE  \A d \in Device : PlayOf(d)'
<1> USE DEF lists, local, playback
<1>0. OthersStay(t) /\ TypeOK /\ (\A u \in Thread : u # Null) /\ \A d \in Device : PlayOf(d)
  BY Stays, NullAssumption DEF IInv, PlayInv
<1>1. ~(Sees(t) \/ Closes(t) \/ Restarts(t))
  BY DEF Begin, OpenDevice, VerifyDevice, CreateContext, CloseDevice, DestroyContext,
         MakeContextCurrent, SetThreadContext, ReleaseThreadCtx, GetLocal, ReadGlobal,
         Sees, Closes, Restarts, Creating, Ending, Unlinked
<1>2. ASSUME NEW d \in Device, OpenDevice(t, d), NEW e \in Device
      PROVE  PlayOf(e)'
  <2>1. UNCHANGED <<running, head>> /\ \A x \in Device \ {d} : Connected'[x] = Connected[x]
    BY <1>0, <1>2 DEF OpenDevice, TypeOK
  <2>2. open' = open \cup {d} /\ d \notin born
    BY <1>2 DEF OpenDevice
  <2>3. head[d] = Null
    BY <2>2, ListChain DEF Fol, IInv, ListInv, BornInv
  <2>4. CASE e # d
    BY <1>0, <1>1, <2>1, <2>2, <2>4, PlaySame
  <2>5. CASE e = d
    <3>1. \A u \in Thread : dev[u] = d => ~Sees(u)
      BY <2>2 DEF IInv, PlaceInv, OnDevice, Sees, Unlinked, Creating, Ending
    <3>2. ~running[d]
      BY <1>0, <2>3, <3>1 DEF PlayOf
    <3> QED
      BY <2>1, <2>3, <2>5, <3>2 DEF PlayOf
  <2> QED
    BY <2>4, <2>5
<1>3. ASSUME NEW d \in Device, CloseDevice(t, d), NEW e \in Device
      PROVE  PlayOf(e)'
  <2>1. UNCHANGED <<running, head, Connected>> /\ open' = open \ {d} /\ d \in open /\ ListLock = Null
    BY <1>3 DEF CloseDevice
  <2>2. CASE e # d
    BY <1>0, <1>1, <2>1, <2>2, PlaySame
  <2>3. CASE e = d
    <3>1. \A u \in Thread : dev[u] = d => ~Sees(u)
      BY <1>0, <2>1 DEF IInv, PlaceInv, Sees, Unlinked, Creating, Ending
    <3>2. running[d] => head[d] # Null
      BY <1>0, <3>1 DEF PlayOf
    <3>3. head[d] # Null => dev'[t] = d /\ Closes(t)'
      BY <1>0, <1>3 DEF CloseDevice, Go, Aim, Closes, Ending, TypeOK
    <3> QED
      BY <2>1, <2>3, <3>2, <3>3 DEF PlayOf
  <2> QED
    BY <2>2, <2>3
<1>4. CASE \/ \E d \in Device : VerifyDevice(t, d) \/ CreateContext(t, d)
           \/ \E c \in Context : DestroyContext(t, c)
           \/ \E c \in Context \cup {Null} : MakeContextCurrent(t, c) \/ SetThreadContext(t, c)
           \/ ReleaseThreadCtx(t) \/ GetLocal(t) \/ ReadGlobal(t)
  <2>1. UNCHANGED <<running, head, Connected, open>>
    BY <1>4 DEF VerifyDevice, CreateContext, DestroyContext, MakeContextCurrent, SetThreadContext,
                ReleaseThreadCtx, GetLocal, ReadGlobal
  <2> QED
    BY <1>0, <1>1, <2>1, PlayKept
<1> QED
  BY <1>2, <1>3, <1>4 DEF Begin

LEMMA PlayCreate ==
  ASSUME IInv, NEW t \in Thread, Step(t), pc[t] \in Creating \cup {"failed"}
  PROVE  \A d \in Device : PlayOf(d)'
<1> USE DEF Go, Aim, Done, lists, local, playback, Sees, Closes, Restarts, Unlinked, Creating, Ending
<1>0. /\ OthersStay(t) /\ TypeOK /\ (\A d \in Device : PlayOf(d)) /\ LinkOf(t)
      /\ dev[t] \in Device /\ (pc[t] # "failed" => dev[t] \in open)
  BY Stays DEF IInv, PlayInv, PlaceInv, OnDevice
<1>1. PICK e \in Device : e = dev[t]
  BY <1>0
<1>2. ASSUME NEW d \in Device \ {e}
      PROVE  PlayOf(d)'
  <2>1. /\ running'[d] = running[d] /\ head'[d] = head[d] /\ Connected'[d] = Connected[d]
        /\ open' = open
    BY <1>0, <1>1 DEF Step, StopForAttributes, Restart, RestartFails, HandleDisconnect, CreateLink,
         CreateFails, DeviceDecRef, IncRefGlobal, EnterMutex, LeaveMutex, DecRef, Unlink, Barrier,
         DropLocal, DropGlobal, DropOwn, StopPlayback, ClosePlayback, TypeOK
  <2> QED
    BY <1>0, <1>1, <2>1, PlaySame
<1>3. CASE StopForAttributes(t)
  <2>1. /\ UNCHANGED <<open, head, Connected>> /\ dev'[t] = e /\ pc'[t] = "update"
        /\ running'[e] => running[e]
    BY <1>0, <1>1, <1>3 DEF StopForAttributes, TypeOK
  <2> QED
    BY <1>0, <1>1, <1>2, <1>3, <2>1 DEF PlayOf, StopForAttributes
<1>4. CASE Restart(t)
  <2>1. UNCHANGED <<open, head, Connected>> /\ dev'[t] = e /\ pc'[t] = "link" /\ running'[e]
    BY <1>0, <1>1, <1>4 DEF Restart, TypeOK
  <2> QED
    BY <1>0, <1>1, <1>2, <1>4, <2>1 DEF PlayOf, Restart
<1>5. CASE RestartFails(t)
  <2>1. UNCHANGED <<open, head, Connected, running>> /\ dev'[t] = e /\ pc'[t] = "failed" /\ ~running[e]
    BY <1>0, <1>1, <1>5 DEF RestartFails, TypeOK
  <2> QED
    BY <1>0, <1>1, <1>2, <2>1 DEF PlayOf
<1>6. CASE HandleDisconnect(t)
  <2>1. UNCHANGED <<open, head, running>> /\ ~Connected'[e] /\ pc[t] = "failed"
    BY <1>0, <1>1, <1>6 DEF HandleDisconnect, TypeOK
  <2> QED
    BY <1>0, <1>1, <1>2, <2>1 DEF PlayOf, OthersStay
<1>7. ASSUME NEW c \in Context, CreateLink(t, c)
      PROVE  PlayOf(e)'
  <2>1. UNCHANGED <<open, Connected, running>> /\ head'[e] # Null /\ running[e] /\ e \in open
    BY <1>0, <1>1, <1>7, NullAssumption DEF CreateLink, TypeOK, LinkOf
  <2> QED
    BY <2>1 DEF PlayOf
<1>8. CASE CreateFails(t)
  <2>1. UNCHANGED <<open, head, Connected>> /\ pc[t] = "link" /\ e \in open
    BY <1>0, <1>1, <1>8 DEF CreateFails, TypeOK
  <2>2. IF head[e] = Null THEN ~running'[e] ELSE running'[e] = running[e]
    BY <1>0, <1>1, <1>8 DEF CreateFails, Empty, TypeOK
  <2> QED
    BY <1>0, <1>1, <1>2, <2>1, <2>2 DEF PlayOf, LinkOf
<1> QED
  BY <1>2, <1>3, <1>4, <1>5, <1>6, <1>7, <1>8 DEF Step, DeviceDecRef, IncRefGlobal, EnterMutex,
     LeaveMutex, DecRef, Unlink, Barrier, DropLocal, DropGlobal, DropOwn, StopPlayback, ClosePlayback

LEMMA PlayEnd ==
  ASSUME IInv, NEW t \in Thread, Step(t), pc[t] \in Ending
  PROVE  \A d \in Device : PlayOf(d)'
<1> USE DEF Go, Aim, Done, lists, local, playback, Sees, Closes, Restarts, Unlinked, Creating, Ending
<1>0. /\ OthersStay(t) /\ TypeOK /\ (\A d \in Device : PlayOf(d)) /\ EndOf(t)
      /\ dev[t] \in Device
  BY Stays DEF IInv, PlayInv, PlaceInv, OnDevice, EndInv
<1>1. PICK e \in Device : e = dev[t]
  BY <1>0
<1>2. ASSUME NEW d \in Device \ {e}
      PROVE  PlayOf(d)'
  <2>1. /\ running'[d] = running[d] /\ head'[d] = head[d] /\ Connected'[d] = Connected[d]
        /\ open' = open
    BY <1>0, <1>1 DEF Step, StopForAttributes, Restart, RestartFails, HandleDisconnect, CreateLink,
         CreateFails, DeviceDecRef, IncRefGlobal, EnterMutex, LeaveMutex, DecRef, Unlink, Barrier,
         DropLocal, DropGlobal, DropOwn, StopPlayback, ClosePlayback, TypeOK
  <2> QED
    BY <1>0, <1>1, <2>1, PlaySame
<1>3. CASE Unlink(t)
  <2>1. /\ UNCHANGED <<open, running, Connected>> /\ dev'[t] = e /\ pc'[t] = "barrier"
        /\ head'[e] # Null => head[e] # Null
    <3>1. head[e] = Null => UNCHANGED head
      BY <1>0, <1>1, <1>3, NullAssumption DEF Unlink, IInv, PlaceInv, OnContext
    <3> QED
      BY <1>0, <1>1, <1>3, <3>1 DEF Unlink, TypeOK
  <2>2. PlayOf(e)'
    BY <1>0, <1>1, <1>3, <2>1 DEF PlayOf, OthersStay, Unlink
  <2> QED
    BY <1>2, <2>2
<1>4. CASE Barrier(t) \/ DropLocal(t) \/ DropGlobal(t)
  <2>1. /\ UNCHANGED <<running, head, Connected, open>> /\ dev'[t] = dev[t]
        /\ pc'[t] \in {"local", "global", "own"} /\ pc[t] \in {"barrier", "local", "global"}
    BY <1>0, <1>4 DEF Barrier, DropLocal, DropGlobal, TypeOK
  <2> QED
    BY <1>0, <2>1, PlayKept
<1>5. CASE DropOwn(t)
  <2>1. /\ UNCHANGED <<running, head, Connected, open>> /\ pc[t] = "own"
        /\ \/ pc'[t] = "stop" /\ dev'[t] = e
           \/ head[e] # Null /\ e \in open
           \/ head[e] # Null /\ pc'[t] = "close" /\ dev'[t] = e
    BY <1>0, <1>1, <1>5 DEF DropOwn, Empty, TypeOK
  <2>2. PlayOf(e)'
    BY <1>0, <1>1, <2>1 DEF PlayOf, OthersStay
  <2> QED
    BY <1>2, <2>2
<1>6. CASE StopPlayback(t)
  <2>1. UNCHANGED <<head, Connected, open>> /\ head[e] = Null /\ ~running'[e]
    BY <1>0, <1>1, <1>6 DEF StopPlayback, EndOf, TypeOK
  <2>2. PlayOf(e)'
    BY <2>1 DEF PlayOf
  <2> QED
    BY <1>2, <2>2
<1>7. CASE ClosePlayback(t)
  <2>1. UNCHANGED <<running, head, Connected, open>> /\ pc[t] = "last"
    BY <1>7 DEF ClosePlayback
  <2> QED
    BY <1>0, <2>1, PlayKept
<1> QED
  BY <1>3, <1>4, <1>5, <1>6, <1>7 DEF Step, DeviceDecRef, StopForAttributes, Restart, RestartFails,
     HandleDisconnect, CreateLink, CreateFails, IncRefGlobal, EnterMutex, LeaveMutex, DecRef

LEMMA PlayOther ==
  ASSUME IInv, NEW t \in Thread, Step(t), pc[t] \notin Creating \cup {"failed"} \cup Ending
  PROVE  \A d \in Device : PlayOf(d)'
<1>1. UNCHANGED <<running, head, Connected, open>>
  BY DEF Step, DeviceDecRef, StopForAttributes, Restart, RestartFails, HandleDisconnect, CreateLink,
         CreateFails, IncRefGlobal, EnterMutex, LeaveMutex, DecRef, Unlink, Barrier, DropLocal,
         DropGlobal, DropOwn, StopPlayback, ClosePlayback, Creating, Ending, lists, playback
<1>2. ~(Sees(t) \/ Closes(t) \/ Restarts(t))
  BY DEF Sees, Closes, Restarts, Creating, Ending, Unlinked
<1> QED
  BY <1>1, <1>2, Stays, PlayKept

(* A context is put on a list while playback runs.                          *)
LEMMA LinkOfStep ==
  ASSUME IInv, [Next]_vars
  PROVE  \A t \in Thread : LinkOf(t)'
<1> USE DEF Go, Aim, Done, lists, local, playback
<1>0. TypeOK /\ \A t \in Thread : LinkOf(t) /\ (pc[t] = "link" => dev[t] \in open /\ ListLock = t)
  BY DEF IInv, PlayInv, PlaceInv, Creating
<1>1. ASSUME NEW t \in Thread, Begin(t) \/ Step(t), NEW u \in Thread \ {t}, pc'[u] = "link"
      PROVE  running'[dev'[u]]
  <2>1. pc[u] = "link" /\ dev'[u] = dev[u] /\ running[dev[u]] /\ dev[u] \in open /\ ListLock = u
    BY <1>0, <1>1, Stays DEF OthersStay, LinkOf
  <2>2. pc[t] \notin {"create", "update", "link"} /\ ~(pc[t] = "stop" /\ dev[t] = dev[u])
    BY <1>1, <2>1 DEF IInv, PlaceInv, Creating, Ending
  <2>3. running'[dev[u]] = running[dev[u]]
    BY <1>0, <1>1, <2>2 DEF Begin, Step, OpenDevice, VerifyDevice, DeviceDecRef, CreateContext,
           StopForAttributes, Restart, RestartFails, HandleDisconnect, CreateFails, CreateLink,
           MakeContextCurrent, SetThreadContext, ReleaseThreadCtx, GetLocal, ReadGlobal,
           IncRefGlobal, EnterMutex, LeaveMutex, DecRef, DestroyContext, CloseDevice, Unlink,
           Barrier, DropLocal, DropGlobal, DropOwn, StopPlayback, ClosePlayback, TypeOK
  <2> QED
    BY <2>1, <2>3
<1>2. ASSUME NEW t \in Thread, Begin(t) \/ Step(t), pc'[t] = "link"
      PROVE  running'[dev'[t]]
  <2>1. CASE Restart(t)
    <3>1. PICK e \in Device : e = dev[t]
      BY <2>1 DEF Restart, IInv, PlaceInv, OnDevice, Creating
    <3> QED
      BY <1>0, <2>1, <3>1 DEF Restart, TypeOK
  <2>2. CASE ~Restart(t)
    <3>1. pc[t] = "link" /\ UNCHANGED <<dev, running>>
      BY <1>0, <1>2, <2>2 DEF Begin, Step, OpenDevice, VerifyDevice, DeviceDecRef, CreateContext,
           StopForAttributes, RestartFails, HandleDisconnect, CreateFails, CreateLink,
           MakeContextCurrent, SetThreadContext, ReleaseThreadCtx, GetLocal, ReadGlobal,
           IncRefGlobal, EnterMutex, LeaveMutex, DecRef, DestroyContext, CloseDevice, Unlink,
           Barrier, DropLocal, DropGlobal, DropOwn, StopPlayback, ClosePlayback, TypeOK
    <3> QED
      BY <1>0, <3>1 DEF LinkOf
  <2> QED
    BY <2>1, <2>2
<1>3. CASE UNCHANGED <<running, pc, dev>>
  BY <1>0, <1>3 DEF LinkOf
<1> QED
  BY <1>1, <1>2, <1>3 DEF Next, MixBegin, MixNext, MixEnd, MixDisconnect, vars, LinkOf

LEMMA PlayStep ==
  ASSUME IInv, [Next]_vars
  PROVE  PlayInv'
<1>1. ASSUME NEW t \in Thread, Begin(t) \/ Step(t)
      PROVE  \A d \in Device : PlayOf(d)'
  BY <1>1, PlayBegin, PlayCreate, PlayEnd, PlayOther
<1>2. ASSUME NEW e \in Device, MixBegin(e) \/ MixNext(e) \/ MixEnd(e) \/ MixDisconnect(e), NEW d \in Device
      PROVE  PlayOf(d)'
  <2>1. UNCHANGED <<running, head, open, pc, dev>> /\ (Connected'[d] => Connected[d])
    BY <1>2 DEF MixBegin, MixNext, MixEnd, MixDisconnect, lists, playback, local, IInv, TypeOK
  <2> QED
    BY <2>1 DEF IInv, PlayInv, PlayOf, Sees, Closes, Restarts, Unlinked
<1>3. ASSUME UNCHANGED vars, NEW d \in Device
      PROVE  PlayOf(d)'
  BY <1>3 DEF vars, IInv, PlayInv, PlayOf, Sees, Closes, Restarts, Unlinked
<1> QED
  BY <1>1, <1>2, <1>3, LinkOfStep DEF Next, PlayInv

-----------------------------------------------------------------------------
(* The reference counts of the contexts.  A set of threads of which only    *)
(* one comes or goes changes by what that one does.                         *)

LEMMA OneMoves ==
  ASSUME NEW A \in SUBSET Thread, NEW B \in SUBSET Thread, NEW t \in Thread,
         \A u \in Thread \ {t} : u \in A <=> u \in B
  PROVE  /\ Cardinality(A) \in Nat /\ Cardinality(B) \in Nat
         /\ Cardinality(B) = Cardinality(A) + One(t \in B) - One(t \in A)
<1>1. /\ IsFiniteSet(A) /\ Cardinality(A) \in Nat
      /\ IsFiniteSet(B) /\ Cardinality(B) \in Nat
  BY FiniteAssumption, FS_Subset, FS_CardinalityType
<1>2. CASE t \in A <=> t \in B
  BY <1>1, <1>2, SMTT(30) DEF One
<1>3. CASE t \in A /\ t \notin B
  <2>1. B = A \ {t}
    BY <1>3
  <2>2. Cardinality(B) = Cardinality(A) - 1
    BY <1>1, <1>3, <2>1, FS_RemoveElement
  <2> QED
    BY <1>1, <1>3, <2>2 DEF One
<1>4. CASE t \notin A /\ t \in B
  <2>1. B = A \cup {t}
    BY <1>4
  <2>2. Cardinality(B) = Cardinality(A) + 1
    BY <1>1, <1>4, <2>1, FS_AddElement
  <2> QED
    BY <1>1, <1>4, <2>2 DEF One
<1> QED
  BY <1>2, <1>3, <1>4

Listed(c) == \E d \in Device : c \in InList(d)
Takes(t, c) == Unlinked(t) /\ ctx[t] = c
Owns(t, c) == LocalContext[t] = c
Uses(t, c) == HasRef(t) /\ ctx[t] = c

(* What a thread's step can change of a context's count.                    *)
Part(t, c) ==
  One(Listed(c)) + One(Takes(t, c)) + One(GlobalContext = c) + One(Owns(t, c)) + One(Uses(t, c))

LEMMA ContextMoves ==
  ASSUME IInv, NEW t \in Thread, OthersStay(t),
         \A u \in Thread \ {t} : LocalContext'[u] = LocalContext[u],
         NEW c \in Context, ref'[c] = ref[c] + Part(t, c)' - Part(t, c)
  PROVE  ref'[c] = One(Listed(c)') + Cardinality({u \in Thread : Takes(u, c)'})
                   + One(GlobalContext' = c) + Cardinality({u \in Thread : Owns(u, c)'})
                   + Cardinality({u \in Thread : Uses(u, c)'})
<1> DEFINE A == {u \in Thread : Takes(u, c)}
           B == {u \in Thread : Owns(u, c)}
           C == {u \in Thread : Uses(u, c)}
           A1 == {u \in Thread : Takes(u, c)'}
           B1 == {u \in Thread : Owns(u, c)'}
           C1 == {u \in Thread : Uses(u, c)'}
           was == One(Listed(c))
           is == One(Listed(c)')
<1>1. ref[c] = was + Cardinality(A) + One(GlobalContext = c) + Cardinality(B) + Cardinality(C)
  BY DEF IInv, ContextRefs, Takes, Owns, Uses, Listed
<1>2. \A u \in Thread \ {t} : /\ u \in A <=> u \in A1
                              /\ u \in B <=> u \in B1
                              /\ u \in C <=> u \in C1
  BY DEF OthersStay, Takes, Owns, Uses, Unlinked, HasRef
<1>3. Part(t, c)' = is + One(t \in A1) + One(GlobalContext' = c) + One(t \in B1) + One(t \in C1)
  BY DEF Part, One
<1>4. Part(t, c) = was + One(t \in A) + One(GlobalContext = c) + One(t \in B) + One(t \in C)
  BY DEF Part, One
<1>5. /\ A \in SUBSET Thread /\ B \in SUBSET Thread /\ C \in SUBSET Thread
      /\ A1 \in SUBSET Thread /\ B1 \in SUBSET Thread /\ C1 \in SUBSET Thread
  OBVIOUS
<1>6. was \in Int /\ is \in Int
  BY DEF One
<1> HIDE DEF A, B, C, A1, B1, C1, was, is
<1>7. /\ Cardinality(A) \in Nat /\ Cardinality(A1) \in Nat
      /\ Cardinality(A1) = Cardinality(A) + One(t \in A1) - One(t \in A)
  BY <1>2, <1>5, OneMoves
<1>8. /\ Cardinality(B) \in Nat /\ Cardinality(B1) \in Nat
      /\ Cardinality(B1) = Cardinality(B) + One(t \in B1) - One(t \in B)
  BY <1>2, <1>5, OneMoves
<1>9. /\ Cardinality(C) \in Nat /\ Cardinality(C1) \in Nat
      /\ Cardinality(C1) = Cardinality(C) + One(t \in C1) - One(t \in C)
  BY <1>2, <1>5, OneMoves
<1>10. ref'[c] = is + Cardinality(A1) + One(GlobalContext' = c) + Cardinality(B1) + Cardinality(C1)
  <2> DEFINE g == One(GlobalContext = c)
             g1 == One(GlobalContext' = c)
             a == One(t \in A)
             a1 == One(t \in A1)
             b == One(t \in B)
             b1 == One(t \in B1)
             e == One(t \in C)
             e1 == One(t \in C1)
  <2>1. /\ g \in Int /\ g1 \in Int /\ a \in Int /\ a1 \in Int
        /\ b \in Int /\ b1 \in Int /\ e \in Int /\ e1 \in Int
    BY DEF One
  <2>2. ref'[c] = ref[c] + (is + a1 + g1 + b1 + e1) - (was + a + g + b + e)
    BY <1>3, <1>4
  <2>3. /\ Cardinality(A1) = Cardinality(A) + a1 - a
        /\ Cardinality(B1) = Cardinality(B) + b1 - b
        /\ Cardinality(C1) = Cardinality(C) + e1 - e
        /\ ref[c] = was + Cardinality(A) + g + Cardinality(B) + Cardinality(C)
    BY <1>1, <1>7, <1>8, <1>9
  <2> HIDE DEF g, g1, a, a1, b, b1, e, e1
  <2>4. ref'[c] = is + Cardinality(A1) + g1 + Cardinality(B1) + Cardinality(C1)
    BY <1>6, <1>7, <1>8, <1>9, <2>1, <2>2, <2>3
  <2> QED
    BY <2>4 DEF g1
<1> QED
  BY <1>10 DEF A1, B1, C1, is

LEMMA ContextCounts ==
  ASSUME IInv, NEW t \in Thread, OthersStay(t),
         \A u \in Thread \ {t} : LocalContext'[u] = LocalContext[u],
         \A c \in Context : ref'[c] = ref[c] + Part(t, c)' - Part(t, c)
  PROVE  ContextRefs'
<1>1. \A c \in Context :
        ref'[c] = One(Listed(c)') + Cardinality({u \in Thread : Takes(u, c)'})
                  + One(GlobalContext' = c) + Cardinality({u \in Thread : Owns(u, c)'})
                  + Cardinality({u \in Thread : Uses(u, c)'})
  BY ContextMoves
<1> QED
  BY <1>1 DEF ContextRefs, Takes, Owns, Uses, Listed

(* Steps that neither count nor change what holds a context.                *)
LEMMA PartSame ==
  ASSUME IInv, NEW t \in Thread, Kept, UNCHANGED <<GlobalContext, LocalContext, ref>>,
         /\ Unlinked(t) <=> Unlinked(t)'
         /\ HasRef(t) <=> HasRef(t)'
         /\ Unlinked(t) \/ HasRef(t) => ctx'[t] = ctx[t],
         OthersStay(t)
  PROVE  ContextRefs'
<1>1. ASSUME NEW c \in Context
      PROVE  ref'[c] = ref[c] + Part(t, c)' - Part(t, c)
  <2>1. /\ Listed(c)' <=> Listed(c)
        /\ Takes(t, c)' <=> Takes(t, c)
        /\ Owns(t, c)' <=> Owns(t, c)
        /\ Uses(t, c)' <=> Uses(t, c)
        /\ GlobalContext' = GlobalContext
    BY DEF Listed, Takes, Owns, Uses, Kept
  <2>2. Part(t, c)' = Part(t, c) /\ Part(t, c) \in Int
    BY <2>1 DEF Part, One
  <2>3. ref'[c] = ref[c] /\ ref[c] \in Int
    BY DEF IInv, TypeOK
  <2> QED
    BY <2>2, <2>3
<1> QED
  BY <1>1, ContextCounts

(* Steps that count one context up, one down, or both.                      *)
LEMMA PartCounts ==
  ASSUME IInv, NEW t \in Thread, Kept, OthersStay(t), NEW gained, NEW lost, Counts(gained, lost),
         \A u \in Thread \ {t} : LocalContext'[u] = LocalContext[u],
         \A c \in Context :
           One(Takes(t, c)') + One(GlobalContext' = c) + One(Owns(t, c)') + One(Uses(t, c)')
           = One(Takes(t, c)) + One(GlobalContext = c) + One(Owns(t, c)) + One(Uses(t, c))
             + One(c = gained) - One(c = lost)
  PROVE  ContextRefs'
<1>1. ASSUME NEW c \in Context
      PROVE  ref'[c] = ref[c] + Part(t, c)' - Part(t, c)
  <2>1. Listed(c)' <=> Listed(c)
    BY DEF Listed, Kept
  <2>2. ref'[c] = ref[c] + One(c = gained) - One(c = lost)
    BY Counting DEF Counts
  <2>3. ref[c] \in Int
    BY DEF IInv, TypeOK
  <2> DEFINE was == One(Takes(t, c)) + One(GlobalContext = c) + One(Owns(t, c)) + One(Uses(t, c))
             is == One(Takes(t, c)') + One(GlobalContext' = c) + One(Owns(t, c)') + One(Uses(t, c)')
             up == One(c = gained)
             down == One(c = lost)
  <2>4. is = was + up - down
    OBVIOUS
  <2>5. was \in Int /\ is \in Int /\ up \in Int /\ down \in Int
    BY DEF One
  <2>6. Part(t, c) = One(Listed(c)) + was /\ Part(t, c)' = One(Listed(c)) + is /\ One(Listed(c)) \in Int
    BY <2>1 DEF Part, One
  <2> HIDE DEF was, is, up, down
  <2>7. ref'[c] = ref[c] + up - down
    BY <2>2 DEF up, down
  <2> QED
    BY <2>3, <2>4, <2>5, <2>6, <2>7
<1> QED
  BY <1>1, ContextCounts

LEMMA RefsBegin ==
  ASSUME IInv, NEW t \in Thread, Begin(t)
  PROVE  ContextRefs'
<1> USE DEF Go, Aim, Done, lists, local, current, LockLists
<1>0. OthersStay(t) /\ TypeOK /\ (\A c \in Context : c # Null)
  BY Stays, NullAssumption DEF IInv
<1>1. CASE \/ \E d \in Device : OpenDevice(t, d) \/ VerifyDevice(t, d) \/ CreateContext(t, d) \/ CloseDevice(t, d)
           \/ \E c \in Context : DestroyContext(t, c)
           \/ ReadGlobal(t)
  <2>1. UNCHANGED <<head, next, GlobalContext, LocalContext, ref>>
    BY <1>1 DEF OpenDevice, VerifyDevice, CreateContext, CloseDevice, DestroyContext, ReadGlobal
  <2>2. /\ pc[t] = "idle"
        /\ pc'[t] \in {"idle", "device", "create", "close", "last", "destroy", "read"}
    BY <1>0, <1>1 DEF OpenDevice, VerifyDevice, CreateContext, CloseDevice, DestroyContext, ReadGlobal, TypeOK
  <2>3. ~Unlinked(t) /\ ~HasRef(t) /\ ~Unlinked(t)' /\ ~HasRef(t)'
    BY <2>2 DEF Unlinked, HasRef
  <2> QED
    BY <1>0, <2>1, <2>3, Keeps, PartSame
<1>2. ASSUME NEW x \in Context \cup {Null}, MakeContextCurrent(t, x)
      PROVE  ContextRefs'
  <2>1. /\ UNCHANGED <<head, next, pc, ctx>> /\ GlobalContext' = x /\ pc[t] = "idle"
        /\ LocalContext'[t] = Null /\ \A u \in Thread \ {t} : LocalContext'[u] = LocalContext[u]
    BY <1>0, <1>2 DEF MakeContextCurrent, TypeOK
  <2>2. ASSUME NEW c \in Context
        PROVE  ref'[c] = ref[c] + Part(t, c)' - Part(t, c)
    <3>1. Listed(c)' <=> Listed(c)
      BY <2>1, Keeps DEF Listed, Kept
    <3>2. ~Takes(t, c) /\ ~Takes(t, c)' /\ ~Uses(t, c) /\ ~Uses(t, c)'
      BY <2>1 DEF Takes, Uses, Unlinked, HasRef
    <3>3. ~Owns(t, c)' /\ (Owns(t, c) <=> c = LocalContext[t]) /\ (GlobalContext' = c <=> c = x)
      BY <1>0, <2>1 DEF Owns
    <3>4. /\ Part(t, c)' = One(Listed(c)) + One(c = x)
          /\ Part(t, c) = One(Listed(c)) + One(c = GlobalContext) + One(c = LocalContext[t])
      BY <3>1, <3>2, <3>3 DEF Part, One
    <3>5. ref'[c] = ref[c] + One(c = x) - One(c = GlobalContext) - One(c = LocalContext[t])
      BY <1>2, MakeCurrent
    <3>6. ref[c] \in Int
      BY <1>0 DEF TypeOK
    <3> QED
      BY <3>4, <3>5, <3>6 DEF One
  <2> QED
    BY <1>0, <2>1, <2>2, ContextCounts
<1>3. ASSUME NEW x \in Context \cup {Null},
             SetThreadContext(t, x) \/ (ReleaseThreadCtx(t) /\ x = Null)
      PROVE  ContextRefs'
  <2>1. /\ UNCHANGED <<head, next, pc, ctx, GlobalContext>> /\ pc[t] = "idle"
        /\ LocalContext'[t] = x /\ \A u \in Thread \ {t} : LocalContext'[u] = LocalContext[u]
    BY <1>0, <1>3 DEF SetThreadContext, ReleaseThreadCtx, TypeOK
  <2>2. Counts(x, LocalContext[t])
    BY <1>3, CountsAre
  <2>3. ASSUME NEW c \in Context
        PROVE  /\ ~Takes(t, c) /\ ~Takes(t, c)' /\ ~Uses(t, c) /\ ~Uses(t, c)'
               /\ Owns(t, c) <=> c = LocalContext[t]
               /\ Owns(t, c)' <=> c = x
               /\ GlobalContext' = GlobalContext
    BY <2>1 DEF Takes, Uses, Owns, Unlinked, HasRef
  <2>4. \A c \in Context :
           One(Takes(t, c)') + One(GlobalContext' = c) + One(Owns(t, c)') + One(Uses(t, c)')
           = One(Takes(t, c)) + One(GlobalContext = c) + One(Owns(t, c)) + One(Uses(t, c))
             + One(c = x) - One(c = LocalContext[t])
    BY <2>3 DEF One
  <2> QED
    BY <1>0, <2>1, <2>2, <2>4, Keeps, PartCounts
<1>4. CASE GetLocal(t)
  <2>1. /\ UNCHANGED <<head, next, LocalContext, GlobalContext>> /\ pc[t] = "idle"
        /\ pc'[t] \in {"ref", "lock"} /\ ctx'[t] = LocalContext[t]
    BY <1>0, <1>4 DEF GetLocal, TypeOK
  <2>2. Counts(LocalContext[t], Null)
    BY <1>4, CountsAre
  <2>3. ASSUME NEW c \in Context
        PROVE  /\ ~Takes(t, c) /\ ~Takes(t, c)' /\ ~Uses(t, c)
               /\ Uses(t, c)' <=> c = LocalContext[t]
               /\ Owns(t, c)' <=> Owns(t, c)
               /\ GlobalContext' = GlobalContext /\ c # Null
    BY <1>0, <2>1 DEF Takes, Uses, Owns, Unlinked, HasRef
  <2>4. \A c \in Context :
           One(Takes(t, c)') + One(GlobalContext' = c) + One(Owns(t, c)') + One(Uses(t, c)')
           = One(Takes(t, c)) + One(GlobalContext = c) + One(Owns(t, c)) + One(Uses(t, c))
             + One(c = LocalContext[t]) - One(c = Null)
    BY <2>3 DEF One
  <2> QED
    BY <1>0, <2>1, <2>2, <2>4, Keeps, PartCounts
<1> QED
  BY <1>1, <1>2, <1>3, <1>4 DEF Begin

LEMMA RefsCalls ==
  ASSUME IInv, NEW t \in Thread, Step(t)
  PROVE  ContextRefs'
<1> USE DEF Go, Aim, Done, lists, local, current
<1>0. OthersStay(t) /\ TypeOK /\ (\A c \in Context : c # Null)
  BY Stays, NullAssumption DEF IInv
<1>1. CASE \/ DeviceDecRef(t) \/ StopForAttributes(t) \/ Restart(t) \/ RestartFails(t)
           \/ HandleDisconnect(t) \/ CreateFails(t) \/ EnterMutex(t) \/ LeaveMutex(t)
           \/ Barrier(t) \/ StopPlayback(t) \/ ClosePlayback(t)
  <2>1. UNCHANGED <<head, next, GlobalContext, LocalContext, ref>>
    BY <1>1 DEF DeviceDecRef, StopForAttributes, Restart, RestartFails, HandleDisconnect, CreateFails,
                EnterMutex, LeaveMutex, Barrier, StopPlayback, ClosePlayback
  <2>2. \/ /\ pc[t] \in {"device", "create", "update", "failed", "link", "stop", "last"}
           /\ pc'[t] \in {"idle", "update", "link", "failed", "device", "last"}
        \/ pc[t] \in {"lock", "locked"} /\ pc'[t] \in {"locked", "ref"} /\ ctx' = ctx
        \/ pc[t] = "barrier" /\ pc'[t] = "local" /\ ctx' = ctx
    BY <1>0, <1>1 DEF DeviceDecRef, StopForAttributes, Restart, RestartFails, HandleDisconnect,
                CreateFails, EnterMutex, LeaveMutex, Barrier, StopPlayback, ClosePlayback, TypeOK
  <2>3. /\ Unlinked(t) <=> Unlinked(t)'
        /\ HasRef(t) <=> HasRef(t)'
        /\ Unlinked(t) \/ HasRef(t) => ctx'[t] = ctx[t]
    BY <2>2 DEF Unlinked, HasRef
  <2> QED
    BY <1>0, <2>1, <2>3, Keeps, PartSame
<1>2. ASSUME NEW x \in Context, CreateLink(t, x)
      PROVE  ContextRefs'
  <2>1. PICK d \in Device : Linked(t, x, d)
    BY <1>2, LinkStep
  <2>2. /\ pc[t] = "link" /\ pc'[t] = "device" /\ UNCHANGED <<GlobalContext, LocalContext>>
        /\ ref' = [ref EXCEPT ![x] = 1] /\ x \notin born
    BY <1>0, <1>2 DEF CreateLink, TypeOK
  <2>3. ASSUME NEW c \in Context
        PROVE  ref'[c] = ref[c] + Part(t, c)' - Part(t, c)
    <3>1. /\ ~Takes(t, c) /\ ~Takes(t, c)' /\ ~Uses(t, c) /\ ~Uses(t, c)'
          /\ (Owns(t, c)' <=> Owns(t, c)) /\ GlobalContext' = GlobalContext
      BY <2>2 DEF Takes, Uses, Owns, Unlinked, HasRef
    <3>2. IF c = x THEN ~Listed(c) /\ Listed(c)' ELSE Listed(c)' <=> Listed(c)
      BY <2>1 DEF Listed, Linked
    <3>3. IF c = x THEN ref[c] = 0 /\ ref'[c] = 1 ELSE ref'[c] = ref[c] /\ ref[c] \in Int
      BY <1>0, <2>2 DEF IInv, BornInv, TypeOK
    <3>4. Part(t, c)' = One(Listed(c)') + One(GlobalContext = c) + One(Owns(t, c))
      BY <3>1 DEF Part, One
    <3>5. Part(t, c) = One(Listed(c)) + One(GlobalContext = c) + One(Owns(t, c))
      BY <3>1 DEF Part, One
    <3> QED
      BY <3>2, <3>3, <3>4, <3>5 DEF One
  <2> QED
    BY <1>0, <2>2, <2>3, ContextCounts
<1>3. CASE IncRefGlobal(t)
  <2>1. /\ UNCHANGED <<head, next, LocalContext, GlobalContext, ctx>> /\ pc[t] = "read"
        /\ IF ref[ctx[t]] = 0 THEN pc'[t] = "wild" /\ UNCHANGED ref
           ELSE pc'[t] \in {"ref", "lock"} /\ CountRefs(ctx[t], Null)
    BY <1>0, <1>3 DEF IncRefGlobal, TypeOK
  <2>2. CASE ref[ctx[t]] = 0
    <3>1. ~Unlinked(t) /\ ~HasRef(t) /\ ~Unlinked(t)' /\ ~HasRef(t)'
      BY <2>1, <2>2 DEF Unlinked, HasRef
    <3> QED
      BY <1>0, <2>1, <2>2, <3>1, Keeps, PartSame
  <2>3. CASE ref[ctx[t]] # 0
    <3>1. Counts(ctx[t], Null)
      <4>1. ctx[t] \in Context /\ ref[ctx[t]] > 0
        BY <1>0, <2>1, <2>3 DEF IInv, PlaceInv, OnContext, TypeOK
      <4> QED
        BY <1>3, <2>1, <2>3, <4>1 DEF Counts, Alive, IncRefGlobal
    <3>2. ASSUME NEW c \in Context
          PROVE  /\ ~Takes(t, c) /\ ~Takes(t, c)' /\ ~Uses(t, c)
                 /\ Uses(t, c)' <=> c = ctx[t]
                 /\ Owns(t, c)' <=> Owns(t, c)
                 /\ GlobalContext' = GlobalContext /\ c # Null
      BY <1>0, <2>1, <2>3 DEF Takes, Uses, Owns, Unlinked, HasRef
    <3>3. \A c \in Context :
             One(Takes(t, c)') + One(GlobalContext' = c) + One(Owns(t, c)') + One(Uses(t, c)')
             = One(Takes(t, c)) + One(GlobalContext = c) + One(Owns(t, c)) + One(Uses(t, c))
               + One(c = ctx[t]) - One(c = Null)
      BY <3>2 DEF One
    <3> QED
      BY <1>0, <2>1, <3>1, <3>3, Keeps, PartCounts
  <2> QED
    BY <2>2, <2>3
<1>4. CASE DecRef(t)
  <2>1. UNCHANGED <<head, next, LocalContext, GlobalContext>> /\ pc[t] = "ref" /\ pc'[t] = "idle"
    BY <1>0, <1>4 DEF DecRef, TypeOK
  <2>2. Counts(Null, ctx[t])
    BY <1>4, CountsAre
  <2>3. ASSUME NEW c \in Context
        PROVE  /\ ~Takes(t, c) /\ ~Takes(t, c)' /\ ~Uses(t, c)'
               /\ Uses(t, c) <=> c = ctx[t]
               /\ Owns(t, c)' <=> Owns(t, c)
               /\ GlobalContext' = GlobalContext /\ c # Null
    BY <1>0, <2>1 DEF Takes, Uses, Owns, Unlinked, HasRef
  <2>4. \A c \in Context :
           One(Takes(t, c)') + One(GlobalContext' = c) + One(Owns(t, c)') + One(Uses(t, c)')
           = One(Takes(t, c)) + One(GlobalContext = c) + One(Owns(t, c)) + One(Uses(t, c))
             + One(c = Null) - One(c = ctx[t])
    BY <2>3 DEF One
  <2> QED
    BY <1>0, <2>1, <2>2, <2>4, Keeps, PartCounts
<1>5. CASE Unlink(t)
  <2>1. PICK x \in Context, d \in Device : Cut(t, x, d)
    BY <1>5, CutStep
  <2>2. /\ pc[t] \in {"destroy", "close"} /\ pc'[t] = "barrier" /\ ctx' = ctx /\ ctx[t] = x
        /\ UNCHANGED <<GlobalContext, LocalContext, ref>>
    BY <1>0, <1>5, <2>1 DEF Unlink, Cut, TypeOK
  <2>3. ASSUME NEW c \in Context
        PROVE  ref'[c] = ref[c] + Part(t, c)' - Part(t, c)
    <3>1. /\ ~Takes(t, c) /\ (Takes(t, c)' <=> c = x) /\ ~Uses(t, c) /\ ~Uses(t, c)'
          /\ (Owns(t, c)' <=> Owns(t, c)) /\ GlobalContext' = GlobalContext
      BY <2>2 DEF Takes, Uses, Owns, Unlinked, HasRef
    <3>2. IF c = x THEN Listed(c) /\ ~Listed(c)' ELSE Listed(c)' <=> Listed(c)
      BY <2>1 DEF Listed, Cut
    <3>3. ref'[c] = ref[c] /\ ref[c] \in Int
      BY <1>0, <2>2 DEF TypeOK
    <3>4. Part(t, c)' = One(Listed(c)') + One(c = x) + One(GlobalContext = c) + One(Owns(t, c))
      BY <3>1 DEF Part, One
    <3>5. Part(t, c) = One(Listed(c)) + One(GlobalContext = c) + One(Owns(t, c))
      BY <3>1 DEF Part, One
    <3> QED
      BY <3>2, <3>3, <3>4, <3>5 DEF One
  <2> QED
    BY <1>0, <2>2, <2>3, ContextCounts
<1>6. CASE DropLocal(t)
  <2>1. /\ UNCHANGED <<head, next, GlobalContext, ctx>> /\ pc[t] = "local" /\ pc'[t] = "global"
        /\ \A u \in Thread \ {t} : LocalContext'[u] = LocalContext[u]
        /\ IF LocalContext[t] = ctx[t] THEN LocalContext'[t] = Null
           ELSE UNCHANGED <<ref, LocalContext>>
    BY <1>0, <1>6 DEF DropLocal, TypeOK
  <2>2. Unlinked(t) /\ Unlinked(t)' /\ ~HasRef(t) /\ ~HasRef(t)'
    BY <2>1 DEF Unlinked, HasRef
  <2>3. CASE LocalContext[t] = ctx[t]
    <3>1. Counts(Null, ctx[t])
      BY <1>6, <2>3, CountsAre
    <3>2. ASSUME NEW c \in Context
          PROVE  /\ Takes(t, c)' <=> Takes(t, c)
                 /\ ~Uses(t, c) /\ ~Uses(t, c)' /\ ~Owns(t, c)'
                 /\ Owns(t, c) <=> c = ctx[t]
                 /\ GlobalContext' = GlobalContext /\ c # Null
      BY <1>0, <2>1, <2>2, <2>3 DEF Takes, Uses, Owns
    <3>3. \A c \in Context :
             One(Takes(t, c)') + One(GlobalContext' = c) + One(Owns(t, c)') + One(Uses(t, c)')
             = One(Takes(t, c)) + One(GlobalContext = c) + One(Owns(t, c)) + One(Uses(t, c))
               + One(c = Null) - One(c = ctx[t])
      BY <3>2 DEF One
    <3> QED
      BY <1>0, <2>1, <3>1, <3>3, Keeps, PartCounts
  <2>4. CASE LocalContext[t] # ctx[t]
    BY <1>0, <2>1, <2>2, <2>4, Keeps, PartSame
  <2> QED
    BY <2>3, <2>4
<1>7. CASE DropGlobal(t)
  <2>1. /\ UNCHANGED <<head, next, LocalContext, ctx>> /\ pc[t] = "global" /\ pc'[t] = "own"
        /\ IF GlobalContext = ctx[t] THEN GlobalContext' = Null ELSE UNCHANGED <<ref, GlobalContext>>
    BY <1>0, <1>7 DEF DropGlobal, IsCurrent, TypeOK
  <2>2. Unlinked(t) /\ Unlinked(t)' /\ ~HasRef(t) /\ ~HasRef(t)'
    BY <2>1 DEF Unlinked, HasRef
  <2>3. CASE GlobalContext = ctx[t]
    <3>1. Counts(Null, ctx[t])
      BY <1>7, <2>3, CountsAre DEF IsCurrent
    <3>2. ASSUME NEW c \in Context
          PROVE  /\ Takes(t, c)' <=> Takes(t, c)
                 /\ ~Uses(t, c) /\ ~Uses(t, c)' /\ (Owns(t, c)' <=> Owns(t, c))
                 /\ GlobalContext' # c /\ (GlobalContext = c <=> c = ctx[t]) /\ c # Null
      BY <1>0, <2>1, <2>2, <2>3 DEF Takes, Uses, Owns
    <3>3. \A c \in Context :
             One(Takes(t, c)') + One(GlobalContext' = c) + One(Owns(t, c)') + One(Uses(t, c)')
             = One(Takes(t, c)) + One(GlobalContext = c) + One(Owns(t, c)) + One(Uses(t, c))
               + One(c = Null) - One(c = ctx[t])
      BY <3>2 DEF One
    <3> QED
      BY <1>0, <2>1, <3>1, <3>3, Keeps, PartCounts
  <2>4. CASE GlobalContext # ctx[t]
    BY <1>0, <2>1, <2>2, <2>4, Keeps, PartSame
  <2> QED
    BY <2>3, <2>4
<1>8. CASE DropOwn(t)
  <2>1. /\ UNCHANGED <<head, next, LocalContext, GlobalContext>> /\ pc[t] = "own"
        /\ pc'[t] \in {"stop", "idle", "close"}
    BY <1>0, <1>8 DEF DropOwn, TypeOK
  <2>2. Counts(Null, ctx[t])
    BY <1>8, CountsAre
  <2>3. ASSUME NEW c \in Context
        PROVE  /\ ~Uses(t, c) /\ ~Uses(t, c)' /\ ~Takes(t, c)'
               /\ Takes(t, c) <=> c = ctx[t]
               /\ Owns(t, c)' <=> Owns(t, c)
               /\ GlobalContext' = GlobalContext /\ c # Null
    BY <1>0, <2>1 DEF Takes, Uses, Owns, Unlinked, HasRef
  <2>4. \A c \in Context :
           One(Takes(t, c)') + One(GlobalContext' = c) + One(Owns(t, c)') + One(Uses(t, c)')
           = One(Takes(t, c)) + One(GlobalContext = c) + One(Owns(t, c)) + One(Uses(t, c))
             + One(c = Null) - One(c = ctx[t])
    BY <2>3 DEF One
  <2> QED
    BY <1>0, <2>1, <2>2, <2>4, Keeps, PartCounts
<1> QED
  BY <1>1, <1>2, <1>3, <1>4, <1>5, <1>6, <1>7, <1>8 DEF Step

LEMMA ContextRefsStep ==
  ASSUME IInv, [Next]_vars
  PROVE  ContextRefs'
<1>1. CASE \/ \E d \in Device : MixBegin(d) \/ MixNext(d) \/ MixEnd(d) \/ MixDisconnect(d)
           \/ UNCHANGED vars
  <2>1. UNCHANGED <<head, next, GlobalContext, LocalContext, ref, pc, ctx>>
    BY <1>1 DEF MixBegin, MixNext, MixEnd, MixDisconnect, vars, lists, current, local
  <2>2. \A d \in Device : InList(d)' = InList(d)
    BY <2>1, Keeps DEF Kept
  <2>3. \A c \in Context :
          /\ Listed(c)' <=> Listed(c)
          /\ {u \in Thread : Takes(u, c)'} = {u \in Thread : Takes(u, c)}
          /\ {u \in Thread : Owns(u, c)'} = {u \in Thread : Owns(u, c)}
          /\ {u \in Thread : Uses(u, c)'} = {u \in Thread : Uses(u, c)}
    BY <2>1, <2>2 DEF Listed, Takes, Owns, Uses, Unlinked, HasRef
  <2>4. \A c \in Context :
          ref[c] = One(Listed(c)) + Cardinality({u \in Thread : Takes(u, c)})
                   + One(GlobalContext = c) + Cardinality({u \in Thread : Owns(u, c)})
                   + Cardinality({u \in Thread : Uses(u, c)})
    BY DEF IInv, ContextRefs, Listed, Takes, Owns, Uses
  <2>5. \A c \in Context :
          ref'[c] = One(Listed(c)') + Cardinality({u \in Thread : Takes(u, c)'})
                    + One(GlobalContext' = c) + Cardinality({u \in Thread : Owns(u, c)'})
                    + Cardinality({u \in Thread : Uses(u, c)'})
    BY <2>1, <2>3, <2>4 DEF One
  <2> QED
    BY <2>5 DEF ContextRefs, Listed, Takes, Owns, Uses
<1> QED
  BY <1>1, RefsBegin, RefsCalls DEF Next

-----------------------------------------------------------------------------
(* The reference counts of the devices.                                     *)

Live(d) == {c \in Context : device[c] = d /\ ref[c] > 0}
Closing(t, d) ==
  /\ dev[t] = d /\ d \notin open
  /\ pc[t] \in {"close", "barrier", "local", "global", "own", "stop", "last"}
Calls(t, d) == dev[t] = d /\ pc[t] \in {"device", "create", "update", "link", "failed"}

LEMMA SomeMove ==
  ASSUME NEW A \in SUBSET Context, NEW S \in SUBSET A
  PROVE  /\ Cardinality(A) \in Nat /\ Cardinality(S) \in Nat
         /\ Cardinality(A \ S) = Cardinality(A) - Cardinality(S)
<1>1. IsFiniteSet(A) /\ IsFiniteSet(S)
  BY FiniteAssumption, FS_Subset
<1>2. A \cap S = S
  OBVIOUS
<1>3. Cardinality(A \ S) = Cardinality(A) - Cardinality(A \cap S)
  BY <1>1, FS_Difference
<1> QED
  BY <1>1, <1>2, <1>3, FS_CardinalityType

(* A context that is freed gives its device's reference back.               *)
Balanced(d) ==
  /\ Cardinality(Live(d)) \in Int /\ Cardinality(Live(d)') \in Int
  /\ dref'[d] - Cardinality(Live(d)') = dref[d] - Cardinality(Live(d))

LEMMA LiveCard ==
  ASSUME NEW d
  PROVE  Cardinality(Live(d)) \in Int /\ Cardinality(Live(d)') \in Int
<1>1. Live(d) \in SUBSET Context /\ Live(d)' \in SUBSET Context
  BY DEF Live
<1> QED
  BY <1>1, FiniteAssumption, FS_Subset, FS_CardinalityType

LEMMA BalancedCounts ==
  ASSUME IInv, NEW gained, NEW lost, Counts(gained, lost), NEW d \in Device
  PROVE  Balanced(d)
<1> DEFINE S == {c \in Live(d) : lost # Null /\ gained # lost /\ c = lost /\ ref[c] = 1}
           gone == lost # Null /\ gained # lost /\ ref[lost] = 1 /\ device[lost] = d
<1>1. /\ ref' \in [Context -> Int] /\ device' = device /\ ref \in [Context -> Nat] /\ dref[d] \in Int
      /\ \A c \in Context : ref'[c] = ref[c] + One(c = gained) - One(c = lost)
      /\ dref'[d] = dref[d] - One(lost # Null /\ gained # lost /\ ref[lost] = 1 /\ device[lost] = d)
  BY Counting DEF Counts, IInv, TypeOK
<1>2. \A c \in Context : c # Null
  BY NullAssumption
<1>3. \A c \in Context : (c = gained \/ c = lost) => ref[c] > 0
  BY <1>2 DEF Counts, Alive
<1>4. Live(d)' = Live(d) \ S
  <2>1. ASSUME NEW c \in Context
        PROVE  c \in Live(d)' <=> c \in Live(d) \ S
    BY <1>1, <1>2, <1>3 DEF Live, One
  <2> QED
    BY <2>1 DEF Live
<1>5. Cardinality(Live(d)') = Cardinality(Live(d)) - Cardinality(S)
  <2>1. Live(d) \in SUBSET Context /\ S \in SUBSET Live(d)
    BY DEF Live
  <2> HIDE DEF S
  <2> QED
    BY <1>4, <2>1, SomeMove
<1>6. Cardinality(S) = One(gone)
  <2>1. CASE gone
    <3>1. S = {lost}
      BY <2>1, <1>1, <1>2 DEF Live, Counts
    <3> QED
      BY <2>1, <3>1, FS_Singleton DEF One
  <2>2. CASE ~gone
    <3>1. S = {}
      BY <2>2 DEF Live
    <3> QED
      BY <2>2, <3>1, FS_EmptySet DEF One
  <2> QED
    BY <2>1, <2>2
<1>7. dref'[d] = dref[d] - One(gone) /\ One(gone) \in Int
  BY <1>1 DEF One
<1> HIDE DEF S, gone
<1> QED
  BY <1>1, <1>5, <1>6, <1>7, LiveCard DEF Balanced

LEMMA BalancedCurrent ==
  ASSUME IInv, NEW t \in Thread, NEW x \in Context \cup {Null}, MakeContextCurrent(t, x),
         NEW d \in Device
  PROVE  Balanced(d)
<1> DEFINE S == {c \in Releases(t, x) : device[c] = d}
<1>1. /\ device' = device /\ ref \in [Context -> Nat] /\ dref[d] \in Int
      /\ \A c \in Context : /\ ref'[c] = ref[c] + One(c = x) - One(c = GlobalContext) - One(c = LocalContext[t])
                            /\ ref[c] = 0 => ref'[c] = 0
      /\ dref'[d] = dref[d] - Cardinality(S)
  <2>1. device' = device
    BY DEF MakeContextCurrent, lists
  <2>2. ref \in [Context -> Nat] /\ dref[d] \in Int
    BY DEF IInv, TypeOK
  <2> QED
    BY <2>1, <2>2, MakeCurrent
<1>2. /\ GlobalContext # Null => GlobalContext \in Context /\ ref[GlobalContext] > 0
      /\ LocalContext[t] # Null => LocalContext[t] \in Context /\ ref[LocalContext[t]] > 0
      /\ \A c \in Context : c # Null
  BY Held, NullAssumption DEF IInv, TypeOK
<1>3. \A c \in Context : c \in Releases(t, x) <=>
        (c = GlobalContext \/ c = LocalContext[t]) /\ ref'[c] = 0
  BY <1>1, <1>2 DEF Releases
<1>4. \A c \in Context : ref'[c] >= 0
  <2>1. ASSUME NEW c \in Context, c = GlobalContext, c = LocalContext[t]
        PROVE  ref[c] >= 2
    <3> DEFINE A == {u \in Thread : Unlinked(u) /\ ctx[u] = c}
               B == {u \in Thread : LocalContext[u] = c}
               C == {u \in Thread : HasRef(u) /\ ctx[u] = c}
               listed == \E e \in Device : c \in InList(e)
    <3>1. ref[c] = One(listed) + Cardinality(A) + One(GlobalContext = c) + Cardinality(B) + Cardinality(C)
      BY DEF IInv, ContextRefs
    <3>2. A \in SUBSET Thread /\ B \in SUBSET Thread /\ C \in SUBSET Thread /\ t \in B
      BY <2>1
    <3> HIDE DEF A, B, C, listed
    <3>3. Cardinality(A) \in Nat /\ Cardinality(B) \in Nat /\ Cardinality(B) > 0 /\ Cardinality(C) \in Nat
      BY <3>2, Counted
    <3>4. One(listed) \in Nat /\ One(GlobalContext = c) = 1
      BY <2>1 DEF One
    <3> QED
      BY <3>1, <3>3, <3>4
  <2> QED
    BY <1>1, <1>2, <2>1 DEF One
<1>5. Live(d)' = Live(d) \ S
  <2>1. ASSUME NEW c \in Context
        PROVE  c \in Live(d)' <=> c \in Live(d) \ S
    <3>1. c \in Live(d) /\ ~(c = GlobalContext \/ c = LocalContext[t]) => ref'[c] > 0
      BY <1>1 DEF Live, One
    <3>2. ref'[c] \in Int /\ ref'[c] > 0 => ref[c] > 0
      BY <1>1
    <3>3. ref'[c] \in Int
      BY MakeCurrent
    <3> QED
      BY <1>1, <1>3, <1>4, <3>1, <3>2, <3>3 DEF Live
  <2> QED
    BY <2>1 DEF Live
<1>6. S \in SUBSET Live(d)
  BY <1>1, <1>2 DEF Live, Releases
<1>7. /\ Cardinality(Live(d)') = Cardinality(Live(d)) - Cardinality(S)
      /\ Cardinality(S) \in Nat
  <2>1. Live(d) \in SUBSET Context
    BY DEF Live
  <2> HIDE DEF S
  <2> QED
    BY <1>5, <1>6, <2>1, SomeMove
<1> HIDE DEF S
<1> QED
  BY <1>1, <1>7, LiveCard DEF Balanced

(* What a thread's step can change of a device's count, contexts apart.     *)
Hold(t, d) == One(d \in open) + One(Closing(t, d)) + One(Calls(t, d))

LEMMA DeviceMoves ==
  ASSUME IInv, NEW t \in Thread, OthersStay(t), NEW d \in Device,
         (d \in open' <=> d \in open) \/ \A u \in Thread : ~(pc[u] \in Ending /\ dev[u] = d),
         dref'[d] - Cardinality(Live(d)') = dref[d] - Cardinality(Live(d)) + Hold(t, d)' - Hold(t, d),
         dref'[d] \in Int
  PROVE  dref'[d] = One(d \in open') + Cardinality({u \in Thread : Closing(u, d)'})
                    + Cardinality(Live(d)') + Cardinality({u \in Thread : Calls(u, d)'})
<1> DEFINE A == {u \in Thread : Closing(u, d)}
           B == {u \in Thread : Calls(u, d)}
           A1 == {u \in Thread : Closing(u, d)'}
           B1 == {u \in Thread : Calls(u, d)'}
           live == Cardinality(Live(d))
           live1 == Cardinality(Live(d)')
<1>1. dref[d] = One(d \in open) + Cardinality(A) + live + Cardinality(B)
  BY DEF IInv, DeviceRefs, Closing, Calls, Live
<1>2. \A u \in Thread \ {t} : (u \in A <=> u \in A1) /\ (u \in B <=> u \in B1)
  BY DEF OthersStay, Closing, Calls, Ending
<1>3. live \in Int /\ live1 \in Int
  BY LiveCard
<1>4. A \in SUBSET Thread /\ B \in SUBSET Thread /\ A1 \in SUBSET Thread /\ B1 \in SUBSET Thread
  OBVIOUS
<1> DEFINE o == One(d \in open)
           o1 == One(d \in open')
           a == One(t \in A)
           a1 == One(t \in A1)
           b == One(t \in B)
           b1 == One(t \in B1)
<1>5. o \in Int /\ o1 \in Int /\ a \in Int /\ a1 \in Int /\ b \in Int /\ b1 \in Int
  BY DEF One
<1>6. Hold(t, d) = o + a + b /\ Hold(t, d)' = o1 + a1 + b1
  BY DEF Hold, One
<1>7. dref'[d] - live1 = dref[d] - live + (o1 + a1 + b1) - (o + a + b)
  BY <1>6
<1> HIDE DEF A, B, A1, B1, live, live1
<1>8. /\ Cardinality(A) \in Nat /\ Cardinality(A1) \in Nat
      /\ Cardinality(A1) = Cardinality(A) + a1 - a
  BY <1>2, <1>4, OneMoves
<1>9. /\ Cardinality(B) \in Nat /\ Cardinality(B1) \in Nat
      /\ Cardinality(B1) = Cardinality(B) + b1 - b
  BY <1>2, <1>4, OneMoves
<1>10. dref[d] = o + Cardinality(A) + live + Cardinality(B)
  BY <1>1
<1> HIDE DEF o, o1, a, a1, b, b1
<1>11. dref'[d] = o1 + Cardinality(A1) + live1 + Cardinality(B1)
  BY <1>3, <1>5, <1>7, <1>8, <1>9, <1>10
<1> QED
  BY <1>11 DEF o1, A1, B1, live1

LEMMA DeviceCounts ==
  ASSUME IInv, NEW t \in Thread, OthersStay(t), dref' \in [Device -> Int],
         \A d \in Device :
           /\ (d \in open' <=> d \in open) \/ \A u \in Thread : ~(pc[u] \in Ending /\ dev[u] = d)
           /\ dref'[d] - Cardinality(Live(d)') = dref[d] - Cardinality(Live(d)) + Hold(t, d)' - Hold(t, d)
  PROVE  DeviceRefs'
<1>1. ASSUME NEW d \in Device
      PROVE  dref'[d] = One(d \in open') + Cardinality({u \in Thread : Closing(u, d)'})
                        + Cardinality(Live(d)') + Cardinality({u \in Thread : Calls(u, d)'})
  BY DeviceMoves
<1> QED
  BY <1>1 DEF DeviceRefs, Closing, Calls, Live

(* Steps that keep what holds a device, its contexts apart.                 *)
LEMMA HoldSame ==
  ASSUME IInv, NEW t \in Thread, OthersStay(t), dref' \in [Device -> Int], UNCHANGED open,
         \A d \in Device : /\ Balanced(d)
                           /\ Closing(t, d)' <=> Closing(t, d)
                           /\ Calls(t, d)' <=> Calls(t, d)
  PROVE  DeviceRefs'
<1>1. ASSUME NEW d \in Device
      PROVE  dref'[d] - Cardinality(Live(d)') = dref[d] - Cardinality(Live(d)) + Hold(t, d)' - Hold(t, d)
  <2>1. Hold(t, d)' = Hold(t, d) /\ Hold(t, d) \in Int
    BY DEF Hold, One
  <2>2. dref[d] \in Int
    BY DEF IInv, TypeOK
  <2> QED
    BY <2>1, <2>2 DEF Balanced
<1> QED
  BY <1>1, DeviceCounts

LEMMA BalancedSame ==
  ASSUME IInv, NEW d \in Device, UNCHANGED <<ref, device>>, dref'[d] = dref[d]
  PROVE  Balanced(d)
<1>1. Live(d)' = Live(d)
  BY DEF Live
<1> QED
  BY <1>1, LiveCard DEF Balanced, IInv, TypeOK

LEMMA Unborn ==
  ASSUME IInv, NEW d \in Device, d \notin born
  PROVE  dref[d] = 0
<1> DEFINE A == {t \in Thread : dev[t] = d /\ d \notin open
                                /\ pc[t] \in {"close", "barrier", "local", "global", "own", "stop", "last"}}
           B == {c \in Context : device[c] = d /\ ref[c] > 0}
           C == {t \in Thread : dev[t] = d /\ pc[t] \in {"device", "create", "update", "link", "failed"}}
<1>1. dref[d] = One(d \in open) + Cardinality(A) + Cardinality(B) + Cardinality(C)
  BY DEF IInv, DeviceRefs
<1>2. d \notin open
  BY DEF IInv, BornInv
<1>3. A = {} /\ C = {}
  BY DEF IInv, PlaceInv, OnDevice, Creating, Ending
<1>4. B = {}
  <2>1. \A c \in Context : ref[c] > 0 => c \in born
    BY DEF IInv, BornInv
  <2> QED
    BY <2>1 DEF IInv, BornInv
<1> HIDE DEF A, B, C
<1> QED
  BY <1>1, <1>2, <1>3, <1>4, FS_EmptySet DEF One

LEMMA HeldBegin ==
  ASSUME IInv, NEW t \in Thread, Begin(t)
  PROVE  DeviceRefs'
<1> USE DEF Go, Aim, Done, lists, local, LockLists
<1>0. OthersStay(t) /\ TypeOK /\ dref' \in [Device -> Int] /\ (\A u \in Thread : u # Null)
  BY Stays, CountsStep, NullAssumption DEF IInv, Next
<1>1. ASSUME NEW e \in Device, OpenDevice(t, e)
      PROVE  DeviceRefs'
  <2>1. /\ UNCHANGED <<ref, device, pc, dev>> /\ open' = open \cup {e} /\ pc[t] = "idle" /\ e \notin born
        /\ dref' = [dref EXCEPT ![e] = 1]
    BY <1>1 DEF OpenDevice
  <2>2. e \notin open /\ dref[e] = 0 /\ \A u \in Thread : ~(pc[u] \in Ending /\ dev[u] = e)
    BY <2>1, Unborn DEF IInv, BornInv, PlaceInv, OnDevice
  <2>3. ASSUME NEW d \in Device
        PROVE  dref'[d] - Cardinality(Live(d)') = dref[d] - Cardinality(Live(d)) + Hold(t, d)' - Hold(t, d)
    <3>1. Live(d)' = Live(d) /\ Cardinality(Live(d)) \in Int
      BY <2>1, LiveCard DEF Live
    <3>2. ~Closing(t, d) /\ ~Closing(t, d)' /\ ~Calls(t, d) /\ ~Calls(t, d)'
      BY <2>1 DEF Closing, Calls
    <3>3. Hold(t, d) = One(d \in open) /\ Hold(t, d)' = One(d \in open')
      BY <3>2 DEF Hold, One
    <3>4. dref'[d] = IF d = e THEN 1 ELSE dref[d]
      BY <1>0, <2>1 DEF TypeOK
    <3>5. One(d \in open') - One(d \in open) = IF d = e THEN 1 ELSE 0
      BY <2>1, <2>2 DEF One
    <3>6. One(d \in open') \in Int /\ One(d \in open) \in Int /\ dref[d] \in Int
      BY <1>0 DEF One, TypeOK
    <3> QED
      BY <2>2, <3>1, <3>3, <3>4, <3>5, <3>6
  <2>4. \A d \in Device : (d \in open' <=> d \in open) \/ \A u \in Thread : ~(pc[u] \in Ending /\ dev[u] = d)
    BY <2>1, <2>2
  <2> QED
    BY <1>0, <2>3, <2>4, DeviceCounts
<1>2. ASSUME NEW e \in Device, VerifyDevice(t, e) \/ CreateContext(t, e)
      PROVE  DeviceRefs'
  <2>1. /\ UNCHANGED <<ref, device, open>> /\ pc[t] = "idle"
        /\ pc'[t] \in {"device", "create"} /\ dev'[t] = e
        /\ dref' = [dref EXCEPT ![e] = @ + 1]
    BY <1>0, <1>2 DEF VerifyDevice, CreateContext, TypeOK
  <2>2. ASSUME NEW d \in Device
        PROVE  dref'[d] - Cardinality(Live(d)') = dref[d] - Cardinality(Live(d)) + Hold(t, d)' - Hold(t, d)
    <3>1. Live(d)' = Live(d) /\ Cardinality(Live(d)) \in Int
      BY <2>1, LiveCard DEF Live
    <3>2. ~Closing(t, d) /\ ~Closing(t, d)' /\ ~Calls(t, d) /\ (Calls(t, d)' <=> d = e)
      BY <2>1 DEF Closing, Calls
    <3>3. Hold(t, d)' = Hold(t, d) + IF d = e THEN 1 ELSE 0
      BY <2>1, <3>2 DEF Hold, One
    <3>4. dref'[d] = dref[d] + IF d = e THEN 1 ELSE 0
      BY <1>0, <2>1 DEF TypeOK
    <3>5. Hold(t, d) \in Int /\ dref[d] \in Int
      BY <1>0 DEF Hold, One, TypeOK
    <3> QED
      BY <3>1, <3>3, <3>4, <3>5
  <2> QED
    BY <1>0, <2>1, <2>2, DeviceCounts
<1>3. ASSUME NEW e \in Device, CloseDevice(t, e)
      PROVE  DeviceRefs'
  <2>1. /\ UNCHANGED <<ref, device, dref>> /\ open' = open \ {e} /\ e \in open /\ pc[t] = "idle"
        /\ pc'[t] \in {"last", "close"} /\ dev'[t] = e /\ ListLock = Null
    BY <1>0, <1>3 DEF CloseDevice, TypeOK
  <2>2. \A u \in Thread : ~(pc[u] \in Ending /\ dev[u] = e)
    BY <1>0, <2>1 DEF IInv, PlaceInv
  <2>3. ASSUME NEW d \in Device
        PROVE  dref'[d] - Cardinality(Live(d)') = dref[d] - Cardinality(Live(d)) + Hold(t, d)' - Hold(t, d)
    <3>1. Live(d)' = Live(d) /\ Cardinality(Live(d)) \in Int
      BY <2>1, LiveCard DEF Live
    <3>2. ~Closing(t, d) /\ (Closing(t, d)' <=> d = e) /\ ~Calls(t, d) /\ ~Calls(t, d)'
      BY <2>1 DEF Closing, Calls
    <3>3. Hold(t, d)' = Hold(t, d) /\ Hold(t, d) \in Int
      BY <2>1, <3>2 DEF Hold, One
    <3>4. dref'[d] = dref[d] /\ dref[d] \in Int
      BY <1>0, <2>1 DEF TypeOK
    <3> QED
      BY <3>1, <3>3, <3>4
  <2>4. \A d \in Device : (d \in open' <=> d \in open) \/ \A u \in Thread : ~(pc[u] \in Ending /\ dev[u] = d)
    BY <2>1, <2>2
  <2> QED
    BY <1>0, <2>3, <2>4, DeviceCounts
<1>4. CASE (\E c \in Context : DestroyContext(t, c)) \/ ReadGlobal(t)
  <2>1. UNCHANGED <<ref, device, dref, open>> /\ pc[t] = "idle" /\ pc'[t] \in {"destroy", "read"}
    BY <1>0, <1>4 DEF DestroyContext, ReadGlobal, TypeOK
  <2>2. \A d \in Device : ~Closing(t, d) /\ ~Closing(t, d)' /\ ~Calls(t, d) /\ ~Calls(t, d)'
    BY <2>1 DEF Closing, Calls
  <2> QED
    BY <1>0, <2>1, <2>2, BalancedSame, HoldSame
<1>5. CASE \/ \E c \in Context \cup {Null} : MakeContextCurrent(t, c) \/ SetThreadContext(t, c)
           \/ ReleaseThreadCtx(t) \/ GetLocal(t)
  <2>1. UNCHANGED open /\ pc[t] = "idle" /\ pc'[t] \in {"idle", "ref", "lock"}
    BY <1>0, <1>5 DEF MakeContextCurrent, SetThreadContext, ReleaseThreadCtx, GetLocal, TypeOK
  <2>2. \A d \in Device : ~Closing(t, d) /\ ~Closing(t, d)' /\ ~Calls(t, d) /\ ~Calls(t, d)'
    BY <2>1 DEF Closing, Calls
  <2>3. \A d \in Device : Balanced(d)
    BY <1>5, CountsAre, BalancedCounts, BalancedCurrent
  <2> QED
    BY <1>0, <2>1, <2>2, <2>3, HoldSame
<1> QED
  BY <1>1, <1>2, <1>3, <1>4, <1>5 DEF Begin

LEMMA HeldCalls ==
  ASSUME IInv, NEW t \in Thread, Step(t)
  PROVE  DeviceRefs'
<1> USE DEF Go, Aim, Done, lists, local
<1>0. OthersStay(t) /\ TypeOK /\ dref' \in [Device -> Int]
  BY Stays, CountsStep DEF IInv, Next
<1>1. CASE DeviceDecRef(t) \/ ClosePlayback(t)
  <2>1. PICK e \in Device : e = dev[t]
    BY <1>1 DEF DeviceDecRef, ClosePlayback, IInv, PlaceInv, OnDevice, Ending
  <2>2. /\ UNCHANGED <<ref, device, open>> /\ pc'[t] = "idle"
        /\ dref' = [dref EXCEPT ![e] = @ - 1]
        /\ pc[t] = "device" \/ (pc[t] = "last" /\ e \notin open)
    BY <1>0, <1>1, <2>1 DEF DeviceDecRef, ClosePlayback, TypeOK, IInv, PlaceInv
  <2>3. ASSUME NEW d \in Device
        PROVE  dref'[d] - Cardinality(Live(d)') = dref[d] - Cardinality(Live(d)) + Hold(t, d)' - Hold(t, d)
    <3>1. Live(d)' = Live(d) /\ Cardinality(Live(d)) \in Int
      BY <2>2, LiveCard DEF Live
    <3>2. /\ ~Closing(t, d)' /\ ~Calls(t, d)'
          /\ \/ ~Closing(t, d) /\ (Calls(t, d) <=> d = e)
             \/ ~Calls(t, d) /\ (Closing(t, d) <=> d = e)
      BY <2>1, <2>2 DEF Closing, Calls
    <3>3. Hold(t, d)' = Hold(t, d) - IF d = e THEN 1 ELSE 0
      BY <2>2, <3>2 DEF Hold, One
    <3>4. dref'[d] = dref[d] - IF d = e THEN 1 ELSE 0
      BY <1>0, <2>2 DEF TypeOK
    <3>5. Hold(t, d) \in Int /\ dref[d] \in Int
      BY <1>0 DEF Hold, One, TypeOK
    <3> QED
      BY <3>1, <3>3, <3>4, <3>5
  <2> QED
    BY <1>0, <2>2, <2>3, DeviceCounts
<1>2. CASE \/ StopForAttributes(t) \/ Restart(t) \/ RestartFails(t) \/ HandleDisconnect(t) \/ CreateFails(t)
           \/ EnterMutex(t) \/ LeaveMutex(t) \/ Unlink(t) \/ Barrier(t) \/ StopPlayback(t)
  <2>1. UNCHANGED <<ref, device, dref, open>>
    BY <1>2 DEF StopForAttributes, Restart, RestartFails, HandleDisconnect, CreateFails, EnterMutex,
                LeaveMutex, Unlink, Barrier, StopPlayback
  <2>2. ASSUME NEW d \in Device
        PROVE  (Closing(t, d)' <=> Closing(t, d)) /\ (Calls(t, d)' <=> Calls(t, d))
    <3>1. CASE \/ StopForAttributes(t) \/ Restart(t) \/ RestartFails(t) \/ HandleDisconnect(t) \/ CreateFails(t)
               \/ EnterMutex(t) \/ LeaveMutex(t)
      <4>1. /\ dev'[t] = dev[t]
            /\ \/ pc[t] \in {"create", "update", "link", "failed"} /\ pc'[t] \in {"update", "link", "failed", "device"}
               \/ pc[t] \in {"lock", "locked"} /\ pc'[t] \in {"locked", "ref"}
        BY <1>0, <3>1 DEF StopForAttributes, Restart, RestartFails, HandleDisconnect, CreateFails,
                          EnterMutex, LeaveMutex, TypeOK
      <4> QED
        BY <4>1 DEF Closing, Calls
    <3>2. CASE Unlink(t) \/ Barrier(t) \/ StopPlayback(t)
      <4>1. pc[t] = "destroy" => dev[t] \in open
        BY DEF IInv, PlaceInv
      <4>2. \/ pc[t] \in {"destroy", "close", "barrier"} /\ pc'[t] \in {"barrier", "local"} /\ dev'[t] = dev[t]
            \/ pc[t] = "stop" /\ pc'[t] = "idle" /\ dev[t] \in open
            \/ pc[t] = "stop" /\ pc'[t] = "last" /\ dev'[t] = dev[t]
        BY <1>0, <3>2 DEF Unlink, Barrier, StopPlayback, TypeOK
      <4> QED
        BY <2>1, <4>1, <4>2 DEF Closing, Calls
    <3> QED
      BY <1>2, <3>1, <3>2
  <2> QED
    BY <1>0, <2>1, <2>2, BalancedSame, HoldSame
<1>3. CASE IncRefGlobal(t) \/ DecRef(t) \/ DropLocal(t) \/ DropGlobal(t) \/ DropOwn(t)
  <2>1. UNCHANGED open
    BY <1>3 DEF IncRefGlobal, DecRef, DropLocal, DropGlobal, DropOwn
  <2>2. ASSUME NEW d \in Device
        PROVE  (Closing(t, d)' <=> Closing(t, d)) /\ (Calls(t, d)' <=> Calls(t, d))
    <3>1. \/ pc[t] \in {"read", "ref"} /\ pc'[t] \in {"wild", "ref", "lock", "idle"}
          \/ pc[t] \in {"local", "global", "own"} /\ pc'[t] \in {"global", "own", "stop", "close"} /\ dev'[t] = dev[t]
          \/ pc[t] = "own" /\ pc'[t] = "idle" /\ dev[t] \in open
      BY <1>0, <1>3 DEF IncRefGlobal, DecRef, DropLocal, DropGlobal, DropOwn, TypeOK
    <3> QED
      BY <2>1, <3>1 DEF Closing, Calls
  <2>3. \A d \in Device : Balanced(d)
    BY <1>3, CountsAre, BalancedCounts, BalancedSame
  <2> QED
    BY <1>0, <2>1, <2>2, <2>3, HoldSame
<1>4. ASSUME NEW x \in Context, CreateLink(t, x)
      PROVE  DeviceRefs'
  <2>1. PICK e \in Device : e = dev[t]
    BY <1>4 DEF CreateLink, IInv, PlaceInv, OnDevice, Creating
  <2>2. /\ UNCHANGED <<open, dev>> /\ pc[t] = "link" /\ pc'[t] = "device" /\ x \notin born
        /\ ref' = [ref EXCEPT ![x] = 1] /\ device' = [device EXCEPT ![x] = e]
        /\ dref' = [dref EXCEPT ![e] = @ + 1]
    BY <1>0, <1>4, <2>1 DEF CreateLink, InitContext, TypeOK
  <2>3. \A d \in Device : (Closing(t, d)' <=> Closing(t, d)) /\ (Calls(t, d)' <=> Calls(t, d))
    BY <2>2 DEF Closing, Calls
  <2>4. ASSUME NEW d \in Device
        PROVE  Balanced(d)
    <3>1. ref[x] = 0
      BY <2>2 DEF IInv, BornInv
    <3>2. /\ \A c \in Context \ {x} : ref'[c] = ref[c] /\ device'[c] = device[c]
          /\ ref'[x] = 1 /\ device'[x] = e
          /\ dref'[d] = dref[d] + IF d = e THEN 1 ELSE 0
      BY <1>0, <2>2 DEF TypeOK
    <3>3. x \notin Live(d) /\ Live(d)' = IF d = e THEN Live(d) \cup {x} ELSE Live(d)
      BY <3>1, <3>2 DEF Live
    <3>4. Cardinality(Live(d)') = Cardinality(Live(d)) + IF d = e THEN 1 ELSE 0
      <4>1. Live(d) \in SUBSET Context
        BY DEF Live
      <4>2. IsFiniteSet(Live(d))
        BY <4>1, FiniteAssumption, FS_Subset
      <4> QED
        BY <3>3, <4>2, FS_AddElement, LiveCard, SMTT(30)
    <3>5. dref[d] \in Int
      BY <1>0 DEF TypeOK
    <3> QED
      BY <3>2, <3>4, <3>5, LiveCard DEF Balanced
  <2> QED
    BY <1>0, <2>2, <2>3, <2>4, HoldSame
<1> QED
  BY <1>1, <1>2, <1>3, <1>4 DEF Step

LEMMA DeviceRefsStep ==
  ASSUME IInv, [Next]_vars
  PROVE  DeviceRefs'
<1>1. CASE \/ \E d \in Device : MixBegin(d) \/ MixNext(d) \/ MixEnd(d) \/ MixDisconnect(d)
           \/ UNCHANGED vars
  <2>1. UNCHANGED <<open, device, ref, dref, pc, dev>>
    BY <1>1 DEF MixBegin, MixNext, MixEnd, MixDisconnect, vars, lists, local
  <2>2. \A d \in Device :
          /\ Live(d)' = Live(d)
          /\ {u \in Thread : Closing(u, d)'} = {u \in Thread : Closing(u, d)}
          /\ {u \in Thread : Calls(u, d)'} = {u \in Thread : Calls(u, d)}
    BY <2>1 DEF Live, Closing, Calls
  <2>3. \A d \in Device :
          dref[d] = One(d \in open) + Cardinality({u \in Thread : Closing(u, d)})
                    + Cardinality(Live(d)) + Cardinality({u \in Thread : Calls(u, d)})
    BY DEF IInv, DeviceRefs, Closing, Calls, Live
  <2>4. \A d \in Device :
          dref'[d] = One(d \in open') + Cardinality({u \in Thread : Closing(u, d)'})
                     + Cardinality(Live(d)') + Cardinality({u \in Thread : Calls(u, d)'})
    BY <2>1, <2>2, <2>3
  <2> QED
    BY <2>4 DEF DeviceRefs, Closing, Calls, Live
<1> QED
  BY <1>1, HeldBegin, HeldCalls DEF Next

-----------------------------------------------------------------------------
(* The variables stay in their types; the counts because they are exact.    *)

LEMMA CountTypes ==
  ASSUME IInv, [Next]_vars
  PROVE  ref' \in [Context -> Nat] /\ dref' \in [Device -> Nat]
<1>1. ref' \in [Context -> Int] /\ dref' \in [Device -> Int]
  BY CountsStep
<1>2. ASSUME NEW c \in Context
      PROVE  ref'[c] >= 0
  <2> DEFINE A == {u \in Thread : Takes(u, c)'}
             B == {u \in Thread : Owns(u, c)'}
             C == {u \in Thread : Uses(u, c)'}
             listed == One(Listed(c)')
             current1 == One(GlobalContext' = c)
  <2>1. ref'[c] = listed + Cardinality(A) + current1 + Cardinality(B) + Cardinality(C)
    BY ContextRefsStep DEF ContextRefs, Takes, Owns, Uses, Listed
  <2>2. A \in SUBSET Thread /\ B \in SUBSET Thread /\ C \in SUBSET Thread
    OBVIOUS
  <2>3. listed \in Nat /\ current1 \in Nat
    BY DEF One
  <2> HIDE DEF A, B, C, listed, current1
  <2>4. Cardinality(A) \in Nat /\ Cardinality(B) \in Nat /\ Cardinality(C) \in Nat
    BY <2>2, Counted
  <2> QED
    BY <2>1, <2>3, <2>4
<1>3. ASSUME NEW d \in Device
      PROVE  dref'[d] >= 0
  <2> DEFINE A == {u \in Thread : Closing(u, d)'}
             B == {u \in Thread : Calls(u, d)'}
             live == Live(d)'
             opened == One(d \in open')
  <2>1. dref'[d] = opened + Cardinality(A) + Cardinality(live) + Cardinality(B)
    BY DeviceRefsStep DEF DeviceRefs, Closing, Calls, Live
  <2>2. A \in SUBSET Thread /\ B \in SUBSET Thread /\ live \in SUBSET Context
    BY DEF Live
  <2>3. opened \in Nat
    BY DEF One
  <2> HIDE DEF A, B, live, opened
  <2>4. Cardinality(A) \in Nat /\ Cardinality(B) \in Nat /\ Cardinality(live) \in Nat
    BY <2>2, Counted, FiniteAssumption, FS_Subset, FS_CardinalityType
  <2> QED
    BY <2>1, <2>3, <2>4
<1> QED
  BY <1>1, <1>2, <1>3

LEMMA TypeStep ==
  ASSUME IInv, [Next]_vars
  PROVE  TypeOK'
<1> USE DEF Go, Aim, Done, LockLists, UnlockLists, Place, lists, local, current, playback
<1>0. /\ TypeOK /\ BornInv /\ PlaceInv
      /\ ref' \in [Context -> Nat] /\ dref' \in [Device -> Nat]
      /\ head' \in [Device -> Context \cup {Null}] /\ next' \in [Context -> Context \cup {Null}]
  BY CountTypes, ListStep DEF IInv, Links
<1>1. ASSUME NEW t \in Thread, Begin(t)
      PROVE  TypeOK'
  <2>1. ASSUME NEW d \in Device, OpenDevice(t, d) \/ VerifyDevice(t, d) \/ CreateContext(t, d) \/ CloseDevice(t, d)
        PROVE  TypeOK'
    BY <1>0, <2>1, ZenonT(30) DEF OpenDevice, VerifyDevice, CreateContext, CloseDevice, TypeOK
  <2>2. ASSUME NEW c \in Context, DestroyContext(t, c)
        PROVE  TypeOK'
    <3>1. device[c] \in Device \cup {Null}
      BY <1>0 DEF TypeOK
    <3> QED
      BY <1>0, <2>2, <3>1 DEF DestroyContext, TypeOK
  <2>3. ASSUME NEW c \in Context \cup {Null}, MakeContextCurrent(t, c) \/ SetThreadContext(t, c)
        PROVE  TypeOK'
    <3>1. /\ UNCHANGED <<open, head, next, device, born, ListLock, Mutex, running, Connected, mixer, pc, ctx, dev>>
          /\ GlobalContext' \in Context \cup {Null}
          /\ LocalContext' \in [Thread -> Context \cup {Null}]
      BY <1>0, <2>3 DEF MakeContextCurrent, SetThreadContext, TypeOK
    <3> QED
      BY <1>0, <3>1 DEF TypeOK
  <2>4. CASE ReleaseThreadCtx(t)
    BY <1>0, <2>4 DEF ReleaseThreadCtx, TypeOK
  <2>5. CASE GetLocal(t) \/ ReadGlobal(t)
    <3>1. /\ GlobalContext # Null => device[GlobalContext] \in Device \cup {Null}
          /\ LocalContext[t] # Null => device[LocalContext[t]] \in Device \cup {Null}
      BY <1>0 DEF TypeOK
    <3> QED
      BY <1>0, <2>5, <3>1 DEF GetLocal, ReadGlobal, TypeOK
  <2> QED
    BY <1>1, <2>1, <2>2, <2>3, <2>4, <2>5 DEF Begin
<1>2. ASSUME NEW t \in Thread, Step(t)
      PROVE  TypeOK'
  <2>1. CASE DeviceDecRef(t) \/ StopForAttributes(t) \/ Restart(t)
    BY <1>0, <2>1 DEF DeviceDecRef, StopForAttributes, Restart, TypeOK
  <2>2. CASE RestartFails(t) \/ HandleDisconnect(t) \/ CreateFails(t)
    BY <1>0, <2>2, ZenonT(30) DEF RestartFails, HandleDisconnect, CreateFails, TypeOK
  <2>3. ASSUME NEW c \in Context, CreateLink(t, c)
        PROVE  TypeOK'
    <3>1. dev[t] \in Device
      BY <1>0, <2>3 DEF CreateLink, PlaceInv, OnDevice, Creating
    <3> QED
      BY <1>0, <2>3, <3>1 DEF CreateLink, TypeOK
  <2>4. CASE IncRefGlobal(t) \/ EnterMutex(t) \/ LeaveMutex(t) \/ DecRef(t)
    BY <1>0, <2>4 DEF IncRefGlobal, EnterMutex, LeaveMutex, DecRef, TypeOK
  <2>5. CASE Unlink(t) \/ Barrier(t) \/ DropLocal(t) \/ DropGlobal(t)
    BY <1>0, <2>5 DEF Unlink, Barrier, DropLocal, DropGlobal, TypeOK
  <2>6. CASE DropOwn(t)
    <3>1. dev[t] \in Device /\ head[dev[t]] \in Context \cup {Null}
      BY <1>0, <2>6 DEF DropOwn, PlaceInv, OnDevice, Ending, TypeOK
    <3> QED
      BY <1>0, <2>6, <3>1 DEF DropOwn, TypeOK
  <2>7. CASE StopPlayback(t) \/ ClosePlayback(t)
    BY <1>0, <2>7 DEF StopPlayback, ClosePlayback, TypeOK
  <2> QED
    BY <1>2, <2>1, <2>2, <2>3, <2>4, <2>5, <2>6, <2>7 DEF Step
<1>3. ASSUME NEW d \in Device, MixBegin(d) \/ MixNext(d) \/ MixEnd(d) \/ MixDisconnect(d)
      PROVE  TypeOK'
  <2>1. head[d] \in Context \cup {Null} /\ (mixer[d] # Null => next[mixer[d]] \in Context \cup {Null})
    BY <1>0 DEF TypeOK
  <2> QED
    BY <1>0, <1>3, <2>1 DEF MixBegin, MixNext, MixEnd, MixDisconnect, TypeOK
<1>4. CASE UNCHANGED vars
  BY <1>0, <1>4 DEF vars, TypeOK
<1> QED
  BY <1>1, <1>2, <1>3, <1>4 DEF Next

-----------------------------------------------------------------------------
LEMMA InitInv == Init => IInv
<1> SUFFICES ASSUME Init
             PROVE  IInv
  OBVIOUS
<1>1. TypeOK /\ BornInv /\ PlaceInv /\ GlobalInv
  BY DEF Init, TypeOK, BornInv, PlaceInv, GlobalInv, GlobalOf, Place, OnDevice, OnContext, Creating, Ending
<1>2. \A d \in Device : InList(d) = {}
  BY DEF Init, InList, Follows
<1>3. ListInv
  BY <1>2 DEF ListInv
<1>4. EndInv /\ PlayInv
  BY DEF Init, EndInv, EndOf, PlayInv, PlayOf, LinkOf, Ending, Unlinked
<1>5. MixInv
  BY MixingAssumption DEF Init, MixInv, MixOf, BarrierOf
<1>6. ContextRefs
  <2>1. ASSUME NEW c \in Context
        PROVE  /\ ref[c] = 0 /\ GlobalContext # c /\ ~(\E d \in Device : c \in InList(d))
               /\ {t \in Thread : Unlinked(t) /\ ctx[t] = c} = {}
               /\ {t \in Thread : LocalContext[t] = c} = {}
               /\ {t \in Thread : HasRef(t) /\ ctx[t] = c} = {}
    BY <1>2, NullAssumption DEF Init, Unlinked, HasRef
  <2> QED
    BY <2>1, FS_EmptySet DEF ContextRefs, One
<1>7. DeviceRefs
  <2>1. ASSUME NEW d \in Device
        PROVE  /\ dref[d] = 0 /\ d \notin open
               /\ {t \in Thread : dev[t] = d /\ d \notin open
                                  /\ pc[t] \in {"close", "barrier", "local", "global",
                                                "own", "stop", "last"}} = {}
               /\ {c \in Context : device[c] = d /\ ref[c] > 0} = {}
               /\ {t \in Thread : dev[t] = d
                                  /\ pc[t] \in {"device", "create", "update", "link", "failed"}} = {}
    BY DEF Init
  <2> QED
    BY <2>1, FS_EmptySet DEF DeviceRefs, One
<1> QED
  BY <1>1, <1>3, <1>4, <1>5, <1>6, <1>7 DEF IInv

(* The invariant, and what follows from it.                                 *)
LEMMA Invariant == Spec => []IInv
<1>1. IInv /\ [Next]_vars => IInv'
  <2> SUFFICES ASSUME IInv, [Next]_vars
               PROVE  IInv'
    OBVIOUS
  <2> QED
    BY TypeStep, BornStep, ListStep, PlaceStep, EndStep, MixStep, PlayStep, GlobalStep,
       ContextRefsStep, DeviceRefsStep DEF IInv
<1> QED
  BY InitInv, <1>1, PTL DEF Spec

(* Every variable keeps its type; no reference count of alcContext or       *)
(* ALCdevice ever goes below zero.                                          *)
THEOREM TypeCorrect == Spec => []TypeOK
<1>1. IInv => TypeOK
  BY DEF IInv
<1> QED
  BY Invariant, <1>1, PTL

(* A context's count is the number of places that hold it and a device's    *)
(* the number that hold it, at every step of every call (ALc.c).            *)
THEOREM Exact == Spec => []RefsExact
<1>1. IInv => RefsExact
  BY DEF IInv, RefsExact
<1> QED
  BY Invariant, <1>1, PTL

(* Nothing freed is in use: the mixer stands on a live context of a running *)
(* device, since ReleaseContext waits for it between unlinking and freeing; *)
(* and alcGetCurrentContext's callers meet freed memory only through a      *)
(* device that another thread closes.                                       *)
THEOREM Unused == Spec => []FreedUnused
<1>1. IInv => FreedUnused
  <2> SUFFICES ASSUME IInv
               PROVE  FreedUnused
    OBVIOUS
  <2>1. ASSUME NEW d \in Device, Mutex[d] = Mixing
        PROVE  /\ mixer[d] # Null => ref[mixer[d]] > 0
               /\ dref[d] > 0 /\ running[d]
    <3>1. /\ running[d]
          /\ mixer[d] # Null => \/ mixer[d] \in InList(d)
                                \/ \E t \in Thread : pc[t] = "barrier" /\ ctx[t] = mixer[d] /\ dev[t] = d
      BY <2>1 DEF IInv, MixInv, MixOf
    <3>2. mixer[d] # Null => ref[mixer[d]] > 0
      BY <3>1, Held DEF Unlinked
    <3>3. d \in open \/ \E t \in Thread : Closing(t, d)
      <4>1. d \in open \/ \E t \in Thread : dev[t] = d /\ Closes(t)
        BY <3>1 DEF IInv, PlayInv, PlayOf
      <4>2. \A t \in Thread : pc[t] = "destroy" => dev[t] \in open
        BY DEF IInv, PlaceInv
      <4> QED
        BY <4>1, <4>2 DEF Closing, Closes, Ending
    <3>4. dref[d] > 0
      <4> DEFINE A == {t \in Thread : Closing(t, d)}
                 B == {t \in Thread : Calls(t, d)}
                 live == Cardinality(Live(d))
      <4>1. dref[d] = One(d \in open) + Cardinality(A) + live + Cardinality(B)
        BY DEF IInv, DeviceRefs, Closing, Calls, Live
      <4>2. A \in SUBSET Thread /\ B \in SUBSET Thread /\ (d \in open \/ \E t \in A : TRUE)
        BY <3>3
      <4>3. live \in Nat
        <5>1. Live(d) \in SUBSET Context
          BY DEF Live
        <5> QED
          BY <5>1, FiniteAssumption, FS_Subset, FS_CardinalityType
      <4> HIDE DEF A, B, live
      <4>4. Cardinality(A) \in Nat /\ Cardinality(B) \in Nat /\ (d \in open \/ Cardinality(A) > 0)
        BY <4>2, Counted
      <4> QED
        BY <4>1, <4>3, <4>4 DEF One
    <3> QED
      BY <3>1, <3>2, <3>4
  <2>2. ASSUME NEW t \in Thread, pc[t] = "wild"
        PROVE  device[ctx[t]] \notin open
    BY <2>2 DEF IInv, GlobalInv, GlobalOf, PlaceInv, OnContext
  <2> QED
    BY <2>1, <2>2 DEF FreedUnused
<1> QED
  BY Invariant, <1>1, PTL

(* Playback runs exactly while a connected device has contexts, whenever no *)
(* call that changes this is under way (UpdateDeviceParams, StopPlayback).  *)
THEOREM Playback == Spec => []PlaybackMatches
<1>1. IInv => PlaybackMatches
  <2> SUFFICES ASSUME IInv, NEW d \in open, ListLock = Null,
                      \A t \in Thread : dev[t] = d => pc[t] # "failed"
               PROVE  /\ Connected[d] /\ head[d] # Null => running[d]
                      /\ running[d] => head[d] # Null
    BY DEF PlaybackMatches
  <2>1. d \in Device /\ PlayOf(d)
    BY DEF IInv, TypeOK, PlayInv
  <2>2. \A t \in Thread : dev[t] = d => ~Sees(t) /\ ~Restarts(t)
    <3>1. \A t \in Thread : t # Null
      BY NullAssumption
    <3>2. \A t \in Thread : /\ pc[t] \in Creating => ListLock = t
                            /\ pc[t] \in Ending /\ dev[t] \in open => ListLock = t
      BY DEF IInv, PlaceInv
    <3> QED
      BY <3>1, <3>2 DEF Sees, Restarts, Unlinked, Creating, Ending
  <2> QED
    BY <2>1, <2>2 DEF PlayOf
<1> QED
  BY Invariant, <1>1, PTL

=============================================================================
