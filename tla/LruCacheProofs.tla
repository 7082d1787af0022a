---------------------------- MODULE LruCacheProofs ----------------------------
(***************************************************************************)
(* For every set of keys, values and nodes, every capacity and whatever    *)
(* allocations fail: the links form one list of the nodes in use, the map  *)
(* refers to them, the size is what was counted, and without failures the  *)
(* entries are listed in the order of use.                                 *)
(***************************************************************************)
EXTENDS
  LruCacheProps, FiniteSetTheorems, SequenceTheorems, WellFoundedInduction, TLAPS

(* s lists the n nodes of S, and the links c from h to t agree with it. *)
Place(s, n, i) == IF i \in 1 .. n THEN s[i] ELSE NULL
Listing(s, n, S) ==
  /\ s \in [1 .. n -> S]
  /\ \A i, j \in 1 .. n : i # j => s[i] # s[j]
  /\ \A x \in S : \E i \in 1 .. n : s[i] = x
ListOf(s, n, S, h, t, c) ==
  /\ Listing(s, n, S)
  /\ h = Place(s, n, 1) /\ t = Place(s, n, n)
  /\ \A i \in 1 .. n : c[s[i]].next = Place(s, n, i + 1) /\ c[s[i]].prev = Place(s, n, i - 1)

(* The lists with a new node before the head, with the node at place m moved *)
(* to the head, and without the tail.                                        *)
Pushed(s, n, x) == [i \in 1 .. (n + 1) |-> IF i = 1 THEN x ELSE s[i - 1]]
Brought(s, n, m) ==
  [i \in 1 .. n |-> IF i = 1 THEN s[m] ELSE IF i <= m THEN s[i - 1] ELSE s[i]]
Cut(s, n) == [i \in 1 .. (n - 1) |-> s[i]]

-----------------------------------------------------------------------------
(* What move_to_head leaves in each link, when the node is not the head.     *)
LEMMA HeadCells ==
  ASSUME NEW c \in Cells, NEW x \in Nodes, head \in Nodes, head # x,
         NEW p \in Nodes, p = c[x].prev, p # x,
         NEW q \in Pointers, q = c[x].next, q # x, q # head,
         NEW d, d = CellsWithHead(c, x)
  PROVE  /\ d \in Cells
         /\ \A m \in Nodes :
              /\ d[m].key = c[m].key /\ d[m].value = c[m].value
              /\ d[m].next = IF m = x THEN head ELSE IF m = p THEN q ELSE c[m].next
              /\ d[m].prev = IF m = x THEN NULL ELSE IF m = q THEN p
                             ELSE IF m = head THEN x ELSE c[m].prev
<1> DEFINE c1 == Write(c, head, "prev", x)
           c2 == Write(c1, c1[x].prev, "next", c1[x].next)
           c3 == Write(c2, c2[x].next, "prev", c2[x].prev)
<1>1. d = [c3 EXCEPT ![x].prev = NULL, ![x].next = head]
  BY DEF CellsWithHead
<1>2. c1 = Write(c, head, "prev", x)
  OBVIOUS
<1>3. c2 = Write(c1, c1[x].prev, "next", c1[x].next)
  OBVIOUS
<1>4. c3 = Write(c2, c2[x].next, "prev", c2[x].prev)
  OBVIOUS
<1> HIDE DEF c1, c2, c3
<1>5. /\ c1 \in Cells
      /\ \A m \in Nodes :
           /\ c1[m].key = c[m].key /\ c1[m].value = c[m].value /\ c1[m].next = c[m].next
           /\ c1[m].prev = IF m = head THEN x ELSE c[m].prev
  <2>1. c1 = [c EXCEPT ![head]["prev"] = x]
    BY <1>2, LruNull DEF Write
  <2> QED BY <2>1 DEF Cells, Pointers
<1>6. c2 = Write(c1, p, "next", q)
  BY <1>3, <1>5
<1>7. /\ c2 \in Cells
      /\ \A m \in Nodes :
           /\ c2[m].key = c1[m].key /\ c2[m].value = c1[m].value /\ c2[m].prev = c1[m].prev
           /\ c2[m].next = IF m = p THEN q ELSE c1[m].next
  <2>1. c2 = [c1 EXCEPT ![p]["next"] = q]
    BY <1>6, LruNull DEF Write
  <2> QED BY <1>5, <2>1 DEF Cells, Pointers
<1>8. c3 = Write(c2, q, "prev", p)
  BY <1>4, <1>5, <1>7
<1>9. /\ c3 \in Cells
      /\ \A m \in Nodes :
           /\ c3[m].key = c2[m].key /\ c3[m].value = c2[m].value /\ c3[m].next = c2[m].next
           /\ c3[m].prev = IF m = q THEN p ELSE c2[m].prev
  <2>1. CASE q = NULL
    BY <1>7, <1>8, <2>1, LruNull DEF Write
  <2>2. CASE q \in Nodes
    <3>1. c3 = [c2 EXCEPT ![q]["prev"] = p]
      BY <1>8, <2>2, LruNull DEF Write
    <3> QED BY <1>7, <2>2, <3>1 DEF Cells, Pointers
  <2> QED BY <2>1, <2>2 DEF Pointers
<1>10. /\ d \in Cells
       /\ \A m \in Nodes :
            /\ d[m].key = c3[m].key /\ d[m].value = c3[m].value
            /\ d[m].next = IF m = x THEN head ELSE c3[m].next
            /\ d[m].prev = IF m = x THEN NULL ELSE c3[m].prev
  <2> DEFINE e == [c3 EXCEPT ![x]["prev"] = NULL]
  <2>1. d = [e EXCEPT ![x]["next"] = head]
    BY <1>1
  <2>2. /\ e \in Cells
        /\ \A m \in Nodes :
             /\ e[m].key = c3[m].key /\ e[m].value = c3[m].value /\ e[m].next = c3[m].next
             /\ e[m].prev = IF m = x THEN NULL ELSE c3[m].prev
    BY <1>9 DEF Cells, Pointers
  <2> HIDE DEF e
  <2> QED BY <2>1, <2>2 DEF Cells, Pointers
<1> QED
  BY <1>5, <1>7, <1>9, <1>10

LEMMA WritePrev ==
  ASSUME NEW e \in Cells, NEW h \in Pointers, NEW x \in Nodes,
         NEW d, d = Write(e, h, "prev", x)
  PROVE  /\ d \in Cells
         /\ \A m \in Nodes :
              /\ d[m].key = e[m].key /\ d[m].value = e[m].value /\ d[m].next = e[m].next
              /\ d[m].prev = IF m = h THEN x ELSE e[m].prev
<1>1. CASE h = NULL
  BY <1>1, LruNull DEF Write
<1>2. CASE h \in Nodes
  <2>1. d = [e EXCEPT ![h]["prev"] = x]
    BY <1>2, LruNull DEF Write
  <2> QED BY <1>2, <2>1 DEF Cells, Pointers
<1> QED
  BY <1>1, <1>2 DEF Pointers

(* The links of a new node and of the head it is put before. *)
WithNode(c, x, r) == [c EXCEPT ![x] = r]
PushedBefore(c, h, x, d) ==
  \A m \in Nodes :
    /\ d[m].next = IF m = x THEN h ELSE c[m].next
    /\ d[m].prev = IF m = x THEN NULL ELSE IF m = h THEN x ELSE c[m].prev
Holds(c, x, k, v, d) ==
  \A m \in Nodes :
    /\ d[m].key = (IF m = x THEN k ELSE c[m].key)
    /\ d[m].value = (IF m = x THEN v ELSE c[m].value)

LEMMA NewCells ==
  ASSUME NEW c \in Cells, NEW h \in Pointers, NEW x \in Nodes, x # h,
         NEW k \in Keys \cup {NULL}, NEW v \in Values,
         NEW d, d = Write(WithNode(c, x, Node(k, v, NULL, h)), h, "prev", x)
  PROVE  d \in Cells /\ PushedBefore(c, h, x, d) /\ Holds(c, x, k, v, d)
<1>1. PICK e : e = WithNode(c, x, Node(k, v, NULL, h))
  OBVIOUS
<1>2. /\ e \in Cells
      /\ \A m \in Nodes :
           /\ e[m].key = (IF m = x THEN k ELSE c[m].key)
           /\ e[m].value = (IF m = x THEN v ELSE c[m].value)
           /\ e[m].next = IF m = x THEN h ELSE c[m].next
           /\ e[m].prev = IF m = x THEN NULL ELSE c[m].prev
  BY <1>1 DEF Cells, Pointers, Node, WithNode
<1>3. d = Write(e, h, "prev", x)
  BY <1>1
<1>4. /\ d \in Cells
      /\ \A m \in Nodes :
           /\ d[m].key = e[m].key /\ d[m].value = e[m].value /\ d[m].next = e[m].next
           /\ d[m].prev = IF m = h THEN x ELSE e[m].prev
  BY <1>2, <1>3, WritePrev
<1>5. PushedBefore(c, h, x, d)
  BY <1>2, <1>4 DEF PushedBefore
<1>6. Holds(c, x, k, v, d)
  BY <1>2, <1>4 DEF Holds
<1> QED
  BY <1>4, <1>5, <1>6

-----------------------------------------------------------------------------
LEMMA PushListing ==
  ASSUME NEW S, NEW n \in Nat, NEW s, Listing(s, n, S), NEW x, x \notin S,
         NEW r, r = Pushed(s, n, x)
  PROVE  Listing(r, n + 1, S \cup {x})
<1> USE DEF Pushed
<1>1. \A i \in 1 .. (n + 1) : i # 1 => i - 1 \in 1 .. n
  OBVIOUS
<1>2. r \in [1 .. (n + 1) -> S \cup {x}]
  BY <1>1 DEF Listing
<1>3. ASSUME NEW i \in 1 .. (n + 1), NEW j \in 1 .. (n + 1), i # j
      PROVE  r[i] # r[j]
  BY <1>1, <1>3 DEF Listing
<1>4. ASSUME NEW y \in S \cup {x}
      PROVE  \E i \in 1 .. (n + 1) : r[i] = y
  <2>1. CASE y = x
    BY <2>1, 1 \in 1 .. (n + 1)
  <2>2. CASE y \in S
    <3>1. PICK i \in 1 .. n : s[i] = y
      BY <2>2 DEF Listing
    <3>2. i + 1 \in 1 .. (n + 1) /\ i + 1 # 1 /\ (i + 1) - 1 = i
      OBVIOUS
    <3> QED BY <3>1, <3>2
  <2> QED BY <2>1, <2>2
<1> QED
  BY <1>2, <1>3, <1>4 DEF Listing

LEMMA MoveListing ==
  ASSUME NEW S, NEW n \in Nat, NEW s, Listing(s, n, S), NEW m \in 1 .. n,
         NEW r, r = Brought(s, n, m)
  PROVE  Listing(r, n, S)
<1> USE DEF Brought
<1>1. \A i \in 1 .. n : i # 1 => i - 1 \in 1 .. n
  OBVIOUS
<1>2. r \in [1 .. n -> S]
  BY <1>1 DEF Listing
<1>3. ASSUME NEW i \in 1 .. n, NEW j \in 1 .. n, i # j
      PROVE  r[i] # r[j]
  BY <1>1, <1>3 DEF Listing
<1>4. ASSUME NEW y \in S
      PROVE  \E i \in 1 .. n : r[i] = y
  <2>1. PICK i \in 1 .. n : s[i] = y
    BY DEF Listing
  <2>2. CASE i = m
    BY <2>1, <2>2, 1 \in 1 .. n
  <2>3. CASE i < m
    <3>1. i + 1 \in 1 .. n /\ i + 1 # 1 /\ i + 1 <= m /\ (i + 1) - 1 = i
      BY <2>3
    <3> QED BY <2>1, <3>1
  <2>4. CASE i > m
    BY <2>1, <2>4
  <2> QED BY <2>2, <2>3, <2>4
<1> QED
  BY <1>2, <1>3, <1>4 DEF Listing

LEMMA DropListing ==
  ASSUME NEW S, NEW n \in Nat \ {0}, NEW s, Listing(s, n, S),
         NEW r, r = Cut(s, n)
  PROVE  Listing(r, n - 1, S \ {s[n]})
<1> USE DEF Cut
<1>1. \A i \in 1 .. (n - 1) : i \in 1 .. n /\ i # n
  OBVIOUS
<1>2. r \in [1 .. (n - 1) -> S \ {s[n]}]
  BY <1>1, n \in 1 .. n DEF Listing
<1>3. \A i, j \in 1 .. (n - 1) : i # j => r[i] # r[j]
  BY <1>1 DEF Listing
<1>4. ASSUME NEW y \in S \ {s[n]}
      PROVE  \E i \in 1 .. (n - 1) : r[i] = y
  <2>1. PICK i \in 1 .. n : s[i] = y
    BY DEF Listing
  <2>2. i \in 1 .. (n - 1)
    BY <2>1
  <2> QED BY <2>1, <2>2
<1> QED
  BY <1>2, <1>3, <1>4 DEF Listing

(* Delete takes the nodes off at the head. *)
LEMMA PopListing ==
  ASSUME NEW S, NEW n \in Nat \ {0}, NEW s, Listing(s, n, S),
         NEW r, r = [i \in 1 .. (n - 1) |-> s[i + 1]]
  PROVE  Listing(r, n - 1, S \ {s[1]})
<1>1. \A i \in 1 .. (n - 1) : i + 1 \in 1 .. n /\ i + 1 # 1
  OBVIOUS
<1>2. r \in [1 .. (n - 1) -> S \ {s[1]}]
  BY <1>1, 1 \in 1 .. n DEF Listing
<1>3. ASSUME NEW i \in 1 .. (n - 1), NEW j \in 1 .. (n - 1), i # j
      PROVE  r[i] # r[j]
  BY <1>1, <1>3 DEF Listing
<1>4. ASSUME NEW y \in S \ {s[1]}
      PROVE  \E i \in 1 .. (n - 1) : r[i] = y
  <2>1. PICK i \in 1 .. n : s[i] = y
    BY DEF Listing
  <2>2. i - 1 \in 1 .. (n - 1) /\ (i - 1) + 1 = i
    BY <2>1
  <2> QED BY <2>1, <2>2
<1> QED
  BY <1>2, <1>3, <1>4 DEF Listing

-----------------------------------------------------------------------------
(* A new node x before the head. *)
LEMMA PushList ==
  ASSUME NEW S \in SUBSET Nodes, NEW n \in Nat, NEW s, NEW h, NEW t, NEW c,
         ListOf(s, n, S, h, t, c),
         NEW x \in Nodes \ S, NEW d, PushedBefore(c, h, x, d),
         NEW r, r = Pushed(s, n, x)
  PROVE  ListOf(r, n + 1, S \cup {x}, x, IF t = NULL THEN x ELSE t, d)
<1>1. Listing(s, n, S)
  BY DEF ListOf
<1> USE DEF PushedBefore
<1>2. Listing(r, n + 1, S \cup {x})
  BY <1>1, PushListing
<1>3. \A i \in 1 .. n : s[i] \in Nodes /\ s[i] # x /\ s[i] # NULL
  BY <1>1, LruNull DEF Listing
<1>4. r[1] = x /\ \A i \in 1 .. n : r[i + 1] = s[i]
  <2>1. \A i \in 1 .. n : i + 1 \in 1 .. (n + 1) /\ i + 1 # 1 /\ (i + 1) - 1 = i
    OBVIOUS
  <2> QED BY <2>1 DEF Pushed
<1>5. x = Place(r, n + 1, 1)
  BY <1>4 DEF Place
<1>6. (IF t = NULL THEN x ELSE t) = Place(r, n + 1, n + 1)
  <2>1. t = Place(s, n, n)
    BY DEF ListOf
  <2>2. CASE n = 0
    BY <1>4, <2>1, <2>2 DEF Place
  <2>3. CASE n # 0
    BY <1>3, <1>4, <2>1, <2>3, n \in 1 .. n DEF Place
  <2> QED BY <2>2, <2>3
<1>7. d[r[1]].next = Place(r, n + 1, 2) /\ d[r[1]].prev = Place(r, n + 1, 0)
  <2>1. h = Place(s, n, 1)
    BY DEF ListOf
  <2>2. h = Place(r, n + 1, 2)
    <3>1. CASE n = 0
      BY <2>1, <3>1 DEF Place
    <3>2. CASE n # 0
      BY <1>4, <2>1, <3>2, 1 \in 1 .. n DEF Place
    <3> QED BY <3>1, <3>2
  <2> QED BY <1>4, <2>2 DEF Place
<1>8. ASSUME NEW j \in 1 .. n
      PROVE  /\ d[r[j + 1]].next = Place(r, n + 1, j + 2)
             /\ d[r[j + 1]].prev = Place(r, n + 1, j)
  <2>1. /\ c[s[j]].next = Place(s, n, j + 1) /\ c[s[j]].prev = Place(s, n, j - 1)
        /\ h = Place(s, n, 1)
    BY DEF ListOf
  <2>2. Place(s, n, j + 1) = Place(r, n + 1, j + 2)
    <3>1. CASE j = n
      BY <3>1 DEF Place
    <3>2. CASE j # n
      BY <1>4, <3>2, j + 1 \in 1 .. n, (j + 1) + 1 = j + 2 DEF Place
    <3> QED BY <3>1, <3>2
  <2>3. CASE j = 1
    <3>1. s[j] = h
      BY <2>1, <2>3 DEF Place
    <3> QED BY <1>3, <1>4, <2>1, <2>2, <2>3, <3>1 DEF Place
  <2>4. CASE j # 1
    <3>1. j - 1 \in 1 .. n /\ (j - 1) + 1 = j /\ 1 \in 1 .. n
      BY <2>4
    <3>2. s[j] # h
      BY <1>1, <2>1, <2>4, <3>1 DEF Listing, Place
    <3>3. Place(s, n, j - 1) = Place(r, n + 1, j)
      BY <1>4, <3>1 DEF Place
    <3> QED BY <1>3, <1>4, <2>1, <2>2, <3>2, <3>3
  <2> QED BY <2>3, <2>4
<1>9. \A i \in 1 .. (n + 1) : d[r[i]].next = Place(r, n + 1, i + 1) /\ d[r[i]].prev = Place(r, n + 1, i - 1)
  <2> SUFFICES ASSUME NEW i \in 1 .. (n + 1)
               PROVE  d[r[i]].next = Place(r, n + 1, i + 1) /\ d[r[i]].prev = Place(r, n + 1, i - 1)
    OBVIOUS
  <2>1. CASE i = 1
    BY <1>7, <2>1
  <2>2. CASE i # 1
    <3>1. PICK j \in 1 .. n : i = j + 1
      <4>1. i - 1 \in 1 .. n /\ i = (i - 1) + 1
        BY <2>2
      <4> QED BY <4>1
    <3>2. i + 1 = j + 2 /\ i - 1 = j
      BY <3>1
    <3> QED BY <1>8, <3>1, <3>2
  <2> QED BY <2>1, <2>2
<1> QED
  BY <1>2, <1>5, <1>6, <1>9 DEF ListOf

(* The node at place m, not the first, moved to the head. *)
LEMMA MoveList ==
  ASSUME NEW S \in SUBSET Nodes, NEW n \in Nat, NEW s, NEW h, NEW t, NEW c,
         ListOf(s, n, S, h, t, c),
         NEW m \in 2 .. n, NEW x, x = s[m], NEW p, p = c[x].prev, NEW q, q = c[x].next,
         NEW d,
         \A y \in Nodes :
           /\ d[y].next = IF y = x THEN h ELSE IF y = p THEN q ELSE c[y].next
           /\ d[y].prev = IF y = x THEN NULL ELSE IF y = q THEN p
                          ELSE IF y = h THEN x ELSE c[y].prev,
         NEW r, r = Brought(s, n, m)
  PROVE  ListOf(r, n, S, x, IF x = t THEN p ELSE t, d)
<1>1. Listing(s, n, S)
  BY DEF ListOf
<1>2. Listing(r, n, S)
  <2> m \in 1 .. n
    OBVIOUS
  <2> QED BY <1>1, MoveListing
<1>3. \A i \in 1 .. n : s[i] \in Nodes /\ s[i] # NULL
  BY <1>1, LruNull DEF Listing
<1>4. \A i, j \in 1 .. n : i # j => s[i] # s[j]
  BY <1>1 DEF Listing
<1>5. /\ r[1] = x
      /\ \A i \in 2 .. m : r[i] = s[i - 1]
      /\ \A i \in (m + 1) .. n : r[i] = s[i]
  BY DEF Brought
<1>6. /\ h = s[1] /\ p = s[m - 1]
      /\ q = IF m = n THEN NULL ELSE s[m + 1]
      /\ t = s[n]
  <2>1. h = Place(s, n, 1) /\ t = Place(s, n, n)
    BY DEF ListOf
  <2>2. p = Place(s, n, m - 1) /\ q = Place(s, n, m + 1)
    BY DEF ListOf
  <2> QED BY <2>1, <2>2 DEF Place
<1>7. x = Place(r, n, 1)
  BY <1>5, 1 \in 1 .. n DEF Place
<1>8. (IF x = t THEN p ELSE t) = Place(r, n, n)
  <2>1. CASE m = n
    BY <1>5, <1>6, <2>1, n \in 2 .. m, n \in 1 .. n DEF Place
  <2>2. CASE m # n
    <3>1. n \in (m + 1) .. n /\ n \in 1 .. n /\ m \in 1 .. n
      BY <2>2
    <3>2. x # t
      BY <1>4, <1>6, <2>2, <3>1
    <3> QED BY <1>5, <1>6, <3>1, <3>2 DEF Place
  <2> QED BY <2>1, <2>2
<1>9. d[r[1]].next = Place(r, n, 2) /\ d[r[1]].prev = Place(r, n, 0)
  <2>1. x \in Nodes /\ 2 \in 2 .. m /\ 2 \in 1 .. n
    BY <1>3
  <2>2. d[x].next = h /\ d[x].prev = NULL
    BY <2>1
  <2>3. r[2] = s[1]
    BY <1>5, <2>1
  <2> QED BY <1>5, <1>6, <2>1, <2>2, <2>3 DEF Place
<1>10. ASSUME NEW j \in 1 .. (m - 1)
       PROVE  /\ d[r[j + 1]].next = Place(r, n, j + 2)
              /\ d[r[j + 1]].prev = Place(r, n, j)
  <2>1. /\ j \in 1 .. n /\ j # m /\ m \in 1 .. n /\ j + 1 \in 2 .. m /\ (j + 1) - 1 = j
        /\ j + 1 \in 1 .. n
    OBVIOUS
  <2>2. r[j + 1] = s[j] /\ s[j] # x /\ s[j] \in Nodes
    BY <1>3, <1>4, <1>5, <2>1
  <2>3. c[s[j]].next = s[j + 1] /\ c[s[j]].prev = Place(s, n, j - 1)
    BY <2>1 DEF ListOf, Place
  <2>4. s[j] # q
    BY <1>3, <1>4, <1>6, <2>1
  <2>5. d[s[j]].next = Place(r, n, j + 2)
    <3>1. CASE j = m - 1
      <4>1. d[s[j]].next = q
        BY <1>6, <2>2, <3>1
      <4>2. Place(r, n, m + 1) = q
        BY <1>5, <1>6 DEF Place
      <4> QED BY <3>1, <4>1, <4>2
    <3>2. CASE j # m - 1
      <4>1. m - 1 \in 1 .. n /\ j + 2 \in 2 .. m /\ j + 2 \in 1 .. n /\ (j + 2) - 1 = j + 1
        BY <3>2
      <4>2. s[j] # p
        BY <1>4, <1>6, <2>1, <3>2, <4>1
      <4>3. r[j + 2] = s[j + 1]
        BY <1>5, <4>1
      <4> QED BY <2>2, <2>3, <4>1, <4>2, <4>3 DEF Place
    <3> QED BY <3>1, <3>2
  <2>6. d[s[j]].prev = Place(r, n, j)
    <3>1. CASE j = 1
      BY <1>5, <1>6, <2>1, <2>2, <2>4, <3>1 DEF Place
    <3>2. CASE j # 1
      <4>1. 1 \in 1 .. n /\ j \in 2 .. m /\ j - 1 \in 1 .. n
        BY <3>2
      <4>2. s[j] # h
        BY <1>4, <1>6, <2>1, <3>2, <4>1
      <4>3. r[j] = s[j - 1]
        BY <1>5, <4>1
      <4> QED BY <2>1, <2>2, <2>3, <2>4, <4>1, <4>2, <4>3 DEF Place
    <3> QED BY <3>1, <3>2
  <2> QED BY <2>2, <2>5, <2>6
<1>11. ASSUME NEW i \in (m + 1) .. n
       PROVE  d[r[i]].next = Place(r, n, i + 1) /\ d[r[i]].prev = Place(r, n, i - 1)
  <2>1. i \in 1 .. n /\ i # m /\ m \in 1 .. n /\ m - 1 \in 1 .. n /\ i # m - 1 /\ 1 \in 1 .. n /\ i # 1
    OBVIOUS
  <2>2. r[i] = s[i] /\ s[i] # x /\ s[i] # p /\ s[i] # h /\ s[i] \in Nodes
    BY <1>3, <1>4, <1>5, <1>6, <2>1
  <2>3. c[s[i]].next = Place(s, n, i + 1) /\ c[s[i]].prev = s[i - 1]
    BY <2>1 DEF ListOf, Place
  <2>4. Place(s, n, i + 1) = Place(r, n, i + 1)
    BY <1>5, <2>1 DEF Place
  <2>5. d[s[i]].prev = Place(r, n, i - 1)
    <3>1. CASE i = m + 1
      <4>1. s[i] = q
        BY <1>6, <2>1, <3>1
      <4>2. d[s[i]].prev = p
        BY <2>2, <4>1
      <4>3. r[m] = s[m - 1]
        BY <1>5, m \in 2 .. m
      <4> QED BY <1>6, <2>1, <3>1, <4>2, <4>3 DEF Place
    <3>2. CASE i # m + 1
      <4>1. i - 1 \in (m + 1) .. n /\ i - 1 \in 1 .. n /\ (m # n => m + 1 \in 1 .. n)
        BY <3>2
      <4>2. s[i] # q
        BY <1>3, <1>4, <1>6, <2>1, <3>2, <4>1
      <4>3. d[s[i]].prev = s[i - 1]
        BY <2>2, <2>3, <4>2
      <4> QED BY <1>5, <4>1, <4>3 DEF Place
    <3> QED BY <3>1, <3>2
  <2> QED BY <2>2, <2>3, <2>4, <2>5
<1>12. \A i \in 1 .. n : d[r[i]].next = Place(r, n, i + 1) /\ d[r[i]].prev = Place(r, n, i - 1)
  <2> SUFFICES ASSUME NEW i \in 1 .. n
               PROVE  d[r[i]].next = Place(r, n, i + 1) /\ d[r[i]].prev = Place(r, n, i - 1)
    OBVIOUS
  <2>1. CASE i = 1
    BY <1>9, <2>1
  <2>2. CASE i # 1 /\ i <= m
    <3>1. PICK j \in 1 .. (m - 1) : i = j + 1
      <4>1. i - 1 \in 1 .. (m - 1) /\ i = (i - 1) + 1
        BY <2>2
      <4> QED BY <4>1
    <3>2. i + 1 = j + 2 /\ i - 1 = j
      BY <3>1
    <3> QED BY <1>10, <3>1, <3>2
  <2>3. CASE i > m
    BY <1>11, <2>3
  <2> QED BY <2>1, <2>2, <2>3
<1> QED
  BY <1>2, <1>7, <1>8, <1>12 DEF ListOf

(* The tail taken off a list of two nodes at least. *)
CutAfter(c, p, t, d) ==
  \A y \in Nodes \ {t} :
    /\ d[y].next = IF y = p THEN NULL ELSE c[y].next
    /\ d[y].prev = c[y].prev
    /\ d[y].key = c[y].key /\ d[y].value = c[y].value

LEMMA CutCells ==
  ASSUME NEW c \in Cells, NEW p \in Nodes, NEW t \in Nodes, p # t,
         NEW d, d = WithNode(Write(c, p, "next", NULL), t, Blank)
  PROVE  d \in Cells /\ CutAfter(c, p, t, d)
<1>1. PICK e : e = Write(c, p, "next", NULL)
  OBVIOUS
<1>2. e = [c EXCEPT ![p]["next"] = NULL]
  BY <1>1, LruNull DEF Write
<1>3. /\ e \in Cells
      /\ \A m \in Nodes :
           /\ e[m].key = c[m].key /\ e[m].value = c[m].value /\ e[m].prev = c[m].prev
           /\ e[m].next = IF m = p THEN NULL ELSE c[m].next
  BY <1>2 DEF Cells, Pointers
<1>4. d = [e EXCEPT ![t] = Blank]
  BY <1>1 DEF WithNode
<1>5. d \in Cells
  BY <1>3, <1>4 DEF Cells, Pointers, Blank, Node
<1>6. \A m \in Nodes \ {t} : d[m] = e[m]
  BY <1>3, <1>4 DEF Cells
<1> QED
  BY <1>3, <1>5, <1>6 DEF CutAfter

LEMMA DropList ==
  ASSUME NEW S \in SUBSET Nodes, NEW n \in Nat, n > 1, NEW s, NEW h, NEW t, NEW c,
         ListOf(s, n, S, h, t, c), NEW p, p = c[t].prev, NEW d, CutAfter(c, p, t, d),
         NEW r, r = Cut(s, n)
  PROVE  ListOf(r, n - 1, S \ {t}, h, p, d)
<1> USE DEF CutAfter
<1>1. Listing(s, n, S)
  BY DEF ListOf
<1>2. h = s[1] /\ t = s[n] /\ p = s[n - 1] /\ \A i \in 1 .. (n - 1) : r[i] = s[i]
  <2>1. h = Place(s, n, 1) /\ t = Place(s, n, n)
    BY DEF ListOf
  <2>2. n \in 1 .. n /\ 1 \in 1 .. n /\ n - 1 \in 1 .. n
    OBVIOUS
  <2>3. h = s[1] /\ t = s[n]
    BY <2>1, <2>2 DEF Place
  <2>4. p = Place(s, n, n - 1)
    BY <2>2, <2>3 DEF ListOf
  <2> QED BY <2>2, <2>3, <2>4 DEF Place, Cut
<1>3. Listing(r, n - 1, S \ {t})
  BY <1>1, <1>2, DropListing, n \in Nat \ {0}
<1>4. h = Place(r, n - 1, 1) /\ p = Place(r, n - 1, n - 1)
  BY <1>2, 1 \in 1 .. (n - 1), n - 1 \in 1 .. (n - 1) DEF Place
<1>5. ASSUME NEW i \in 1 .. (n - 1)
      PROVE  d[r[i]].next = Place(r, n - 1, i + 1) /\ d[r[i]].prev = Place(r, n - 1, i - 1)
  <2>1. i \in 1 .. n /\ i # n /\ n \in 1 .. n /\ n - 1 \in 1 .. n
    OBVIOUS
  <2>2. r[i] = s[i] /\ s[i] \in Nodes /\ s[i] # t
    BY <1>1, <1>2, <2>1 DEF Listing
  <2>3. c[s[i]].next = Place(s, n, i + 1) /\ c[s[i]].prev = Place(s, n, i - 1)
    BY <2>1 DEF ListOf
  <2>4. Place(s, n, i - 1) = Place(r, n - 1, i - 1)
    BY <1>2 DEF Place
  <2>5. CASE i = n - 1
    BY <1>2, <2>2, <2>3, <2>4, <2>5 DEF Place
  <2>6. CASE i # n - 1
    <3>1. s[i] # p
      BY <1>1, <1>2, <2>1, <2>6 DEF Listing
    <3>2. Place(s, n, i + 1) = Place(r, n - 1, i + 1)
      BY <1>2, <2>6, i + 1 \in 1 .. (n - 1) DEF Place
    <3> QED BY <2>2, <2>3, <2>4, <3>1, <3>2
  <2> QED BY <2>5, <2>6
<1> QED
  BY <1>3, <1>4, <1>5 DEF ListOf

(* The list only depends on the links of its nodes. *)
LEMMA SameList ==
  ASSUME NEW S \in SUBSET Nodes, NEW n \in Nat, NEW s, NEW h, NEW t, NEW c,
         ListOf(s, n, S, h, t, c), NEW d,
         \A y \in S : d[y].next = c[y].next /\ d[y].prev = c[y].prev
  PROVE  ListOf(s, n, S, h, t, d)
<1>1. \A i \in 1 .. n : s[i] \in S
  BY DEF ListOf, Listing
<1> QED
  BY <1>1 DEF ListOf

-----------------------------------------------------------------------------
(* The invariant.  A put that failed leaves a node that is not counted; a    *)
(* key has one entry at most, since put looks for it first.                  *)
Used == Cardinality(live)
Busy == {"none", "idle", "insert", "evict"}

ListInv ==
  /\ pc \in Busy => \E s : ListOf(s, Used, live, head, tail, cell)
  /\ pc = "delete" =>
       \E s : /\ Listing(s, Used, live) /\ head = Place(s, Used, 1)
              /\ \A i \in 1 .. Used : cell[s[i]].next = Place(s, Used, i + 1)
  /\ pc = "deleted" => live = {}

SizeInv ==
  /\ pc = "none" => count = 0
  /\ pc \in {"none", "idle"} => count <= capacity /\ Used = count + failed
  /\ pc = "insert" => count <= capacity /\ Used = count + failed + 1
  /\ pc = "evict" => count = capacity + 1 /\ Used = count + failed
  /\ pc \in {"idle", "insert", "evict"} => capacity > 0

Single == \A e, f \in map : e.key = f.key => e = f
Refers == \A e \in map : e.key \in keyless \/ (e.val \in live /\ cell[e.val].key = e.key)
Latest == keyless = {} => \A e \in map : cell[e.val].value = latest[e.key]

MapInv ==
  /\ pc \in Busy => Single /\ Refers /\ Latest
  /\ pc = "insert" =>
       /\ \A e \in map : e.key # putting
       /\ putting \in keyless \/ cell[head].key = putting
       /\ keyless = {} => cell[head].value = latest[putting]

LruInv == TypeOK /\ ListInv /\ SizeInv /\ MapInv

-----------------------------------------------------------------------------
LEMMA UsedFacts ==
  ASSUME live \in SUBSET Nodes
  PROVE  /\ IsFiniteSet(live) /\ Used \in Nat
         /\ Used = 0 <=> live = {}
         /\ \A x \in Nodes \ live : Cardinality(live \cup {x}) = Used + 1
         /\ \A x \in live : Cardinality(live \ {x}) = Used - 1
<1>1. IsFiniteSet(live)
  BY LruNodes, FS_Subset
<1> QED
  BY <1>1, FS_CardinalityType, FS_EmptySet, FS_AddElement, FS_RemoveElement DEF Used

(* A walk of the list meets every node in use, so both ends are in use.      *)
LEMMA Ends ==
  ASSUME NEW S \in SUBSET Nodes, NEW n \in Nat \ {0}, NEW s, NEW h, NEW t, NEW c,
         ListOf(s, n, S, h, t, c)
  PROVE  h \in S /\ t \in S /\ h = s[1] /\ t = s[n]
         /\ c[t].prev = Place(s, n, n - 1)
<1>1. 1 \in 1 .. n /\ n \in 1 .. n
  OBVIOUS
<1> QED
  BY <1>1 DEF ListOf, Listing, Place

LEMMA MoveKeeps ==
  ASSUME live \in SUBSET Nodes, head \in Pointers, tail \in Pointers, NEW c \in Cells,
         NEW s, ListOf(s, Used, live, head, tail, c), NEW m \in 1 .. Used,
         NEW x \in live, x = s[m], lru_cache_move_to_head(c, x)
  PROVE  /\ cell' \in Cells /\ head' = x /\ tail' \in Pointers /\ live' = live
         /\ ListOf(Brought(s, Used, m), Used, live, head', tail', cell')
         /\ \A y \in Nodes : cell'[y].key = c[y].key /\ cell'[y].value = c[y].value
<1>1. /\ cell' = CellsWithHead(c, x) /\ head' = x /\ live' = live
      /\ tail' = IF head # x /\ x = tail THEN c[x].prev ELSE tail
  BY DEF lru_cache_move_to_head
<1>2. x \in Nodes /\ c[x].prev \in Pointers
  BY DEF Cells
<1>3. CASE head = x
  <2>1. Brought(s, Used, m) = s
    <3>1. Used \in Nat
      BY UsedFacts
    <3> HIDE DEF Used
    <3>2. 1 \in 1 .. Used /\ s[1] = x /\ s \in [1 .. Used -> live]
      BY <1>3, <3>1 DEF ListOf, Listing, Place
    <3>3. m = 1
      BY <3>2 DEF ListOf, Listing
    <3> QED BY <3>1, <3>2, <3>3 DEF Brought
  <2> QED BY <1>1, <1>3, <2>1 DEF CellsWithHead
<1>4. CASE head # x
  <2>1. ListOf(s, Used, live, head, tail, c)
    OBVIOUS
  <2>2. Used \in Nat
    BY UsedFacts
  <2>3. s[m] = x
    OBVIOUS
  <2>4. /\ \A i \in 1 .. Used : s[i] \in Nodes
        /\ \A i, j \in 1 .. Used : i # j => s[i] # s[j]
        /\ 1 \in 1 .. Used /\ head = s[1]
        /\ c[x].prev = Place(s, Used, m - 1) /\ c[x].next = Place(s, Used, m + 1)
    <3> HIDE DEF Used
    <3>1. 1 \in 1 .. Used
      BY <2>2, <2>3
    <3>2. head = s[1]
      BY <2>1, <3>1 DEF ListOf, Place
    <3>3. c[s[m]].prev = Place(s, Used, m - 1) /\ c[s[m]].next = Place(s, Used, m + 1)
      BY <2>1, <2>3 DEF ListOf
    <3>4. /\ \A i \in 1 .. Used : s[i] \in Nodes
          /\ \A i, j \in 1 .. Used : i # j => s[i] # s[j]
      BY <2>1 DEF ListOf, Listing
    <3> QED BY <2>3, <3>1, <3>2, <3>3, <3>4
  <2>5. m \in 2 .. Used
    BY <1>4, <2>2, <2>3, <2>4
  <2> DEFINE p == c[x].prev
             q == c[x].next
  <2>6. p \in Nodes /\ p # x
    <3>1. m - 1 \in 1 .. Used /\ m - 1 # m
      BY <2>2, <2>5
    <3> QED BY <2>3, <2>4, <3>1 DEF Place
  <2>7. q \in Pointers /\ q # x /\ q # head
    <3>1. m + 1 # m /\ m + 1 # 1
      BY <2>2, <2>5
    <3> QED BY <1>2, <2>3, <2>4, <3>1, LruNull DEF Place, Pointers
  <2>8. head \in Nodes
    BY <2>4
  <2>9. p = c[x].prev /\ q = c[x].next
    OBVIOUS
  <2> HIDE DEF p, q
  <2>10. /\ cell' \in Cells
         /\ \A y \in Nodes :
              /\ cell'[y].key = c[y].key /\ cell'[y].value = c[y].value
              /\ cell'[y].next = IF y = x THEN head ELSE IF y = p THEN q ELSE c[y].next
              /\ cell'[y].prev = IF y = x THEN NULL ELSE IF y = q THEN p
                                 ELSE IF y = head THEN x ELSE c[y].prev
    BY <1>1, <1>2, <1>4, <2>6, <2>7, <2>8, <2>9, HeadCells
  <2>11. ListOf(Brought(s, Used, m), Used, live, x, IF x = tail THEN p ELSE tail, cell')
    <3> HIDE DEF Used
    <3> QED BY <2>1, <2>2, <2>3, <2>5, <2>9, <2>10, MoveList
  <2> QED
    BY <1>1, <1>2, <1>4, <2>9, <2>10, <2>11
<1> QED
  BY <1>3, <1>4

-----------------------------------------------------------------------------
Entries == [key : Keys, val : Nodes]

LEMMA GetFacts ==
  ASSUME NEW k \in Keys, map \subseteq Entries, Map!Get(k)
  PROVE  /\ map' = map
         /\ \/ map_ret'.value = NULL /\ \A e \in map : e.key # k
            \/ \E e \in map : e.key = k /\ map_ret'.value = e.val
<1>1. CASE Map!Of(k) = {}
  BY <1>1 DEF Map!Get, Map!Of, Map!Answer
<1>2. CASE Map!Of(k) # {}
  BY <1>2 DEF Map!Get, Map!Of, Map!Answer
<1> QED
  BY <1>1, <1>2

(* A step that leaves alone what the invariant speaks of. *)
LEMMA Untouched ==
  ASSUME LruInv,
         UNCHANGED <<links, count, capacity, mapped, map, pc, putting, failed, keyless, latest>>
  PROVE  LruInv'
<1>1. TypeOK'
  BY DEF LruInv, TypeOK, links
<1>2. ListInv'
  BY DEF LruInv, ListInv, links, Used
<1>3. SizeInv'
  BY DEF LruInv, SizeInv, links, Used
<1>4. MapInv'
  BY DEF LruInv, MapInv, Single, Refers, Latest, links
<1> QED
  BY <1>1, <1>2, <1>3, <1>4 DEF LruInv

LEMMA CrashInv ==
  ASSUME LruInv, Crash, UNCHANGED <<count, capacity, mapped, map>>,
         latest' \in [Keys -> Values \cup {NULL}]
  PROVE  LruInv'
<1>1. TypeOK'
  BY DEF LruInv, TypeOK, Crash, links
<1>2. ListInv' /\ SizeInv' /\ MapInv'
  BY DEF Crash, ListInv, SizeInv, MapInv, Busy
<1> QED
  BY <1>1, <1>2 DEF LruInv

(* get and put bring a node that is in use to the head and stay idle.        *)
Moved(s, m, x) ==
  /\ ListOf(s, Used, live, head, tail, cell) /\ m \in 1 .. Used /\ x = s[m]
  /\ ListOf(Brought(s, Used, m), Used, live', head', tail', cell')

LEMMA UseMoves ==
  ASSUME LruInv, pc = "idle", NEW c \in Cells, NEW x \in live, lru_cache_move_to_head(c, x),
         \A y \in Nodes : c[y].next = cell[y].next /\ c[y].prev = cell[y].prev
  PROVE  /\ cell' \in Cells /\ head' = x /\ tail' \in Pointers /\ live' = live
         /\ \E s, m : Moved(s, m, x)
         /\ \A y \in Nodes : cell'[y].key = c[y].key /\ cell'[y].value = c[y].value
<1>1. live \in SUBSET Nodes /\ head \in Pointers /\ tail \in Pointers
  BY DEF LruInv, TypeOK
<1>2. PICK s : ListOf(s, Used, live, head, tail, cell)
  BY DEF LruInv, ListInv, Busy
<1>3. ListOf(s, Used, live, head, tail, c)
  <2>1. Used \in Nat
    BY <1>1, UsedFacts
  <2>2. \A y \in live : c[y].next = cell[y].next /\ c[y].prev = cell[y].prev
    BY <1>1
  <2> HIDE DEF Used
  <2> QED BY <1>1, <1>2, <2>1, <2>2, SameList
<1>4. PICK m \in 1 .. Used : x = s[m]
  BY <1>2 DEF ListOf, Listing
<1>5. /\ cell' \in Cells /\ head' = x /\ tail' \in Pointers /\ live' = live
      /\ ListOf(Brought(s, Used, m), Used, live, head', tail', cell')
      /\ \A y \in Nodes : cell'[y].key = c[y].key /\ cell'[y].value = c[y].value
  <2> HIDE DEF Used
  <2> QED BY <1>1, <1>3, <1>4, MoveKeeps
<1>6. Moved(s, m, x)
  BY <1>2, <1>4, <1>5 DEF Moved
<1> QED
  BY <1>5, <1>6

LEMMA UseKeeps ==
  ASSUME LruInv, pc = "idle", UNCHANGED <<count, capacity, mapped, map, pc, putting, failed, keyless>>,
         NEW c \in Cells, NEW x \in live, lru_cache_move_to_head(c, x),
         \A m \in Nodes : c[m].next = cell[m].next /\ c[m].prev = cell[m].prev /\ c[m].key = cell[m].key,
         latest' \in [Keys -> Values \cup {NULL}],
         keyless = {} => \A e \in map : c[e.val].value = latest'[e.key]
  PROVE  LruInv'
<1>1. map \subseteq Entries /\ live \in SUBSET Nodes
  BY DEF LruInv, TypeOK, Entries
<1>2. /\ cell' \in Cells /\ head' = x /\ tail' \in Pointers /\ live' = live
      /\ \E s, m : Moved(s, m, x)
      /\ \A m \in Nodes : cell'[m].key = c[m].key /\ cell'[m].value = c[m].value
  BY UseMoves
<1>3. TypeOK'
  BY <1>1, <1>2 DEF LruInv, TypeOK, Pointers
<1>4. ListInv'
  BY <1>2 DEF ListInv, Moved, Used
<1>5. SizeInv'
  BY <1>2 DEF LruInv, SizeInv, Used
<1>6. MapInv'
  <2>1. \A e \in map : e.val \in Nodes /\ cell'[e.val].key = cell[e.val].key /\ cell'[e.val].value = c[e.val].value
    BY <1>1, <1>2 DEF Entries
  <2>2. Single' /\ Refers' /\ Latest'
    BY <1>2, <2>1 DEF LruInv, MapInv, Single, Refers, Latest, Busy
  <2> QED BY <2>2 DEF MapInv
<1> QED
  BY <1>3, <1>4, <1>5, <1>6 DEF LruInv

LEMMA GetStep ==
  ASSUME LruInv, revoltc_lru_cache_get
  PROVE  LruInv'
<1>1. PICK k \in Keys : Map!Get(k)
  BY DEF revoltc_lru_cache_get
<1>2. map' = map
  BY <1>1, GetFacts DEF LruInv, TypeOK, Entries
<1>3. pc = "idle" /\ UNCHANGED <<count, capacity, mapped, latest>>
  BY DEF revoltc_lru_cache_get
<1>4. \/ UNCHANGED <<links, pc, putting, failed, keyless>>
      \/ map_ret'.value \in live /\ lru_cache_move_to_head(cell, map_ret'.value)
           /\ UNCHANGED <<pc, putting, failed, keyless>>
      \/ Crash
  BY DEF revoltc_lru_cache_get
<1>5. CASE UNCHANGED <<links, pc, putting, failed, keyless>>
  BY <1>2, <1>3, <1>5, Untouched
<1>6. ASSUME NEW x \in live, lru_cache_move_to_head(cell, x), UNCHANGED <<pc, putting, failed, keyless>>
      PROVE  LruInv'
  <2>1. cell \in Cells /\ latest' \in [Keys -> Values \cup {NULL}]
    BY <1>3 DEF LruInv, TypeOK
  <2>2. keyless = {} => \A e \in map : cell[e.val].value = latest'[e.key]
    BY <1>3 DEF LruInv, MapInv, Latest, Busy
  <2> QED BY <1>2, <1>3, <1>6, <2>1, <2>2, UseKeeps
<1>7. CASE Crash
  BY <1>2, <1>3, <1>7, CrashInv DEF LruInv, TypeOK
<1> QED
  BY <1>4, <1>5, <1>6, <1>7

LEMMA HeadUsed ==
  ASSUME LruInv, pc \in Busy
  PROVE  /\ live \in SUBSET Nodes /\ Used \in Nat
         /\ Used = 0 => head = NULL /\ tail = NULL
         /\ Used # 0 => head \in live /\ tail \in live
<1>1. live \in SUBSET Nodes
  BY DEF LruInv, TypeOK
<1>2. Used \in Nat
  BY <1>1, UsedFacts
<1>3. PICK s : ListOf(s, Used, live, head, tail, cell)
  BY DEF LruInv, ListInv
<1> HIDE DEF Used
<1>4. CASE Used = 0
  BY <1>1, <1>2, <1>3, <1>4 DEF ListOf, Place
<1>5. CASE Used # 0
  BY <1>1, <1>2, <1>3, <1>5, Ends
<1> QED
  BY <1>1, <1>2, <1>4, <1>5

(* put links a new node before the head and goes on to the map.              *)
NewNode(k, v, x, c) ==
  /\ x \in Nodes \ live /\ c \in {k, NULL}
  /\ cell' \in Cells /\ PushedBefore(cell, head, x, cell') /\ Holds(cell, x, c, v, cell')
  /\ head' = x /\ tail' = (IF tail = NULL THEN x ELSE tail) /\ live' = live \cup {x}
  /\ keyless' = (IF c = NULL THEN keyless \cup {k} ELSE keyless)
  /\ pc' = "insert" /\ putting' = k /\ UNCHANGED <<ret, failed>>

LEMMA NewNodeFacts ==
  ASSUME LruInv, pc = "idle", NEW k \in Keys, NEW v \in Values, PutNew(k, v), ~Crash
  PROVE  \E x, c : NewNode(k, v, x, c)
<1>1. PICK x \in Nodes \ live, c \in {k} \cup (IF AllocMayFail THEN {NULL} ELSE {}) :
        /\ cell' = Write([cell EXCEPT ![x] = Node(c, v, NULL, head)], head, "prev", x)
        /\ head' = x /\ tail' = IF tail = NULL THEN x ELSE tail
        /\ live' = live \cup {x}
        /\ keyless' = IF c = NULL THEN keyless \cup {k} ELSE keyless
        /\ pc' = "insert" /\ putting' = k
        /\ UNCHANGED <<ret, failed>>
  BY DEF PutNew
<1>2. c \in {k, NULL} /\ c \in Keys \cup {NULL}
  BY <1>1
<1>3. x \in Nodes /\ x # head /\ head \in Pointers /\ cell \in Cells
  BY <1>1, HeadUsed, LruNull DEF Busy, LruInv, TypeOK
<1>4. cell' \in Cells /\ PushedBefore(cell, head, x, cell') /\ Holds(cell, x, c, v, cell')
  <2>1. cell' = Write(WithNode(cell, x, Node(c, v, NULL, head)), head, "prev", x)
    BY <1>1 DEF WithNode
  <2> QED BY <1>2, <1>3, <2>1, NewCells
<1>5. NewNode(k, v, x, c)
  BY <1>1, <1>2, <1>4 DEF NewNode
<1> QED
  BY <1>5

LEMMA NewNodeInv ==
  ASSUME LruInv, pc = "idle", UNCHANGED <<count, capacity, mapped, map, failed>>,
         NEW k \in Keys, NEW v \in Values, \A e \in map : e.key # k,
         latest' \in [Keys -> Values \cup {NULL}], latest'[k] = v,
         \A i \in Keys \ {k} : latest'[i] = latest[i],
         NEW x, NEW c, NewNode(k, v, x, c)
  PROVE  LruInv'
<1> USE DEF NewNode
<1>1. /\ live \in SUBSET Nodes /\ head \in Pointers /\ tail \in Pointers /\ cell \in Cells
      /\ map \subseteq Entries /\ keyless \subseteq Keys
  BY DEF LruInv, TypeOK, Entries
<1>2. Used \in Nat /\ Used' = Used + 1
  BY <1>1, UsedFacts DEF Used
<1>3. PICK s : ListOf(s, Used, live, head, tail, cell)
  BY DEF LruInv, ListInv, Busy
<1>4. TypeOK'
  <2>1. keyless' \subseteq Keys
    BY <1>1
  <2> QED BY <1>1, <2>1 DEF LruInv, TypeOK, Pointers
<1>5. ListInv'
  <2>1. ListOf(Pushed(s, Used, x), Used + 1, live \cup {x}, x, IF tail = NULL THEN x ELSE tail, cell')
    <3> HIDE DEF Used
    <3> QED BY <1>1, <1>2, <1>3, PushList
  <2> QED BY <1>2, <2>1 DEF ListInv
<1>6. SizeInv'
  BY <1>2 DEF LruInv, SizeInv
<1>7. MapInv'
  <2> USE DEF Holds
  <2>1. Single /\ Refers /\ Latest
    BY DEF LruInv, MapInv, Busy
  <2>2. \A e \in map : e.val \in Nodes /\ e.key \in Keys
    BY <1>1 DEF Entries
  <2>3. Single'
    BY <2>1 DEF Single
  <2>4. Refers'
    BY <2>1, <2>2 DEF Refers
  <2>5. Latest'
    <3> SUFFICES ASSUME keyless' = {}, NEW e \in map
                 PROVE  cell'[e.val].value = latest'[e.key]
      BY DEF Latest
    <3>1. keyless = {} /\ e.val \in live
      BY <2>1 DEF Refers
    <3>2. cell'[e.val].value = cell[e.val].value
      BY <2>2, <3>1
    <3>3. latest'[e.key] = latest[e.key]
      BY <2>2
    <3> QED BY <2>1, <3>1, <3>2, <3>3 DEF Latest
  <2>6. /\ \A e \in map' : e.key # putting'
        /\ putting' \in keyless' \/ cell'[head'].key = putting'
        /\ cell'[head'].value = latest'[putting']
    BY <1>1
  <2> QED BY <2>3, <2>4, <2>5, <2>6 DEF MapInv
<1> QED
  BY <1>4, <1>5, <1>6, <1>7 DEF LruInv

LEMMA PutStep ==
  ASSUME LruInv, revoltc_lru_cache_put
  PROVE  LruInv'
<1>1. PICK k \in Keys, v \in Values :
        /\ Map!Get(k)
        /\ latest' = [latest EXCEPT ![k] = v]
        /\ IF map_ret'.value = NULL THEN PutNew(k, v) ELSE PutAgain(map_ret'.value, v)
  BY DEF revoltc_lru_cache_put
<1>2. pc = "idle" /\ UNCHANGED <<count, capacity, mapped>>
  BY DEF revoltc_lru_cache_put
<1>3. /\ map \subseteq Entries /\ cell \in Cells /\ live \subseteq Nodes
      /\ latest \in [Keys -> Values \cup {NULL}]
  BY DEF LruInv, TypeOK, Entries
<1>4. latest' \in [Keys -> Values \cup {NULL}]
  BY <1>1, <1>3
<1>5. /\ map' = map
      /\ \/ map_ret'.value = NULL /\ \A e \in map : e.key # k
         \/ \E e \in map : e.key = k /\ map_ret'.value = e.val
  BY <1>1, <1>3, GetFacts
<1>6. CASE Crash
  BY <1>2, <1>4, <1>5, <1>6, CrashInv
<1>7. CASE map_ret'.value = NULL /\ ~Crash
  <2>1. \A e \in map : e.key # k
    BY <1>3, <1>5, <1>7, LruNull DEF Entries
  <2>2. PICK x, c : NewNode(k, v, x, c)
    BY <1>1, <1>2, <1>7, NewNodeFacts
  <2>3. latest'[k] = v /\ \A i \in Keys \ {k} : latest'[i] = latest[i]
    BY <1>1, <1>3
  <2>4. failed' = failed
    BY <2>2 DEF NewNode
  <2> QED BY <1>2, <1>4, <1>5, <2>1, <2>2, <2>3, <2>4, NewNodeInv
<1>8. CASE map_ret'.value # NULL /\ ~Crash
  <2> DEFINE n == map_ret'.value
  <2>1. /\ n \in live /\ lru_cache_move_to_head([cell EXCEPT ![n].value = v], n)
        /\ UNCHANGED <<pc, putting, failed, keyless>>
    BY <1>1, <1>8 DEF PutAgain
  <2>2. PICK e \in map : e.key = k /\ n = e.val
    BY <1>5, <1>8
  <2> HIDE DEF n
  <2>3. PICK x \in live : x = n
    BY <2>1
  <2> DEFINE c == [cell EXCEPT ![x].value = v]
  <2>4. /\ c \in Cells
        /\ \A m \in Nodes :
             /\ c[m].next = cell[m].next /\ c[m].prev = cell[m].prev /\ c[m].key = cell[m].key
             /\ c[m].value = IF m = x THEN v ELSE cell[m].value
    BY <1>3 DEF Cells
  <2>5. ASSUME keyless = {}, NEW f \in map
        PROVE  c[f.val].value = latest'[f.key]
    <3>1. f.val \in Nodes /\ f.key \in Keys /\ e.val \in Nodes
      BY <1>3 DEF Entries
    <3>2. cell[f.val].key = f.key /\ cell[e.val].key = e.key
      BY <1>2, <2>5 DEF LruInv, MapInv, Refers, Busy
    <3>3. CASE f.val = x
      BY <1>1, <1>3, <2>2, <2>3, <2>4, <3>1, <3>2, <3>3
    <3>4. CASE f.val # x
      <4>1. f.key # k
        BY <1>2, <2>2, <2>3, <3>4 DEF LruInv, MapInv, Single, Busy
      <4>2. cell[f.val].value = latest[f.key]
        BY <1>2, <2>5 DEF LruInv, MapInv, Latest, Busy
      <4> QED BY <1>1, <1>3, <2>4, <3>1, <3>4, <4>1, <4>2
    <3> QED BY <3>3, <3>4
  <2>6. lru_cache_move_to_head(c, x)
    BY <2>1, <2>3
  <2> HIDE DEF c
  <2> QED BY <1>2, <1>4, <1>5, <2>1, <2>4, <2>5, <2>6, UseKeeps
<1> QED
  BY <1>6, <1>7, <1>8

-----------------------------------------------------------------------------
LEMMA InitInv ==
  ASSUME Init
  PROVE  LruInv
<1>1. TypeOK
  <2>1. cell \in Cells /\ head \in Pointers /\ tail \in Pointers
    BY DEF Init, Cells, Pointers, Blank, Node
  <2>2. mapped \in BOOLEAN
    BY DEF Init
  <2>3. count \in Nat /\ capacity \in Nat /\ failed \in 0 .. MaxFailed
    BY LruBounds DEF Init
  <2>4. latest \in [Keys -> Values \cup {NULL}] /\ map \subseteq [key : Keys, val : Nodes]
    BY DEF Init, Map!DictInit
  <2> QED BY <2>1, <2>2, <2>3, <2>4 DEF Init, TypeOK
<1>2. Used = 0
  BY FS_EmptySet DEF Used, Init
<1>3. ListInv
  <2> DEFINE s == [i \in 1 .. 0 |-> NULL]
  <2>1. ListOf(s, 0, {}, NULL, NULL, cell)
    BY DEF ListOf, Listing, Place
  <2>2. pc = "none" /\ live = {} /\ head = NULL /\ tail = NULL
    BY DEF Init
  <2> HIDE DEF s
  <2> QED BY <1>2, <2>1, <2>2 DEF ListInv
<1>4. SizeInv
  BY <1>2 DEF SizeInv, Init
<1>5. MapInv
  BY DEF MapInv, Single, Refers, Latest, Init, Map!DictInit
<1> QED
  BY <1>1, <1>3, <1>4, <1>5 DEF LruInv

LEMMA NewStep ==
  ASSUME LruInv, revoltc_lru_cache_new
  PROVE  LruInv'
<1>1. /\ pc = "none" /\ pc' = "idle"
      /\ UNCHANGED <<links, count, theMap, putting, ret, history>>
  BY DEF revoltc_lru_cache_new
<1>2. mapped' \in BOOLEAN
  BY LruBounds DEF revoltc_lru_cache_new
<1>3. capacity' \in Nat /\ capacity' > 0
  BY LruSizes DEF revoltc_lru_cache_new, RoomFor
<1>4. TypeOK'
  BY <1>1, <1>2, <1>3 DEF LruInv, TypeOK, links, theMap, history
<1>5. ListInv'
  BY <1>1 DEF LruInv, ListInv, links, Used, Busy
<1>6. SizeInv'
  BY <1>1, <1>3 DEF LruInv, SizeInv, links, history, Used
<1>7. MapInv'
  BY <1>1 DEF LruInv, MapInv, Single, Refers, Latest, links, theMap, history, Busy
<1> QED
  BY <1>4, <1>5, <1>6, <1>7 DEF LruInv

(* The new node comes to the map under the key that is put.                  *)
LEMMA InsertStep ==
  ASSUME LruInv, PutInserts
  PROVE  LruInv'
<1>1. /\ pc = "insert" /\ pc' \in {"evict", "idle"} /\ putting' = NULL
      /\ count' = count + 1 /\ (pc' = "evict" <=> count' > capacity)
      /\ map' = map \cup {[key |-> putting, val |-> head]}
      /\ UNCHANGED <<links, capacity, mapped, history>>
  BY DEF PutInserts, Map!Insert
<1>2. /\ count \in Nat /\ capacity \in Nat /\ live \in SUBSET Nodes
      /\ putting \in Keys /\ head \in live
  BY <1>1 DEF LruInv, TypeOK
<1>3. Used \in Nat /\ Used' = Used /\ tail \in live
  <2>1. Used \in Nat /\ Used # 0
    BY <1>2, UsedFacts
  <2>2. Used' = Used
    BY <1>1 DEF links, Used
  <2> QED BY <1>1, <2>1, <2>2, HeadUsed DEF Busy
<1>4. count' \in Nat
  BY <1>1, <1>2
<1>5. TypeOK'
  BY <1>1, <1>2, <1>3, <1>4 DEF LruInv, TypeOK, links, history
<1>6. ListInv'
  BY <1>1, <1>3 DEF LruInv, ListInv, links, Busy
<1>7. SizeInv'
  <2>1. failed \in Nat /\ failed' = failed /\ capacity' = capacity
    BY <1>1, LruBounds DEF LruInv, TypeOK, history
  <2>2. count <= capacity /\ Used = count + failed + 1 /\ capacity > 0
    BY <1>1 DEF LruInv, SizeInv
  <2> QED BY <1>1, <1>2, <1>3, <2>1, <2>2 DEF SizeInv
<1>8. MapInv'
  <2>1. /\ Single /\ Refers /\ Latest
        /\ \A e \in map : e.key # putting
        /\ putting \in keyless \/ cell[head].key = putting
        /\ keyless = {} => cell[head].value = latest[putting]
    BY <1>1 DEF LruInv, MapInv, Busy
  <2>2. Single'
    BY <1>1, <2>1 DEF Single
  <2>3. Refers'
    BY <1>1, <1>2, <2>1 DEF Refers, links, history
  <2>4. Latest'
    BY <1>1, <2>1 DEF Latest, links, history
  <2> QED BY <1>1, <2>2, <2>3, <2>4 DEF MapInv
<1> QED
  BY <1>5, <1>6, <1>7, <1>8 DEF LruInv

(* The new node stays in the list without an entry.                          *)
LEMMA FailStep ==
  ASSUME LruInv, PutFails
  PROVE  LruInv'
<1>1. /\ pc = "insert" /\ pc' = "idle" /\ failed < MaxFailed
      /\ map' \subseteq map /\ putting' = NULL /\ failed' = failed + 1
      /\ UNCHANGED <<links, count, capacity, mapped, keyless, latest>>
  BY DEF PutFails, Map!InsertFails
<1>2. failed' \in 0 .. MaxFailed
  BY <1>1, LruBounds DEF LruInv, TypeOK
<1>3. TypeOK'
  BY <1>1, <1>2 DEF LruInv, TypeOK, links
<1>4. ListInv'
  BY <1>1 DEF LruInv, ListInv, links, Busy, Used
<1>5. SizeInv'
  BY <1>1 DEF LruInv, SizeInv, TypeOK, links, Used
<1>6. MapInv'
  BY <1>1 DEF LruInv, MapInv, Single, Refers, Latest, links, Busy
<1> QED
  BY <1>3, <1>4, <1>5, <1>6 DEF LruInv

(* The node used longest ago leaves the list, and its entry the map.         *)
LEMMA EvictStep ==
  ASSUME LruInv, PutEvicts
  PROVE  LruInv'
<1>1. /\ pc = "evict" /\ pc' = "idle" /\ tail' = cell[tail].prev
      /\ live' = live \ {tail} /\ MapRemove(cell[tail].key) /\ count' = count - 1
      /\ UNCHANGED <<head, capacity, mapped, putting, failed, keyless, latest>>
  BY DEF PutEvicts, history
<1>2. /\ live \in SUBSET Nodes /\ tail \in live /\ cell \in Cells /\ map \subseteq Entries
      /\ count \in Nat /\ capacity \in Nat /\ failed \in Nat
  BY <1>1, LruBounds DEF LruInv, TypeOK, Entries
<1>3. Used \in Nat /\ Used > 1 /\ Used' = Used - 1 /\ Used = count + failed /\ count = capacity + 1
  <2>1. capacity > 0 /\ count = capacity + 1 /\ Used = count + failed
    BY <1>1 DEF LruInv, SizeInv
  <2>2. Used \in Nat /\ Used' = Used - 1
    BY <1>1, <1>2, UsedFacts DEF Used
  <2> QED BY <1>2, <2>1, <2>2
<1>4. PICK s : ListOf(s, Used, live, head, tail, cell)
  BY <1>1 DEF LruInv, ListInv, Busy
<1>5. PICK p : p = cell[tail].prev
  OBVIOUS
<1>6. p \in Nodes /\ p # tail
  <2> HIDE DEF Used
  <2>1. Used \in 1 .. Used /\ Used - 1 \in 1 .. Used /\ Used - 1 # Used /\ Used \in Nat \ {0}
    BY <1>3
  <2>2. tail = s[Used] /\ p = Place(s, Used, Used - 1)
    BY <1>2, <1>4, <1>5, <2>1, Ends
  <2> QED BY <1>2, <1>4, <2>1, <2>2 DEF Place, ListOf, Listing
<1>7. cell' \in Cells /\ CutAfter(cell, p, tail, cell')
  <2>1. cell' = WithNode(Write(cell, p, "next", NULL), tail, Blank)
    BY <1>5 DEF PutEvicts, WithNode
  <2> QED BY <1>2, <1>6, <2>1, CutCells
(* What is left in the map does not refer to the node that is freed. *)
<1>8. /\ map' \subseteq map
      /\ \A e \in map' : e.key \notin keyless => e.val # tail
  <2>1. Single /\ Refers
    BY <1>1 DEF LruInv, MapInv, Busy
  <2>2. CASE cell[tail].key = NULL
    <3>1. map' = map
      BY <1>1, <2>2 DEF MapRemove
    <3>2. \A e \in map : e.key # NULL
      BY <1>2, LruNull DEF Entries
    <3> QED BY <2>1, <2>2, <3>1, <3>2 DEF Refers
  <2>3. CASE cell[tail].key # NULL
    <3>1. PICK k : k = cell[tail].key
      OBVIOUS
    <3>2. Map!Remove(k)
      BY <1>1, <2>3, <3>1 DEF MapRemove
    <3>3. map' \subseteq map /\ \A e \in map' : e.key # k
      BY <2>1, <3>2 DEF Map!Remove, Map!Of, Single
    <3> QED BY <2>1, <3>1, <3>3 DEF Refers
  <2> QED BY <2>2, <2>3
<1>9. TypeOK'
  <2>1. count' \in Nat /\ tail' \in Pointers
    BY <1>1, <1>2, <1>3, <1>5, <1>6 DEF Pointers
  <2> QED BY <1>1, <1>7, <1>8, <2>1 DEF LruInv, TypeOK
<1>10. ListInv'
  <2>1. ListOf(Cut(s, Used), Used - 1, live \ {tail}, head, p, cell')
    <3> HIDE DEF Used
    <3> QED BY <1>2, <1>3, <1>4, <1>5, <1>7, DropList
  <2> QED BY <1>1, <1>3, <1>5, <2>1 DEF ListInv
<1>11. SizeInv'
  <2>1. capacity' = capacity /\ failed' = failed /\ capacity > 0
    BY <1>1 DEF LruInv, SizeInv
  <2> QED BY <1>1, <1>2, <1>3, <2>1 DEF SizeInv
<1>12. MapInv'
  <2>1. Single /\ Refers /\ Latest
    BY <1>1 DEF LruInv, MapInv, Busy
  <2>2. Single'
    BY <1>8, <2>1 DEF Single
  <2>3. \A e \in map' : e.key \notin keyless =>
          e.val \in live' /\ cell'[e.val].key = cell[e.val].key /\ cell'[e.val].value = cell[e.val].value
    BY <1>1, <1>2, <1>7, <1>8, <2>1 DEF Refers, CutAfter
  <2>4. Refers'
    BY <1>1, <1>8, <2>1, <2>3 DEF Refers
  <2>5. Latest'
    BY <1>1, <1>8, <2>1, <2>3 DEF Latest
  <2> QED BY <1>1, <2>2, <2>4, <2>5 DEF MapInv
<1> QED
  BY <1>9, <1>10, <1>11, <1>12 DEF LruInv

(* Delete walks the next links from the head. *)
LEMMA DeleteStep ==
  ASSUME LruInv, revoltc_lru_cache_delete \/ DeleteNode \/ DeleteEnds
  PROVE  LruInv'
<1>1. CASE revoltc_lru_cache_delete
  <2>1. /\ pc = "idle" /\ pc' = "delete"
        /\ UNCHANGED <<links, count, capacity, mapped, theMap, putting, ret, history>>
    BY <1>1 DEF revoltc_lru_cache_delete
  <2>2. TypeOK'
    BY <2>1 DEF LruInv, TypeOK, links, theMap, history
  <2>3. PICK s : ListOf(s, Used, live, head, tail, cell)
    BY <2>1 DEF LruInv, ListInv, Busy
  <2>4. ListInv'
    <3>1. Used' = Used
      BY <2>1 DEF links, Used
    <3> QED BY <2>1, <2>3, <3>1 DEF ListInv, ListOf, links, Busy
  <2>5. SizeInv' /\ MapInv'
    BY <2>1 DEF SizeInv, MapInv, Busy
  <2> QED BY <2>2, <2>4, <2>5 DEF LruInv
<1>2. CASE DeleteNode
  <2>1. /\ pc = "delete" /\ head # NULL /\ head' = cell[head].next
        /\ cell' = [cell EXCEPT ![head] = Blank] /\ live' = live \ {head}
        /\ UNCHANGED <<tail, count, capacity, mapped, theMap, pc, putting, ret, history>>
    BY <1>2 DEF DeleteNode
  <2>2. /\ live \in SUBSET Nodes /\ head \in Nodes /\ cell \in Cells
    BY <2>1 DEF LruInv, TypeOK, Pointers
  <2>3. cell' \in Cells /\ \A m \in Nodes \ {head} : cell'[m] = cell[m]
    BY <2>1, <2>2 DEF Cells, Pointers, Blank, Node
  <2>4. head' \in Pointers
    BY <2>1, <2>2 DEF Cells
  <2>5. TypeOK'
    BY <2>1, <2>3, <2>4 DEF LruInv, TypeOK, theMap, history
  <2>6. PICK s : /\ Listing(s, Used, live) /\ head = Place(s, Used, 1)
                 /\ \A i \in 1 .. Used : cell[s[i]].next = Place(s, Used, i + 1)
    BY <2>1 DEF LruInv, ListInv
  <2>7. Used \in Nat \ {0} /\ 1 \in 1 .. Used /\ head = s[1] /\ head \in live
    <3>1. Used \in Nat
      BY <2>2, UsedFacts
    <3>2. 1 \in 1 .. Used /\ head = s[1]
      BY <2>1, <2>6 DEF Place
    <3> QED BY <2>6, <3>1, <3>2 DEF Listing
  <2>8. Used' = Used - 1
    BY <2>1, <2>2, <2>7, UsedFacts DEF Used
  <2>9. PICK r : r = [i \in 1 .. (Used - 1) |-> s[i + 1]]
    OBVIOUS
  <2>10. Listing(r, Used - 1, live \ {head})
    <3> HIDE DEF Used
    <3> QED BY <2>6, <2>7, <2>9, PopListing
  <2>11. head' = Place(r, Used - 1, 1)
    <3> HIDE DEF Used
    <3>1. head' = Place(s, Used, 2)
      <4>1. 1 + 1 = 2
        OBVIOUS
      <4> QED BY <2>1, <2>6, <2>7, <4>1
    <3>2. CASE Used = 1
      BY <3>1, <3>2 DEF Place
    <3>3. CASE Used # 1
      <4>1. 2 \in 1 .. Used /\ 1 \in 1 .. (Used - 1)
        BY <2>7, <3>3
      <4> QED BY <2>9, <3>1, <4>1 DEF Place
    <3> QED BY <3>2, <3>3
  <2>12. ASSUME NEW i \in 1 .. (Used - 1)
         PROVE  cell'[r[i]].next = Place(r, Used - 1, i + 1)
    <3>1. i + 1 \in 1 .. Used /\ i + 1 # 1 /\ (i + 1) + 1 = i + 2
      BY <2>7
    <3>2. r[i] = s[i + 1] /\ s[i + 1] \in Nodes \ {head}
      BY <2>2, <2>6, <2>7, <2>9, <3>1 DEF Listing
    <3>3. cell[s[i + 1]].next = Place(s, Used, i + 2)
      BY <2>6, <3>1
    <3>4. Place(s, Used, i + 2) = Place(r, Used - 1, i + 1)
      BY <2>7, <2>9 DEF Place
    <3> QED BY <2>3, <3>2, <3>3, <3>4
  <2>13. ListInv'
    BY <2>1, <2>8, <2>10, <2>11, <2>12 DEF ListInv, Busy
  <2>14. SizeInv' /\ MapInv'
    BY <2>1 DEF SizeInv, MapInv, Busy
  <2> QED BY <2>5, <2>13, <2>14 DEF LruInv
<1>3. CASE DeleteEnds
  <2>1. /\ pc = "delete" /\ head = NULL /\ pc' = "deleted" /\ map' = {}
        /\ UNCHANGED <<links, count, capacity, mapped, putting, ret, history>>
    BY <1>3 DEF DeleteEnds, Map!Delete
  <2>2. TypeOK'
    BY <2>1 DEF LruInv, TypeOK, links, history
  <2>3. live = {}
    <3>1. live \in SUBSET Nodes
      BY DEF LruInv, TypeOK
    <3>2. PICK s : Listing(s, Used, live) /\ head = Place(s, Used, 1)
      BY <2>1 DEF LruInv, ListInv
    <3>3. Used \in Nat
      BY <3>1, UsedFacts
    <3>4. Used = 0
      <4>1. ASSUME Used # 0
            PROVE  FALSE
        <5>1. 1 \in 1 .. Used
          BY <3>3, <4>1
        <5> QED BY <2>1, <3>1, <3>2, <5>1, LruNull DEF Listing, Place
      <4> QED BY <4>1
    <3> QED BY <3>1, <3>4, UsedFacts
  <2>4. ListInv' /\ SizeInv' /\ MapInv'
    BY <2>1, <2>3 DEF ListInv, SizeInv, MapInv, Busy, links
  <2> QED BY <2>2, <2>4 DEF LruInv
<1> QED
  BY <1>1, <1>2, <1>3

-----------------------------------------------------------------------------
(* LruInv holds in every state of every run of LruCache.Spec.                *)
THEOREM LruInvAlways == Spec => []LruInv
<1>1. Init => LruInv
  BY InitInv
<1>2. LruInv /\ [Next]_lruvars => LruInv'
  <2> SUFFICES ASSUME LruInv, [Next]_lruvars
               PROVE  LruInv'
    OBVIOUS
  <2>1. CASE revoltc_lru_cache_new
    BY <2>1, NewStep
  <2>2. CASE revoltc_lru_cache_get
    BY <2>2, GetStep
  <2>3. CASE revoltc_lru_cache_put
    BY <2>3, PutStep
  <2>4. CASE PutInserts
    BY <2>4, InsertStep
  <2>5. CASE PutFails
    BY <2>5, FailStep
  <2>6. CASE PutEvicts
    BY <2>6, EvictStep
  <2>7. CASE revoltc_lru_cache_delete \/ DeleteNode \/ DeleteEnds
    BY <2>7, DeleteStep
  <2>8. CASE UNCHANGED lruvars
    BY <2>8, Untouched DEF lruvars, theMap, history
  <2> QED
    BY <2>1, <2>2, <2>3, <2>4, <2>5, <2>6, <2>7, <2>8 DEF Next
<1> QED
  BY <1>1, <1>2, PTL DEF Spec

(* The fields of the cache and of its nodes keep their types; while a put    *)
(* inserts there is a head, and while it evicts a tail (97-128).             *)
THEOREM LruTypeCorrect == Spec => []TypeOK
<1>1. LruInv => TypeOK
  BY DEF LruInv
<1> QED
  BY <1>1, LruInvAlways, PTL

(* A list is the order that WellLinked and Listed speak of.                   *)
LEMMA ListInOrder ==
  ASSUME NEW s, ListOf(s, Used, live, head, tail, cell)
  PROVE  s \in Orders /\ InOrder(s)
<1>1. s \in Orders
  BY DEF Orders, SetToSeqs, ListOf, Listing, Used
<1>2. ToSet(s) = live
  BY DEF ToSet, ListOf, Listing
<1>3. InOrder(s)
  BY <1>2 DEF InOrder, ListOf, Place, Used
<1> QED
  BY <1>1, <1>3

(* Between the calls and the steps of put, the links form one list of all    *)
(* nodes in use, the same from both ends (45-67, 98-109, 116-125).           *)
THEOREM WellLinkedAlways == Spec => []WellLinked
<1>1. LruInv => WellLinked
  <2> SUFFICES ASSUME LruInv, pc \in {"idle", "insert", "evict"}
               PROVE  \E s \in Orders : InOrder(s)
    BY DEF WellLinked
  <2>1. PICK s : ListOf(s, Used, live, head, tail, cell)
    BY DEF LruInv, ListInv, Busy
  <2> HIDE DEF Used
  <2> QED BY <2>1, ListInOrder
<1> QED
  BY <1>1, LruInvAlways, PTL

(* What the map refers to is in use and holds the key it is found under; a   *)
(* copy of the key that could not be made is the only exception (99, 123).   *)
THEOREM NoDanglingAlways == Spec => []NoDangling
<1>1. LruInv => NoDangling
  BY DEF LruInv, MapInv, Refers, NoDangling, Busy
<1> QED
  BY <1>1, LruInvAlways, PTL

(* get finds the value put last, however many puts have failed (69-113).     *)
THEOREM LatestFoundAlways == Spec => []LatestFound
<1>1. LruInv => LatestFound
  BY DEF LruInv, MapInv, Latest, LatestFound, Busy
<1> QED
  BY <1>1, LruInvAlways, PTL

(* No more nodes than the capacity are counted, and the nodes that are not   *)
(* counted are one for each put that failed (111-128).                       *)
THEOREM SizeBoundedAlways == Spec => []SizeBounded
<1>1. LruInv => SizeBounded
  BY DEF LruInv, SizeInv, SizeBounded, Used
<1> QED
  BY <1>1, LruInvAlways, PTL

(* delete frees every node, from whatever state it is called in (24-43).     *)
THEOREM DeleteFreesAlways == Spec => []DeleteFrees
<1>1. LruInv => DeleteFrees
  BY DEF LruInv, ListInv, DeleteFrees
<1> QED
  BY <1>1, LruInvAlways, PTL

-----------------------------------------------------------------------------
(* The order of use.  There is one list only that the links describe.        *)
LEMMA OneList ==
  ASSUME NEW n \in Nat, NEW S, NEW h, NEW t, NEW c,
         NEW s, ListOf(s, n, S, h, t, c), NEW r, ListOf(r, n, S, h, t, c)
  PROVE  s = r
<1> DEFINE R == {p \in Nat \X Nat : p[1] < p[2]}
           D == {i \in 1 .. n : s[i] # r[i]}
<1>1. IsWellFoundedOn(R, Nat)
  BY NatLessThanWellFounded DEF OpToRel
<1>2. s \in [1 .. n -> S] /\ r \in [1 .. n -> S]
  BY DEF ListOf, Listing
<1>3. ASSUME D # {}
      PROVE  FALSE
  <2>1. D \subseteq Nat
    OBVIOUS
  <2>2. PICK m \in D : \A j \in D : ~(<<j, m>> \in R)
    <3> HIDE DEF D, R
    <3> QED BY <1>1, <1>3, <2>1, WFMin
  <2>3. m \in 1 .. n /\ s[m] # r[m]
    BY <2>2
  <2>4. CASE m = 1
    BY <2>3, <2>4 DEF ListOf, Place
  <2>5. CASE m # 1
    <3>1. m - 1 \in 1 .. n /\ (m - 1) + 1 = m
      BY <2>3, <2>5
    <3>2. <<m - 1, m>> \in R
      BY <2>3, <3>1
    <3>3. s[m - 1] = r[m - 1]
      BY <2>2, <3>1, <3>2
    <3>4. c[s[m - 1]].next = s[m] /\ c[r[m - 1]].next = r[m]
      BY <2>3, <3>1 DEF ListOf, Place
    <3> QED BY <2>3, <3>3, <3>4
  <2> QED BY <2>4, <2>5
<1>4. \A i \in 1 .. n : s[i] = r[i]
  BY <1>3
<1> QED
  BY <1>2, <1>4

LEMMA OrderIsList ==
  ASSUME NEW s \in Orders, InOrder(s)
  PROVE  ListOf(s, Used, live, head, tail, cell)
<1>1. /\ s \in [1 .. Used -> live]
      /\ \A i, j \in 1 .. Used : i # j => s[i] # s[j]
  BY DEF Orders, SetToSeqs, Used
<1>2. \A x \in live : \E i \in 1 .. Used : s[i] = x
  <2>1. ToSet(s) = live /\ DOMAIN s = 1 .. Used
    BY <1>1 DEF InOrder
  <2> QED BY <2>1 DEF ToSet
<1>3. /\ head = Place(s, Used, 1) /\ tail = Place(s, Used, Used)
      /\ \A i \in 1 .. Used : cell[s[i]].next = Place(s, Used, i + 1) /\ cell[s[i]].prev = Place(s, Used, i - 1)
  BY DEF InOrder, Place, Used
<1> QED
  BY <1>1, <1>2, <1>3 DEF ListOf, Listing

(* What is listed of a list of n nodes.                                      *)
Entry(c, x) == [key |-> c[x].key, val |-> c[x].value]
Shown(s, n, c) == [i \in 1 .. n |-> Entry(c, s[i])]
Behind(s, n) == [i \in 1 .. (n - 1) |-> s[i + 1]]

ListedIs(s) ==
  Listed = IF pc \in {"insert", "evict"} THEN Shown(Behind(s, Used), Used - 1, cell)
           ELSE Shown(s, Used, cell)
ListsOrder ==
  pc \in Busy => \A s : ListOf(s, Used, live, head, tail, cell) => ListedIs(s)

LEMMA ListedFacts == LruInv => ListsOrder
<1> SUFFICES ASSUME LruInv, pc \in Busy, NEW s, ListOf(s, Used, live, head, tail, cell)
             PROVE  ListedIs(s)
  BY DEF ListsOrder
<1>1. live \in SUBSET Nodes
  BY DEF LruInv, TypeOK
<1>2. Used \in Nat
  BY <1>1, UsedFacts
<1>3. s \in Orders /\ InOrder(s)
  <2> HIDE DEF Used
  <2> QED BY ListInOrder
<1>4. \A o \in Orders : InOrder(o) => o = s
  <2> SUFFICES ASSUME NEW o \in Orders, InOrder(o)
               PROVE  o = s
    OBVIOUS
  <2>1. ListOf(o, Used, live, head, tail, cell)
    BY OrderIsList
  <2> HIDE DEF Used
  <2> QED BY <1>2, <2>1, OneList
<1>5. Order = s
  BY <1>3, <1>4 DEF Order
<1>6. s \in [1 .. Used -> live]
  BY DEF ListOf, Listing
<1>7. CASE pc \in {"insert", "evict"}
  <2>1. Used # 0
    <3>1. live # {}
      BY <1>7 DEF LruInv, TypeOK
    <3> QED BY <1>1, <3>1, UsedFacts
  <2>2. Visible = Tail(s)
    BY <1>5, <1>7 DEF Visible
  <2>3. Listed = [i \in DOMAIN Tail(s) |-> [key |-> cell[Tail(s)[i]].key,
                                          val |-> cell[Tail(s)[i]].value]]
    BY <1>7, <2>2 DEF Listed
  <2>4. DOMAIN Tail(s) = 1 .. (Used - 1) /\ \A i \in 1 .. (Used - 1) : Tail(s)[i] = s[i + 1]
    <3> HIDE DEF Used
    <3>1. s \in Seq(live) /\ Len(s) = Used /\ s # <<>>
      BY <1>2, <1>6, <2>1
    <3>2. /\ Tail(s) \in Seq(live) /\ Len(Tail(s)) = Used - 1
          /\ \A i \in 1 .. Len(Tail(s)) : Tail(s)[i] = s[i + 1]
      BY <3>1, HeadTailProperties
    <3>3. DOMAIN Tail(s) = 1 .. Len(Tail(s))
      BY <3>2, LenProperties
    <3> QED BY <3>2, <3>3
  <2>5. Listed = Shown(Behind(s, Used), Used - 1, cell)
    BY <2>3, <2>4 DEF Shown, Behind, Entry
  <2> QED BY <1>7, <2>5 DEF ListedIs
<1>8. CASE pc \notin {"insert", "evict"}
  <2>1. Visible = s
    BY <1>5, <1>8 DEF Visible
  <2>2. Listed = [i \in DOMAIN s |-> [key |-> cell[s[i]].key, val |-> cell[s[i]].value]]
    BY <1>8, <2>1 DEF Listed, Busy
  <2>3. Listed = Shown(s, Used, cell)
    BY <1>6, <2>2 DEF Shown, Entry
  <2> QED BY <1>8, <2>3 DEF ListedIs
<1> QED
  BY <1>7, <1>8

-----------------------------------------------------------------------------
(* As long as nothing has failed the map refers to every node in use, but    *)
(* for the one that a put is about to insert.                                *)
Unfailed == failed = 0 /\ keyless = {}
Mapped(x) == \E e \in map : e.val = x /\ e.key = cell[x].key
Covered ==
  /\ pc \in {"none", "idle", "evict"} /\ Unfailed => \A x \in live : Mapped(x)
  /\ pc = "insert" /\ Unfailed => \A x \in live \ {head} : Mapped(x)
Valued == pc \in Busy => \A x \in live : cell[x].value \in Values
OrderInv == LruInv /\ Covered /\ Valued

LEMMA OrderInvInit ==
  ASSUME Init
  PROVE  OrderInv
<1>1. live = {}
  BY DEF Init
<1> QED
  BY <1>1, InitInv DEF OrderInv, Covered, Valued

(* A node moved to the head. *)
LEMMA MovedCovered ==
  ASSUME OrderInv, pc = "idle", UNCHANGED <<map, pc, failed, keyless>>,
         NEW c \in Cells, NEW x \in live, lru_cache_move_to_head(c, x),
         \A y \in Nodes : /\ c[y].next = cell[y].next /\ c[y].prev = cell[y].prev
                          /\ c[y].key = cell[y].key,
         \A y \in live : c[y].value \in Values
  PROVE  Covered' /\ Valued'
<1>1. live \in SUBSET Nodes /\ LruInv
  BY DEF OrderInv, LruInv, TypeOK
<1>2. /\ live' = live
      /\ \A y \in Nodes : cell'[y].key = c[y].key /\ cell'[y].value = c[y].value
  BY <1>1, UseMoves
<1>3. Covered'
  BY <1>1, <1>2 DEF OrderInv, Covered, Mapped, Unfailed
<1>4. Valued'
  BY <1>1, <1>2 DEF Valued
<1> QED
  BY <1>3, <1>4

LEMMA GetCovered ==
  ASSUME OrderInv, revoltc_lru_cache_get
  PROVE  Covered' /\ Valued'
<1>1. PICK k \in Keys : Map!Get(k)
  BY DEF revoltc_lru_cache_get
<1>2. map' = map /\ cell \in Cells /\ pc = "idle" /\ \A y \in live : cell[y].value \in Values
  BY <1>1, GetFacts DEF OrderInv, LruInv, TypeOK, Entries, Valued, Busy, revoltc_lru_cache_get
<1>3. \/ UNCHANGED <<links, pc, putting, failed, keyless>>
      \/ map_ret'.value \in live /\ lru_cache_move_to_head(cell, map_ret'.value)
           /\ UNCHANGED <<pc, putting, failed, keyless>>
      \/ Crash
  BY DEF revoltc_lru_cache_get
<1>4. CASE UNCHANGED <<links, pc, putting, failed, keyless>>
  BY <1>2, <1>4 DEF OrderInv, Covered, Valued, Mapped, Unfailed, links
<1>5. CASE map_ret'.value \in live /\ lru_cache_move_to_head(cell, map_ret'.value)
           /\ UNCHANGED <<pc, putting, failed, keyless>>
  <2>1. PICK x \in live : x = map_ret'.value
    BY <1>5
  <2> QED BY <1>2, <1>5, <2>1, MovedCovered
<1>6. CASE Crash
  BY <1>6 DEF Crash, Covered, Valued, Busy
<1> QED
  BY <1>3, <1>4, <1>5, <1>6

(* What put does for a key: it has a node and gets the value, or gets a node. *)
LEMMA PutFacts ==
  ASSUME LruInv, revoltc_lru_cache_put, pc' # "crashed"
  PROVE  \E k \in Keys, v \in Values :
           /\ map' = map /\ pc = "idle" /\ UNCHANGED capacity
           /\ \/ /\ \A e \in map : e.key # k
                 /\ \E x, c : NewNode(k, v, x, c)
              \/ \E x \in live :
                   /\ lru_cache_move_to_head([cell EXCEPT ![x].value = v], x)
                   /\ \E e \in map : e.key = k /\ e.val = x
                   /\ ret' = Map!Answer("OK", NULL)
                   /\ UNCHANGED <<pc, putting, failed, keyless>>
<1>1. PICK k \in Keys, v \in Values :
        /\ Map!Get(k)
        /\ IF map_ret'.value = NULL THEN PutNew(k, v) ELSE PutAgain(map_ret'.value, v)
  BY DEF revoltc_lru_cache_put
<1>2. pc = "idle" /\ UNCHANGED capacity /\ ~Crash
  BY DEF revoltc_lru_cache_put, Crash
<1>3. map \subseteq Entries
  BY DEF LruInv, TypeOK, Entries
<1>4. /\ map' = map
      /\ \/ map_ret'.value = NULL /\ \A e \in map : e.key # k
         \/ \E e \in map : e.key = k /\ map_ret'.value = e.val
  BY <1>1, <1>3, GetFacts
<1>5. CASE map_ret'.value = NULL
  <2>1. \A e \in map : e.key # k
    BY <1>3, <1>4, <1>5, LruNull DEF Entries
  <2>2. PICK x, c : NewNode(k, v, x, c)
    BY <1>1, <1>2, <1>5, NewNodeFacts
  <2> QED BY <1>2, <1>4, <2>1, <2>2
<1>6. CASE map_ret'.value # NULL
  <2>1. PICK x \in live : x = map_ret'.value
    BY <1>1, <1>2, <1>6 DEF PutAgain
  <2>2. /\ lru_cache_move_to_head([cell EXCEPT ![x].value = v], x)
        /\ ret' = Map!Answer("OK", NULL)
        /\ UNCHANGED <<pc, putting, failed, keyless>>
    BY <1>1, <1>2, <1>6, <2>1 DEF PutAgain
  <2>3. \E e \in map : e.key = k /\ e.val = x
    BY <1>4, <1>6, <2>1
  <2> QED BY <1>2, <1>4, <2>2, <2>3
<1> QED
  BY <1>5, <1>6

LEMMA PutCovered ==
  ASSUME OrderInv, revoltc_lru_cache_put
  PROVE  Covered' /\ Valued'
<1>1. CASE pc' = "crashed"
  BY <1>1 DEF Covered, Valued, Busy
<1>2. CASE pc' # "crashed"
  <2>1. PICK k \in Keys, v \in Values :
           /\ map' = map /\ pc = "idle" /\ UNCHANGED capacity
           /\ \/ /\ \A e \in map : e.key # k
                 /\ \E x, c : NewNode(k, v, x, c)
              \/ \E x \in live :
                   /\ lru_cache_move_to_head([cell EXCEPT ![x].value = v], x)
                   /\ \E e \in map : e.key = k /\ e.val = x
                   /\ ret' = Map!Answer("OK", NULL)
                   /\ UNCHANGED <<pc, putting, failed, keyless>>
    BY <1>2, PutFacts DEF OrderInv
  <2>2. /\ live \in SUBSET Nodes /\ cell \in Cells
        /\ \A y \in live : cell[y].value \in Values
        /\ Unfailed => \A y \in live : Mapped(y)
    BY <2>1 DEF OrderInv, LruInv, TypeOK, Covered, Valued, Busy
  <2>3. CASE \E x, c : NewNode(k, v, x, c)
    <3>1. PICK x, c : NewNode(k, v, x, c)
      BY <2>3
    <3>2. /\ x \in Nodes \ live /\ head' = x /\ live' = live \cup {x} /\ pc' = "insert"
          /\ failed' = failed /\ Holds(cell, x, c, v, cell')
          /\ keyless' = {} => keyless = {}
      BY <3>1 DEF NewNode
    <3>3. /\ cell'[x].value = v
          /\ \A y \in live : cell'[y].key = cell[y].key /\ cell'[y].value = cell[y].value
      BY <2>2, <3>2 DEF Holds
    <3>4. Covered'
      BY <2>1, <2>2, <3>2, <3>3 DEF Covered, Unfailed, Mapped
    <3>5. Valued'
      BY <2>2, <3>2, <3>3 DEF Valued
    <3> QED BY <3>4, <3>5
  <2>4. ASSUME NEW x \in live,
               lru_cache_move_to_head([cell EXCEPT ![x].value = v], x),
               UNCHANGED <<pc, putting, failed, keyless>>
        PROVE  Covered' /\ Valued'
    <3>1. PICK c : c = [cell EXCEPT ![x].value = v]
      OBVIOUS
    <3>2. /\ c \in Cells
          /\ \A y \in Nodes : /\ c[y].next = cell[y].next /\ c[y].prev = cell[y].prev
                              /\ c[y].key = cell[y].key
                              /\ c[y].value = IF y = x THEN v ELSE cell[y].value
      <4> x \in Nodes
        BY <2>2
      <4> QED BY <2>2, <3>1 DEF Cells
    <3>3. \A y \in live : c[y].value \in Values
      BY <2>2, <3>2
    <3> QED BY <2>1, <2>4, <3>1, <3>2, <3>3, MovedCovered
  <2> QED BY <2>1, <2>3, <2>4
<1> QED
  BY <1>1, <1>2

LEMMA EvictCovered ==
  ASSUME OrderInv, PutEvicts, LruInv'
  PROVE  Covered' /\ Valued'
<1>1. /\ pc = "evict" /\ pc' = "idle" /\ live' = live \ {tail} /\ MapRemove(cell[tail].key)
      /\ cell' = [Write(cell, cell[tail].prev, "next", NULL) EXCEPT ![tail] = Blank]
      /\ UNCHANGED <<failed, keyless>>
  BY DEF PutEvicts, history
<1>2. /\ live \in SUBSET Nodes /\ cell \in Cells /\ tail \in live /\ map \subseteq Entries
      /\ \A y \in live : cell[y].value \in Values
      /\ Unfailed => \A y \in live : Mapped(y)
      /\ Single
  BY <1>1 DEF OrderInv, LruInv, MapInv, TypeOK, Covered, Valued, Busy, Entries
<1>3. \A y \in live' : cell'[y].key = cell[y].key /\ cell'[y].value = cell[y].value
  <2>1. PICK p : p = cell[tail].prev
    OBVIOUS
  <2>2. PICK e : e = Write(cell, p, "next", NULL)
    OBVIOUS
  <2>3. e \in Cells /\ \A y \in Nodes : e[y].key = cell[y].key /\ e[y].value = cell[y].value
    <3>1. CASE p = NULL
      BY <1>2, <2>2, <3>1 DEF Write
    <3>2. CASE p # NULL
      <4>1. e = [cell EXCEPT ![p]["next"] = NULL] /\ p \in Nodes
        BY <1>2, <2>1, <2>2, <3>2 DEF Write, Cells, Pointers
      <4> QED BY <1>2, <4>1 DEF Cells, Pointers
    <3> QED BY <3>1, <3>2
  <2>4. cell' = [e EXCEPT ![tail] = Blank]
    BY <1>1, <2>1, <2>2
  <2>5. \A y \in Nodes \ {tail} : cell'[y] = e[y]
    BY <2>3, <2>4 DEF Cells
  <2> QED BY <1>1, <1>2, <2>3, <2>5
<1>4. Valued'
  BY <1>1, <1>2, <1>3 DEF Valued
<1>5. ASSUME Unfailed, NEW y \in live'
      PROVE  Mapped(y)'
  <2>1. PICK e \in map : e.val = y /\ e.key = cell[y].key
    BY <1>1, <1>2, <1>5 DEF Mapped
  <2>2. PICK f \in map : f.val = tail /\ f.key = cell[tail].key
    BY <1>2, <1>5 DEF Mapped
  <2>3. e.key # f.key
    BY <1>1, <1>2, <2>1, <2>2 DEF Single
  <2>4. f.key \in Keys
    BY <1>2 DEF Entries
  <2>5. Map!Remove(f.key)
    BY <1>1, <2>2, <2>4, LruNull DEF MapRemove
  <2>6. e \in map'
    BY <2>3, <2>5 DEF Map!Remove, Map!Of
  <2> QED BY <1>3, <2>1, <2>6 DEF Mapped
<1>6. Covered'
  BY <1>1, <1>5 DEF Covered, Unfailed
<1> QED
  BY <1>4, <1>6

LEMMA OrderInvStep ==
  ASSUME OrderInv, LruInv', [Next]_lruvars
  PROVE  OrderInv'
<1> SUFFICES Covered' /\ Valued'
  BY DEF OrderInv
<1>1. CASE revoltc_lru_cache_new
  BY <1>1 DEF revoltc_lru_cache_new, OrderInv, Covered, Valued, Mapped, Unfailed, Busy, links, theMap, history
<1>2. CASE revoltc_lru_cache_get
  BY <1>2, GetCovered
<1>3. CASE revoltc_lru_cache_put
  BY <1>3, PutCovered
<1>4. CASE PutInserts
  <2>1. /\ pc = "insert" /\ pc' \in {"evict", "idle"}
        /\ map' = map \cup {[key |-> putting, val |-> head]}
        /\ UNCHANGED <<head, live, cell, failed, keyless>>
    BY <1>4 DEF PutInserts, Map!Insert, links, history
  <2>2. putting \in keyless \/ cell[head].key = putting
    BY <2>1 DEF OrderInv, LruInv, MapInv
  <2>3. Covered'
    BY <2>1, <2>2 DEF OrderInv, Covered, Mapped, Unfailed
  <2>4. Valued'
    BY <2>1 DEF OrderInv, Valued, Busy
  <2> QED BY <2>3, <2>4
<1>5. CASE PutFails
  <2>1. /\ pc = "insert" /\ pc' = "idle" /\ failed' = failed + 1 /\ failed \in Nat
        /\ UNCHANGED <<live, cell>>
    BY <1>5, LruBounds DEF PutFails, links, OrderInv, LruInv, TypeOK
  <2>2. failed' # 0
    BY <2>1
  <2>3. Covered' /\ Valued'
    BY <2>1, <2>2 DEF OrderInv, Covered, Valued, Unfailed, Busy
  <2> QED BY <2>3
<1>6. CASE PutEvicts
  BY <1>6, EvictCovered
<1>7. CASE revoltc_lru_cache_delete \/ DeleteNode \/ DeleteEnds
  <2>1. pc' \in {"delete", "deleted"}
    BY <1>7 DEF revoltc_lru_cache_delete, DeleteNode, DeleteEnds
  <2> QED BY <2>1 DEF Covered, Valued, Busy
<1>8. CASE UNCHANGED lruvars
  BY <1>8 DEF OrderInv, Covered, Valued, Mapped, Unfailed, lruvars, links, theMap, history
<1> QED
  BY <1>1, <1>2, <1>3, <1>4, <1>5, <1>6, <1>7, <1>8 DEF Next

-----------------------------------------------------------------------------
(* An entry moved before the others, as RecentlyUsed says it.                *)
Row(T, s, n) == s \in Seq(T) /\ Len(s) = n
Join(g, a, p, b, q) ==
  /\ \A i \in 1 .. p : g[i] = a[i]
  /\ \A i \in (p + 1) .. (p + q) : g[i] = b[i - p]
First(f, e, n, m, z) ==
  /\ f[1] = z
  /\ \A j \in 2 .. m : f[j] = e[j - 1]
  /\ \A j \in (m + 1) .. n : f[j] = e[j]

LEMMA Joined ==
  ASSUME NEW T, NEW p \in Nat, NEW q \in Nat, NEW a, Row(T, a, p), NEW b, Row(T, b, q)
  PROVE  Row(T, a \o b, p + q) /\ Join(a \o b, a, p, b, q)
<1> DEFINE g == a \o b
<1> USE DEF Row
<1>1. /\ g \in Seq(T) /\ Len(g) = p + q
      /\ \A i \in 1 .. p + q : g[i] = IF i <= p THEN a[i] ELSE b[i - p]
  BY ConcatProperties
<1> HIDE DEF g
<1>2. Row(T, g, p + q) /\ Join(g, a, p, b, q)
  BY <1>1 DEF Join
<1> QED
  BY <1>2 DEF g

LEMMA MovedFirst ==
  ASSUME NEW T, NEW n \in Nat, NEW e, Row(T, e, n), NEW m \in 1 .. n, NEW z \in T,
         NEW f, f = <<z>> \o RemoveAt(e, m)
  PROVE  Row(T, f, n) /\ First(f, e, n, m, z)
<1> USE DEF Row
<1>1. m \in Nat /\ \A i \in 1 .. n : e[i] \in T
  BY ElementOfSeq
<1>2. PICK a : a = SubSeq(e, 1, m - 1)
  OBVIOUS
<1>3. PICK b : b = SubSeq(e, m + 1, n)
  OBVIOUS
<1>4. PICK g : g = a \o b
  OBVIOUS
<1>5. a \in Seq(T) /\ Len(a) = m - 1 /\ \A i \in 1 .. (m - 1) : a[i] = e[i]
  <2>1. \A i \in 1 .. (m - 1) : e[i] \in T
    BY <1>1
  <2>2. /\ a \in Seq(T) /\ Len(a) = IF 1 <= m - 1 THEN (m - 1) - 1 + 1 ELSE 0
        /\ \A i \in 1 .. (m - 1) - 1 + 1 : a[i] = e[1 + i - 1]
    BY <1>1, <1>2, <2>1, SubSeqProperties
  <2> QED BY <1>1, <2>2
<1>6. b \in Seq(T) /\ Len(b) = n - m /\ \A i \in 1 .. (n - m) : b[i] = e[m + i]
  <2>1. \A i \in (m + 1) .. n : e[i] \in T
    BY <1>1
  <2>2. /\ b \in Seq(T) /\ Len(b) = IF m + 1 <= n THEN n - (m + 1) + 1 ELSE 0
        /\ \A i \in 1 .. n - (m + 1) + 1 : b[i] = e[(m + 1) + i - 1]
    BY <1>1, <1>3, <2>1, SubSeqProperties
  <2> QED BY <1>1, <2>2
<1>7. /\ g \in Seq(T) /\ Len(g) = n - 1
      /\ \A i \in 1 .. (m - 1) : g[i] = a[i]
      /\ \A i \in m .. (n - 1) : g[i] = b[i - (m - 1)]
  <2>1. m - 1 \in Nat /\ n - m \in Nat
    BY <1>1
  <2>2. /\ g \in Seq(T) /\ Len(g) = (m - 1) + (n - m)
        /\ \A i \in 1 .. (m - 1) : g[i] = a[i]
        /\ \A i \in ((m - 1) + 1) .. ((m - 1) + (n - m)) : g[i] = b[i - (m - 1)]
    <3>1. Row(T, g, (m - 1) + (n - m)) /\ Join(g, a, m - 1, b, n - m)
      <4> HIDE DEF Row
      <4>1. Row(T, a, m - 1) /\ Row(T, b, n - m)
        BY <1>5, <1>6 DEF Row
      <4> QED BY <1>4, <2>1, <4>1, Joined
    <3> QED BY <3>1 DEF Join
  <2>3. (m - 1) + (n - m) = n - 1 /\ (m - 1) + 1 = m
    BY <1>1
  <2> QED BY <2>2, <2>3
<1>8. f = <<z>> \o g
  BY <1>2, <1>3, <1>4 DEF RemoveAt
<1>9. /\ f \in Seq(T) /\ Len(f) = n /\ f[1] = z
      /\ \A j \in 2 .. n : f[j] = g[j - 1]
  <2>1. <<z>> \in Seq(T) /\ Len(<<z>>) = 1 /\ <<z>>[1] = z
    OBVIOUS
  <2>2. n - 1 \in Nat
    BY <1>1
  <2>3. /\ f \in Seq(T) /\ Len(f) = 1 + (n - 1)
        /\ \A i \in 1 .. 1 : f[i] = <<z>>[i]
        /\ \A i \in (1 + 1) .. (1 + (n - 1)) : f[i] = g[i - 1]
    <3>1. Row(T, f, 1 + (n - 1)) /\ Join(f, <<z>>, 1, g, n - 1)
      <4> HIDE DEF Row
      <4>1. Row(T, <<z>>, 1) /\ Row(T, g, n - 1)
        BY <1>7, <2>1 DEF Row
      <4> QED BY <1>8, <2>2, <4>1, Joined
    <3> QED BY <3>1 DEF Join
  <2> QED BY <1>1, <2>1, <2>3
<1>10. ASSUME NEW j \in 2 .. m
       PROVE  f[j] = e[j - 1]
  <2>1. j \in 2 .. n /\ j - 1 \in 1 .. (m - 1)
    BY <1>1
  <2> QED BY <1>5, <1>7, <1>9, <2>1
<1>11. ASSUME NEW j \in (m + 1) .. n
       PROVE  f[j] = e[j]
  <2>1. /\ j \in 2 .. n /\ j - 1 \in m .. (n - 1) /\ (j - 1) - (m - 1) \in 1 .. (n - m)
        /\ m + ((j - 1) - (m - 1)) = j
    BY <1>1
  <2>2. f[j] = g[j - 1] /\ g[j - 1] = b[(j - 1) - (m - 1)]
    BY <1>7, <1>9, <2>1
  <2>3. b[(j - 1) - (m - 1)] = e[m + ((j - 1) - (m - 1))]
    BY <1>6, <2>1
  <2> QED BY <2>1, <2>2, <2>3
<1> QED
  BY <1>9, <1>10, <1>11 DEF First

LEMMA ShownSeq ==
  ASSUME NEW n \in Nat, NEW s, NEW c
  PROVE  /\ DOMAIN Shown(s, n, c) = 1 .. n
         /\ \A T : (\A i \in 1 .. n : Entry(c, s[i]) \in T) =>
              Shown(s, n, c) \in Seq(T) /\ Len(Shown(s, n, c)) = n
  BY DEF Shown

(* A node is used. *)
Updated(s, n, m, c, d, v) ==
  \A i \in 1 .. n : Entry(d, s[i]) = IF i = m THEN [Entry(c, s[i]) EXCEPT !.val = v]
                                     ELSE Entry(c, s[i])

LEMMA UseShown ==
  ASSUME NEW n \in Nat, NEW s, NEW m \in 1 .. n, NEW c, NEW d, NEW v,
         Updated(s, n, m, c, d, v), NEW e, e = Shown(s, n, c)
  PROVE  Shown(Brought(s, n, m), n, d) = <<[e[m] EXCEPT !.val = v]>> \o RemoveAt(e, m)
<1> DEFINE T == {Entry(c, s[i]) : i \in 1 .. n} \cup {Entry(d, s[i]) : i \in 1 .. n}
           z == [e[m] EXCEPT !.val = v]
           f == <<z>> \o RemoveAt(e, m)
           g == Shown(Brought(s, n, m), n, d)
<1> USE DEF Updated
<1>1. e \in Seq(T) /\ Len(e) = n /\ \A i \in 1 .. n : e[i] = Entry(c, s[i])
  <2>1. \A i \in 1 .. n : Entry(c, s[i]) \in T
    OBVIOUS
  <2> HIDE DEF T
  <2>2. e \in Seq(T) /\ Len(e) = n
    BY <2>1, ShownSeq
  <2> QED BY <2>2 DEF Shown
<1>2. z = Entry(d, s[m]) /\ z \in T
  <2>1. z = Entry(d, s[m])
    BY <1>1
  <2> HIDE DEF z
  <2> QED BY <2>1
<1>3. \A i \in 1 .. n : Entry(d, s[i]) \in T
  OBVIOUS
<1> HIDE DEF T, z
<1>4. /\ f \in Seq(T) /\ Len(f) = n
      /\ f[1] = z /\ \A j \in 2 .. m : f[j] = e[j - 1]
      /\ \A j \in (m + 1) .. n : f[j] = e[j]
  <2>1. Row(T, e, n)
    BY <1>1 DEF Row
  <2>2. f = <<z>> \o RemoveAt(e, m)
    OBVIOUS
  <2> HIDE DEF f
  <2>3. Row(T, f, n) /\ First(f, e, n, m, z)
    BY <1>2, <2>1, <2>2, MovedFirst
  <2> QED BY <2>3 DEF Row, First
<1> HIDE DEF f
<1>5. \A i \in 1 .. n :
        /\ Brought(s, n, m)[i] = (IF i = 1 THEN s[m] ELSE IF i <= m THEN s[i - 1] ELSE s[i])
        /\ i # 1 => i - 1 \in 1 .. n
  BY DEF Brought
<1>6. ASSUME NEW i \in 1 .. n
      PROVE  g[i] = f[i] /\ g[i] \in T
  <2>1. g[i] = Entry(d, Brought(s, n, m)[i])
    BY DEF Shown
  <2> HIDE DEF g
  <2>2. CASE i = 1
    BY <1>2, <1>4, <1>5, <2>1, <2>2
  <2>3. CASE i # 1 /\ i <= m
    <3>1. i - 1 \in 1 .. n /\ i - 1 # m /\ i \in 2 .. m
      BY <2>3
    <3>2. g[i] = Entry(d, s[i - 1]) /\ f[i] = e[i - 1]
      BY <1>4, <1>5, <2>1, <2>3, <3>1
    <3>3. Entry(d, s[i - 1]) = Entry(c, s[i - 1]) /\ e[i - 1] = Entry(c, s[i - 1])
      BY <1>1, <3>1
    <3> QED BY <1>3, <3>1, <3>2, <3>3
  <2>4. CASE i > m
    <3>1. i # m /\ i # 1 /\ ~(i <= m) /\ i \in (m + 1) .. n
      BY <2>4
    <3>2. g[i] = Entry(d, s[i]) /\ f[i] = e[i]
      BY <1>4, <1>5, <2>1, <3>1
    <3>3. Entry(d, s[i]) = Entry(c, s[i]) /\ e[i] = Entry(c, s[i])
      BY <1>1, <3>1
    <3> QED BY <1>3, <3>2, <3>3
  <2> QED BY <2>2, <2>3, <2>4
<1>7. g \in Seq(T) /\ Len(g) = n
  <2>1. DOMAIN g = 1 .. n /\ g = [i \in 1 .. n |-> g[i]]
    BY DEF Shown
  <2> HIDE DEF g
  <2> QED BY <1>6, <2>1
<1>8. g = f
  <2> HIDE DEF g
  <2> QED BY <1>4, <1>6, <1>7, SeqEqual
<1> QED
  BY <1>8 DEF f, g, z

(* The head is the first entry, and the tail the last.                       *)
LEMMA WithHead ==
  ASSUME NEW n \in Nat, n > 0, NEW s, NEW S, NEW h, NEW t, NEW c, ListOf(s, n, S, h, t, c),
         NEW z, z = Entry(c, h), NEW l, l = Shown(Behind(s, n), n - 1, c)
  PROVE  <<z>> \o l = Shown(s, n, c) /\ Len(<<z>> \o l) = n
<1> DEFINE T == {Entry(c, s[i]) : i \in 1 .. n}
<1>1. h = s[1] /\ 1 \in 1 .. n /\ n - 1 \in Nat
  BY DEF ListOf, Place
<1>2. \A i \in 1 .. n : Entry(c, s[i]) \in T
  OBVIOUS
<1> HIDE DEF T
<1>3. \A i \in 1 .. (n - 1) : i + 1 \in 1 .. n /\ Behind(s, n)[i] = s[i + 1]
  BY DEF Behind
<1>4. Row(T, l, n - 1) /\ \A i \in 1 .. (n - 1) : l[i] = Entry(c, s[i + 1])
  <2>1. \A i \in 1 .. (n - 1) : Entry(c, Behind(s, n)[i]) \in T
    BY <1>2, <1>3
  <2>2. l \in Seq(T) /\ Len(l) = n - 1
    BY <1>1, <2>1, ShownSeq
  <2> QED BY <1>3, <2>2 DEF Row, Shown
<1>5. Row(T, <<z>>, 1) /\ <<z>>[1] = z
  <2>1. z \in T
    BY <1>1, <1>2
  <2> QED BY <2>1 DEF Row
<1>6. PICK f : f = <<z>> \o l
  OBVIOUS
<1>7. Row(T, f, 1 + (n - 1)) /\ Join(f, <<z>>, 1, l, n - 1)
  BY <1>1, <1>4, <1>5, <1>6, Joined
<1>8. Row(T, f, n) /\ f[1] = z /\ \A i \in 2 .. n : f[i] = l[i - 1]
  <2>1. 1 + (n - 1) = n /\ 1 + 1 = 2 /\ 1 \in 1 .. 1
    BY <1>1
  <2> QED BY <1>5, <1>7, <2>1 DEF Join
<1>9. Row(T, Shown(s, n, c), n) /\ \A i \in 1 .. n : Shown(s, n, c)[i] = Entry(c, s[i])
  <2>1. Shown(s, n, c) \in Seq(T) /\ Len(Shown(s, n, c)) = n
    BY <1>2, ShownSeq
  <2> QED BY <2>1 DEF Row, Shown
<1>10. \A i \in 1 .. n : f[i] = Shown(s, n, c)[i]
  <2> SUFFICES ASSUME NEW i \in 1 .. n
               PROVE  f[i] = Shown(s, n, c)[i]
    OBVIOUS
  <2>1. CASE i = 1
    BY <1>1, <1>8, <1>9, <2>1
  <2>2. CASE i # 1
    <3>1. i \in 2 .. n /\ i - 1 \in 1 .. (n - 1) /\ (i - 1) + 1 = i
      BY <2>2
    <3> QED BY <1>4, <1>8, <1>9, <3>1
  <2> QED BY <2>1, <2>2
<1>11. f = Shown(s, n, c)
  BY <1>8, <1>9, <1>10, SeqEqual DEF Row
<1> QED
  BY <1>6, <1>8, <1>11 DEF Row

LEMMA WithoutLast ==
  ASSUME NEW n \in Nat, n > 0, NEW s, NEW c
  PROVE  Front(Shown(s, n, c)) = Shown(s, n - 1, c)
<1> DEFINE T == {Entry(c, s[i]) : i \in 1 .. n}
           e == Shown(s, n, c)
           f == SubSeq(e, 1, n - 1)
<1>1. n - 1 \in Nat /\ \A i \in 1 .. n : Entry(c, s[i]) \in T
  OBVIOUS
<1> HIDE DEF T
<1>2. e \in Seq(T) /\ Len(e) = n /\ \A i \in 1 .. n : e[i] = Entry(c, s[i])
  <2>1. e \in Seq(T) /\ Len(e) = n
    BY <1>1, ShownSeq
  <2> QED BY <2>1 DEF Shown
<1> HIDE DEF e
<1>3. f \in Seq(T) /\ Len(f) = n - 1 /\ \A i \in 1 .. (n - 1) : f[i] = e[i]
  <2>1. \A i \in 1 .. (n - 1) : e[i] \in T
    BY <1>1, <1>2
  <2>2. /\ f \in Seq(T) /\ Len(f) = IF 1 <= n - 1 THEN (n - 1) - 1 + 1 ELSE 0
        /\ \A i \in 1 .. (n - 1) - 1 + 1 : f[i] = e[1 + i - 1]
    BY <1>1, <2>1, SubSeqProperties
  <2> HIDE DEF f
  <2> QED BY <1>1, <2>2
<1>4. /\ Shown(s, n - 1, c) \in Seq(T) /\ Len(Shown(s, n - 1, c)) = n - 1
      /\ \A i \in 1 .. (n - 1) : Shown(s, n - 1, c)[i] = Entry(c, s[i])
  <2>1. \A i \in 1 .. (n - 1) : Entry(c, s[i]) \in T
    BY <1>1
  <2>2. Shown(s, n - 1, c) \in Seq(T) /\ Len(Shown(s, n - 1, c)) = n - 1
    BY <1>1, <2>1, ShownSeq
  <2> QED BY <2>2 DEF Shown
<1>5. f = Shown(s, n - 1, c)
  <2>1. \A i \in 1 .. (n - 1) : f[i] = Shown(s, n - 1, c)[i]
    BY <1>2, <1>3, <1>4
  <2> HIDE DEF f
  <2> QED BY <1>3, <1>4, <2>1, SeqEqual
<1> QED
  BY <1>2, <1>5 DEF Front, e, f

-----------------------------------------------------------------------------
(* Each step is one of RecentlyUsed or leaves what is listed alone.          *)
UseSeen(k, v, w) ==
  \E m \in DOMAIN Listed :
    Listed[m].key = k /\ Listed[m].val = w
      /\ Listed' = <<[Listed[m] EXCEPT !.val = v]>> \o RemoveAt(Listed, m)

LEMMA UseIsSeen ==
  ASSUME OrderInv, LruInv', ListsOrder, ListsOrder', pc = "idle", UNCHANGED <<map, pc>>,
         Unfailed, NEW c \in Cells, NEW x \in live, lru_cache_move_to_head(c, x),
         \A y \in Nodes : /\ c[y].next = cell[y].next /\ c[y].prev = cell[y].prev
                          /\ c[y].key = cell[y].key,
         NEW v, \A y \in Nodes : c[y].value = IF y = x THEN v ELSE cell[y].value,
         NEW e \in map, e.val = x
  PROVE  UseSeen(e.key, v, cell[x].value)
<1>1. LruInv /\ live \in SUBSET Nodes
  BY DEF OrderInv, LruInv, TypeOK
<1>2. /\ live' = live
      /\ \E s, m : Moved(s, m, x)
      /\ \A y \in Nodes : cell'[y].key = c[y].key /\ cell'[y].value = c[y].value
  BY <1>1, UseMoves
<1>3. PICK s, m : Moved(s, m, x)
  BY <1>2
<1>4. Used \in Nat /\ Used' = Used
  BY <1>1, <1>2, UsedFacts DEF Used
<1>5. /\ Listed = Shown(s, Used, cell)
      /\ Listed' = Shown(Brought(s, Used, m), Used, cell')
  <2>1. ListedIs(s)
    BY <1>3 DEF Moved, ListsOrder, Busy
  <2>2. ListedIs(Brought(s, Used, m))'
    BY <1>3, <1>4 DEF Moved, ListsOrder, Busy
  <2> QED BY <1>4, <2>1, <2>2 DEF ListedIs
<1>6. /\ m \in 1 .. Used /\ s[m] = x /\ \A i \in 1 .. Used : s[i] \in live
      /\ \A i, j \in 1 .. Used : i # j => s[i] # s[j]
  BY <1>3 DEF Moved, ListOf, Listing
<1>7. Updated(s, Used, m, cell, cell', v)
  <2> SUFFICES ASSUME NEW i \in 1 .. Used
               PROVE  Entry(cell', s[i]) = IF i = m THEN [Entry(cell, s[i]) EXCEPT !.val = v]
                                           ELSE Entry(cell, s[i])
    BY DEF Updated
  <2>1. s[i] \in Nodes /\ (s[i] = x <=> i = m)
    BY <1>1, <1>6
  <2>2. /\ cell'[s[i]].key = cell[s[i]].key
        /\ cell'[s[i]].value = IF i = m THEN v ELSE cell[s[i]].value
    BY <1>2, <2>1
  <2> QED BY <2>2 DEF Entry
<1>8. Listed' = <<[Listed[m] EXCEPT !.val = v]>> \o RemoveAt(Listed, m)
  <2>1. PICK e1, d, n : e1 = Listed /\ d = cell' /\ n = Used
    OBVIOUS
  <2>2. n \in Nat /\ m \in 1 .. n /\ Updated(s, n, m, cell, d, v) /\ e1 = Shown(s, n, cell)
    BY <1>4, <1>5, <1>6, <1>7, <2>1
  <2>3. Shown(Brought(s, n, m), n, d) = <<[e1[m] EXCEPT !.val = v]>> \o RemoveAt(e1, m)
    BY <2>2, UseShown
  <2> QED BY <1>5, <2>1, <2>3
<1>9. e.key = cell[x].key
  BY <1>1 DEF LruInv, MapInv, Refers, Busy, Unfailed
<1>10. m \in DOMAIN Listed /\ Listed[m].key = e.key /\ Listed[m].val = cell[x].value
  BY <1>5, <1>6, <1>9 DEF Shown, Entry
<1> QED
  BY <1>8, <1>10 DEF UseSeen

(* A key without an entry in the map has no node.                            *)
LEMMA Unlisted ==
  ASSUME OrderInv, ListsOrder, pc \in {"idle", "insert", "evict"}, Unfailed,
         NEW k, \A e \in map : e.key = k => pc = "evict" /\ e.val = head
  PROVE  ~Lru!Has(k)
<1>1. LruInv /\ live \in SUBSET Nodes
  BY DEF OrderInv, LruInv, TypeOK
<1>2. Used \in Nat
  BY <1>1, UsedFacts
<1>3. PICK s : ListOf(s, Used, live, head, tail, cell)
  BY <1>1 DEF LruInv, ListInv, Busy
<1>4. ListedIs(s)
  BY <1>3 DEF ListsOrder, Busy
<1>5. /\ s \in [1 .. Used -> live]
      /\ \A i, j \in 1 .. Used : i # j => s[i] # s[j]
  BY <1>3 DEF ListOf, Listing
<1>6. ASSUME NEW x \in live, pc \in {"insert", "evict"} => x # head
      PROVE  cell[x].key # k
  BY <1>6 DEF OrderInv, Covered, Mapped, Unfailed
<1>7. CASE pc = "idle"
  <2>1. Listed = Shown(s, Used, cell)
    BY <1>4, <1>7 DEF ListedIs
  <2>2. \A i \in 1 .. Used : Listed[i].key # k
    BY <1>5, <1>6, <1>7, <2>1 DEF Shown, Entry
  <2> QED BY <2>1, <2>2 DEF Lru!Has, Lru!Places, Shown
<1>8. CASE pc \in {"insert", "evict"}
  <2>1. Listed = Shown(Behind(s, Used), Used - 1, cell)
    BY <1>4, <1>8 DEF ListedIs
  <2>2. ASSUME NEW i \in 1 .. (Used - 1)
        PROVE  Listed[i].key # k
    <3>1. i + 1 \in 1 .. Used /\ 1 \in 1 .. Used /\ i + 1 # 1
      BY <1>2
    <3>2. head = s[1]
      BY <1>3, <3>1 DEF ListOf, Place
    <3>3. s[i + 1] \in live /\ s[i + 1] # head
      BY <1>5, <3>1, <3>2
    <3>4. cell[s[i + 1]].key # k
      BY <1>6, <3>3
    <3>5. Listed[i] = Entry(cell, s[i + 1])
      BY <2>1 DEF Shown, Behind
    <3> QED BY <3>4, <3>5 DEF Entry
  <2> QED BY <2>1, <2>2 DEF Lru!Has, Lru!Places, Shown
<1> QED
  BY <1>7, <1>8

LEMMA GetSeen ==
  ASSUME OrderInv, LruInv', ListsOrder, ListsOrder', revoltc_lru_cache_get, Undisturbed'
  PROVE  Lru!Next
<1>1. PICK k \in Keys :
        Map!Get(k)
  BY DEF revoltc_lru_cache_get
<1>2. /\ LruInv /\ map \subseteq Entries /\ cell \in Cells
      /\ pc = "idle" /\ UNCHANGED capacity
  BY DEF OrderInv, LruInv, TypeOK, Entries, revoltc_lru_cache_get
<1>3. /\ map' = map
      /\ \/ map_ret'.value = NULL /\ \A e \in map : e.key # k
         \/ \E e \in map : e.key = k /\ map_ret'.value = e.val
  BY <1>1, <1>2, GetFacts
<1>4. ~Crash
  BY DEF Undisturbed, Crash
<1>5. Lru!Get(k)
  <2>1. CASE map_ret'.value = NULL
    <3>1. ret' = Map!Answer("OK", NULL) /\ UNCHANGED <<links, pc, putting, failed, keyless>>
      <4>1. NULL \notin live
        BY <1>2, LruNull DEF LruInv, TypeOK
      <4> QED BY <1>4, <2>1, <4>1 DEF revoltc_lru_cache_get
    <3>2. \A e \in map : e.key # k
      BY <1>2, <1>3, <2>1, LruNull DEF Entries
    <3>3. ~Lru!Has(k)
      BY <1>2, <3>1, <3>2, Unlisted DEF Undisturbed, Unfailed
    <3>4. Listed' = Listed
      BY <3>1 DEF Listed, Visible, Order, Orders, InOrder, links
    <3> QED BY <1>2, <3>1, <3>3, <3>4 DEF Lru!Get, Map!Answer, Lru!Answer
  <2>2. CASE map_ret'.value # NULL
    <3>1. /\ map_ret'.value \in live /\ lru_cache_move_to_head(cell, map_ret'.value)
          /\ ret' = Map!Answer("OK", cell[map_ret'.value].value)
          /\ UNCHANGED <<pc, putting, failed, keyless>>
      BY <1>4, <2>2 DEF revoltc_lru_cache_get
    <3>2. PICK x \in live : x = map_ret'.value
      BY <3>1
    <3>3. PICK e \in map : e.key = k /\ e.val = x
      BY <1>3, <2>2, <3>2
    <3>4. Unfailed
      BY <3>1 DEF Undisturbed, Unfailed
    <3>5. PICK v : v = cell[x].value
      OBVIOUS
    <3>6. UseSeen(k, v, v)
      BY <1>2, <1>3, <3>1, <3>2, <3>3, <3>4, <3>5, UseIsSeen
    <3>7. ret' = Lru!Answer("OK", v)
      BY <3>1, <3>2, <3>5 DEF Map!Answer, Lru!Answer
    <3>8. \E m \in DOMAIN Listed :
            Listed[m].key = k /\ Lru!Use(m, Listed[m].val) /\ ret' = Lru!Answer("OK", Listed[m].val)
      BY <3>6, <3>7 DEF UseSeen, Lru!Use, Lru!RemoveAt, RemoveAt
    <3> QED BY <1>2, <3>8 DEF Lru!Get, Lru!Places
  <2> QED BY <2>1, <2>2
<1> QED
  BY <1>5 DEF Lru!Next

LEMMA PutSeen ==
  ASSUME OrderInv, LruInv', ListsOrder, ListsOrder', revoltc_lru_cache_put, Undisturbed'
  PROVE  Lru!Next \/ UNCHANGED <<Listed, capacity, ret>>
<1>1. PICK k \in Keys, v \in Values :
           /\ map' = map /\ pc = "idle" /\ UNCHANGED capacity
           /\ \/ /\ \A e \in map : e.key # k
                 /\ \E x, c : NewNode(k, v, x, c)
              \/ \E x \in live :
                   /\ lru_cache_move_to_head([cell EXCEPT ![x].value = v], x)
                   /\ \E e \in map : e.key = k /\ e.val = x
                   /\ ret' = Map!Answer("OK", NULL)
                   /\ UNCHANGED <<pc, putting, failed, keyless>>
  BY PutFacts DEF OrderInv, Undisturbed
<1>2. LruInv /\ live \in SUBSET Nodes /\ cell \in Cells
  BY DEF OrderInv, LruInv, TypeOK
<1>3. CASE \E x, c : NewNode(k, v, x, c)
  <2>1. PICK x, c : NewNode(k, v, x, c)
    BY <1>3
  <2> USE DEF NewNode
  <2>2. PICK s : ListOf(s, Used, live, head, tail, cell)
    BY <1>1, <1>2 DEF LruInv, ListInv, Busy
  <2>3. Used \in Nat /\ Used' = Used + 1
    BY <1>2, <2>1, UsedFacts DEF Used
  <2>4. PICK r : r = Pushed(s, Used, x)
    OBVIOUS
  <2>5. ListOf(r, Used', live', head', tail', cell')
    <3>1. ListOf(r, Used + 1, live \cup {x}, x, IF tail = NULL THEN x ELSE tail, cell')
      <4> HIDE DEF Used
      <4> QED BY <1>2, <2>1, <2>2, <2>3, <2>4, PushList
    <3> QED BY <2>1, <2>3, <3>1
  <2>6. /\ Listed = Shown(s, Used, cell)
        /\ Listed' = Shown(Behind(r, Used + 1), (Used + 1) - 1, cell')
    <3>1. ListedIs(s)
      BY <1>1, <2>2 DEF ListsOrder, Busy
    <3>2. ListedIs(r)'
      BY <2>1, <2>5 DEF ListsOrder, Busy
    <3> QED BY <1>1, <2>1, <2>3, <3>1, <3>2 DEF ListedIs
  <2>7. (Used + 1) - 1 = Used /\ \A i \in 1 .. Used : Behind(r, Used + 1)[i] = s[i]
    <3> HIDE DEF Used
    <3>1. \A i \in 1 .. Used : i + 1 \in 1 .. (Used + 1) /\ i + 1 # 1 /\ (i + 1) - 1 = i
      BY <2>3
    <3>2. (Used + 1) - 1 = Used
      BY <2>3
    <3> QED BY <2>4, <3>1, <3>2 DEF Behind, Pushed
  <2>8. \A i \in 1 .. Used : Entry(cell', s[i]) = Entry(cell, s[i])
    <3>1. \A i \in 1 .. Used : s[i] \in Nodes /\ s[i] # x
      BY <1>2, <2>1, <2>2 DEF ListOf, Listing
    <3> QED BY <2>1, <3>1 DEF Holds, Entry
  <2>9. Listed' = Listed
    <3>1. Listed' = Shown(Behind(r, Used + 1), Used, cell')
      BY <2>6, <2>7
    <3> HIDE DEF Used
    <3> QED BY <2>6, <2>7, <2>8, <3>1 DEF Shown
  <2> QED BY <1>1, <2>1, <2>9
<1>4. ASSUME NEW x \in live,
             lru_cache_move_to_head([cell EXCEPT ![x].value = v], x),
             \E e \in map : e.key = k /\ e.val = x,
             ret' = Map!Answer("OK", NULL),
             UNCHANGED <<pc, putting, failed, keyless>>
      PROVE  Lru!Next
  <2>1. PICK c : c = [cell EXCEPT ![x].value = v]
    OBVIOUS
  <2>2. PICK e \in map : e.key = k /\ e.val = x
    BY <1>4
  <2>3. /\ c \in Cells
        /\ \A y \in Nodes : /\ c[y].next = cell[y].next /\ c[y].prev = cell[y].prev
                            /\ c[y].key = cell[y].key
        /\ \A y \in Nodes : c[y].value = IF y = x THEN v ELSE cell[y].value
    <3> x \in Nodes
      BY <1>2
    <3> QED BY <1>2, <2>1 DEF Cells
  <2>4. Unfailed
    BY <1>4 DEF Undisturbed, Unfailed
  <2>5. UseSeen(k, v, cell[x].value)
    BY <1>1, <1>4, <2>1, <2>2, <2>3, <2>4, UseIsSeen
  <2>6. \E m \in DOMAIN Listed : Listed[m].key = k /\ Lru!Use(m, v)
    BY <2>5 DEF UseSeen, Lru!Use, Lru!RemoveAt, RemoveAt
  <2>7. Lru!Put(k, v)
    BY <1>1, <1>4, <2>6 DEF Lru!Put, Lru!Places, Map!Answer, Lru!Answer
  <2> QED BY <2>7 DEF Lru!Next
<1> QED
  BY <1>1, <1>3, <1>4

(* A put is over when the map has taken the node and none had to go.         *)
LEMMA InsertSeen ==
  ASSUME OrderInv, LruInv', ListsOrder, ListsOrder', PutInserts, Undisturbed'
  PROVE  Lru!Next \/ UNCHANGED <<Listed, capacity, ret>>
<1>1. /\ pc = "insert" /\ pc' \in {"evict", "idle"}
      /\ UNCHANGED <<head, tail, cell, live, capacity, failed, keyless>>
  BY DEF PutInserts, links, history
<1>2. LruInv /\ live \in SUBSET Nodes /\ putting \in Keys /\ head \in live /\ Unfailed
  BY <1>1 DEF OrderInv, LruInv, TypeOK, Undisturbed, Unfailed
<1>3. CASE pc' = "evict"
  <2>1. ret' = ret
    BY <1>3 DEF PutInserts
  <2>2. Listed' = Listed
    BY <1>1, <1>3 DEF Listed, Visible, Order, Orders, InOrder
  <2> QED BY <1>1, <2>1, <2>2
<1>4. CASE pc' = "idle"
  <2>1. PICK s : ListOf(s, Used, live, head, tail, cell)
    BY <1>1, <1>2 DEF LruInv, ListInv, Busy
  <2>2. Used \in Nat /\ Used' = Used /\ Used # 0
    BY <1>1, <1>2, UsedFacts DEF Used
  <2>3. ListOf(s, Used', live', head', tail', cell')
    BY <1>1, <2>1, <2>2
  <2>4. /\ Listed = Shown(Behind(s, Used), Used - 1, cell)
        /\ Listed' = Shown(s, Used, cell)
    <3>1. ListedIs(s)
      BY <1>1, <2>1 DEF ListsOrder, Busy
    <3>2. ListedIs(s)'
      BY <1>4, <2>3 DEF ListsOrder, Busy
    <3> QED BY <1>1, <1>4, <2>2, <3>1, <3>2 DEF ListedIs
  <2>5. PICK k, v : k = putting /\ v = cell[head].value
    OBVIOUS
  <2>6. Entry(cell, head) = [key |-> k, val |-> v] /\ k \in Keys /\ v \in Values
    BY <1>1, <1>2, <2>5 DEF OrderInv, LruInv, MapInv, Valued, Unfailed, Entry, Busy
  <2>7. ~Lru!Has(k)
    <3>1. \A e \in map : e.key # k
      BY <1>1, <1>2, <2>5 DEF LruInv, MapInv
    <3> QED BY <1>1, <1>2, <3>1, Unlisted
  <2>8. Used <= capacity
    <3>1. count' <= capacity' /\ Used' = count' + failed'
      BY <1>4 DEF LruInv, SizeInv
    <3>2. failed' = 0 /\ count' \in Nat
      BY DEF LruInv, TypeOK, Undisturbed
    <3> QED BY <1>1, <2>2, <3>1, <3>2
  <2>9. Listed' = <<[key |-> k, val |-> v]>> \o Listed /\ Len(<<[key |-> k, val |-> v]>> \o Listed) = Used
    BY <2>1, <2>2, <2>4, <2>6, WithHead
  <2>10. Lru!Put(k, v)
    <3>1. ret' = Lru!Answer("OK", NULL)
      BY <1>4 DEF PutInserts, Map!Answer, Lru!Answer
    <3>2. ~(Len(<<[key |-> k, val |-> v]>> \o Listed) > capacity)
      <4>1. capacity \in Nat
        BY <1>2 DEF LruInv, TypeOK
      <4> QED BY <2>2, <2>8, <2>9, <4>1
    <3> QED BY <1>1, <2>7, <2>9, <3>1, <3>2 DEF Lru!Put
  <2> QED BY <2>6, <2>10 DEF Lru!Next
<1> QED
  BY <1>1, <1>3, <1>4

(* ... and otherwise when it has gone.                                       *)
LEMMA EvictSeen ==
  ASSUME OrderInv, LruInv', ListsOrder, ListsOrder', PutEvicts, Undisturbed'
  PROVE  Lru!Next
<1>1. /\ pc = "evict" /\ pc' = "idle" /\ tail' = cell[tail].prev
      /\ live' = live \ {tail} /\ ret' = Map!Answer("OK", NULL)
      /\ UNCHANGED <<head, capacity, failed, keyless>>
  BY DEF PutEvicts, history
<1>2. /\ LruInv /\ live \in SUBSET Nodes /\ tail \in live /\ cell \in Cells /\ Unfailed
      /\ capacity \in Nat /\ map \subseteq Entries /\ Single
  BY <1>1 DEF OrderInv, LruInv, MapInv, TypeOK, Undisturbed, Unfailed, Entries, Busy
<1>3. Used \in Nat /\ Used' = Used - 1 /\ Used = capacity + 1 /\ Used > 1
  <2>1. capacity > 0 /\ count = capacity + 1 /\ Used = count + failed
    BY <1>1, <1>2 DEF LruInv, SizeInv
  <2>2. Used \in Nat /\ Used' = Used - 1
    BY <1>1, <1>2, UsedFacts DEF Used
  <2>3. failed = 0
    BY <1>2 DEF Unfailed
  <2> QED BY <1>2, <2>1, <2>2, <2>3
<1>4. PICK s : ListOf(s, Used, live, head, tail, cell)
  BY <1>1, <1>2 DEF LruInv, ListInv, Busy
<1>5. /\ head = s[1] /\ head \in live /\ head # tail
      /\ s \in [1 .. Used -> live]
      /\ \A i \in 1 .. (Used - 1) : s[i] \in live \ {tail}
  <2> HIDE DEF Used
  <2>1. 1 \in 1 .. Used /\ Used \in 1 .. Used /\ 1 # Used
    BY <1>3
  <2>2. /\ s \in [1 .. Used -> live] /\ head = s[1] /\ tail = s[Used]
        /\ \A i, j \in 1 .. Used : i # j => s[i] # s[j]
    BY <1>4, <2>1 DEF ListOf, Listing, Place
  <2>3. \A i \in 1 .. (Used - 1) : i \in 1 .. Used /\ i # Used
    BY <1>3
  <2> QED BY <2>1, <2>2, <2>3
<1>6. PICK p, r : p = cell[tail].prev /\ r = Cut(s, Used)
  OBVIOUS
<1>7. p \in Nodes /\ p # tail
  <2> HIDE DEF Used
  <2>1. Used \in 1 .. Used /\ Used - 1 \in 1 .. Used /\ Used - 1 # Used /\ Used \in Nat \ {0}
    BY <1>3
  <2>2. tail = s[Used] /\ p = Place(s, Used, Used - 1)
    BY <1>2, <1>4, <1>6, <2>1, Ends
  <2> QED BY <1>2, <1>4, <2>1, <2>2 DEF Place, ListOf, Listing
<1>8. CutAfter(cell, p, tail, cell')
  <2>1. cell' = WithNode(Write(cell, p, "next", NULL), tail, Blank)
    BY <1>6 DEF PutEvicts, WithNode
  <2> QED BY <1>2, <1>7, <2>1, CutCells
<1>9. ListOf(r, Used', live', head', tail', cell')
  <2>1. ListOf(r, Used - 1, live \ {tail}, head, p, cell')
    <3> HIDE DEF Used
    <3> QED BY <1>2, <1>3, <1>4, <1>6, <1>8, DropList
  <2> QED BY <1>1, <1>3, <1>6, <2>1
<1>10. /\ Listed = Shown(Behind(s, Used), Used - 1, cell)
       /\ Listed' = Shown(r, Used - 1, cell')
  <2>1. ListedIs(s)
    BY <1>1, <1>4 DEF ListsOrder, Busy
  <2>2. ListedIs(r)'
    BY <1>1, <1>9 DEF ListsOrder, Busy
  <2> QED BY <1>1, <1>3, <2>1, <2>2 DEF ListedIs
<1>11. PICK k, v : k = cell[head].key /\ v = cell[head].value
  OBVIOUS
<1>12. PICK f \in map : f.val = head /\ f.key = k
  BY <1>1, <1>2, <1>5, <1>11 DEF OrderInv, Covered, Mapped
<1>13. Entry(cell, head) = [key |-> k, val |-> v] /\ k \in Keys /\ v \in Values
  BY <1>1, <1>2, <1>5, <1>11, <1>12 DEF OrderInv, Valued, Entry, Busy, Entries
<1>14. ~Lru!Has(k)
  <2>1. \A e \in map : e.key = k => e.val = head
    BY <1>2, <1>12 DEF Single
  <2> QED BY <1>1, <1>2, <2>1, Unlisted
<1>15. PICK all : all = <<[key |-> k, val |-> v]>> \o Listed
  OBVIOUS
<1>16. all = Shown(s, Used, cell) /\ Len(all) = Used
  BY <1>3, <1>4, <1>10, <1>13, <1>15, WithHead
<1>17. Front(all) = Listed'
  <2>1. \A i \in 1 .. (Used - 1) : Entry(cell', r[i]) = Entry(cell, s[i])
    <3>1. \A i \in 1 .. (Used - 1) : r[i] = s[i]
      BY <1>6 DEF Cut
    <3>2. \A i \in 1 .. (Used - 1) : s[i] \in Nodes \ {tail}
      BY <1>2, <1>5
    <3> QED BY <1>8, <3>1, <3>2 DEF CutAfter, Entry
  <2>2. Listed' = Shown(s, Used - 1, cell)
    BY <1>10, <2>1 DEF Shown
  <2> QED BY <1>3, <1>16, <2>2, WithoutLast
<1>18. Lru!Put(k, v)
  <2>1. Len(all) > capacity
    BY <1>2, <1>3, <1>16
  <2>2. Lru!Front(all) = Listed'
    BY <1>17 DEF Front, Lru!Front
  <2>3. ret' = Lru!Answer("OK", NULL)
    BY <1>1 DEF Map!Answer, Lru!Answer
  <2> QED BY <1>1, <1>14, <1>15, <2>1, <2>2, <2>3 DEF Lru!Put
<1> QED
  BY <1>13, <1>18 DEF Lru!Next

LEMMA OrderInit ==
  ASSUME Init, ListsOrder
  PROVE  Lru!Init
<1>1. /\ pc = "none" /\ live = {} /\ capacity = 0 /\ ret = Map!Answer("OK", NULL)
  BY DEF Init
<1>2. Used = 0
  BY <1>1, FS_EmptySet DEF Used
<1>3. PICK s : ListOf(s, Used, live, head, tail, cell)
  BY <1>1, InitInv DEF LruInv, ListInv, Busy
<1>4. Listed = Shown(s, 0, cell)
  BY <1>1, <1>2, <1>3 DEF ListsOrder, ListedIs, Busy
<1>5. Listed = <<>>
  BY <1>4 DEF Shown
<1> QED
  BY <1>1, <1>5 DEF Lru!Init, Lru!Answer, Map!Answer

LEMMA OrderStep ==
  ASSUME OrderInv, LruInv', ListsOrder, ListsOrder', [Next]_lruvars, Undisturbed'
  PROVE  Lru!Next \/ UNCHANGED <<Listed, capacity, ret>>
<1>1. CASE revoltc_lru_cache_new
  <2>1. /\ pc = "none" /\ pc' = "idle" /\ UNCHANGED <<head, tail, cell, live, ret>>
    BY <1>1 DEF revoltc_lru_cache_new, links
  <2>2. capacity' \in Nat \ {0}
    BY <1>1, LruSizes DEF revoltc_lru_cache_new, RoomFor
  <2>3. Listed' = Listed
    BY <2>1 DEF Listed, Visible, Order, Orders, InOrder
  <2> QED BY <2>1, <2>2, <2>3 DEF Lru!Next, Lru!New
<1>2. CASE revoltc_lru_cache_get
  BY <1>2, GetSeen
<1>3. CASE revoltc_lru_cache_put
  BY <1>3, PutSeen
<1>4. CASE PutInserts
  BY <1>4, InsertSeen
<1>5. CASE PutFails
  <2>1. failed' = failed + 1 /\ failed \in Nat
    BY <1>5, LruBounds DEF PutFails, OrderInv, LruInv, TypeOK
  <2> QED BY <2>1 DEF Undisturbed
<1>6. CASE PutEvicts
  BY <1>6, EvictSeen
<1>7. CASE revoltc_lru_cache_delete
  <2>1. pc' = "delete" /\ UNCHANGED <<capacity, ret>>
    BY <1>7 DEF revoltc_lru_cache_delete
  <2>2. Listed' = <<>>
    BY <2>1 DEF Listed
  <2> QED BY <2>1, <2>2 DEF Lru!Next, Lru!Delete
<1>8. CASE DeleteNode \/ DeleteEnds
  <2>1. pc = "delete" /\ pc' \in {"delete", "deleted"} /\ UNCHANGED <<capacity, ret>>
    BY <1>8 DEF DeleteNode, DeleteEnds
  <2>2. Listed = <<>> /\ Listed' = <<>>
    BY <2>1 DEF Listed
  <2> QED BY <2>1, <2>2
<1>9. CASE UNCHANGED lruvars
  BY <1>9 DEF lruvars, links, Listed, Visible, Order, Orders, InOrder
<1> QED
  BY <1>1, <1>2, <1>3, <1>4, <1>5, <1>6, <1>7, <1>8, <1>9 DEF Next

LEMMA OrderInvAlways == Spec => []OrderInv
<1>1. Init => OrderInv
  BY OrderInvInit
<1>2. OrderInv /\ LruInv' /\ [Next]_lruvars => OrderInv'
  BY OrderInvStep
<1> QED
  BY <1>1, <1>2, LruInvAlways, PTL DEF Spec

(* As long as no allocation has failed a caller sees the entries in the      *)
(* order of use: get and put bring theirs to the front, and the put that     *)
(* makes one too many costs the one used longest ago (45-128).               *)
THEOREM ImplementsRecentlyUsedThm == Spec => ImplementsRecentlyUsed
<1>1. Init /\ ListsOrder => Lru!Init
  BY OrderInit
<1>2. OrderInv /\ LruInv' /\ ListsOrder /\ ListsOrder' /\ [Next]_lruvars
        => [Undisturbed' => Lru!Next]_<<Listed, capacity, ret>>
  BY OrderStep
<1> QED
  BY <1>1, <1>2, ListedFacts, LruInvAlways, OrderInvAlways, PTL
  DEF Spec, ImplementsRecentlyUsed
=============================================================================
