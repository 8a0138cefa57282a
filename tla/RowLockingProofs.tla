-------------------------- MODULE RowLockingProofs --------------------------
(***************************************************************************)
(* That circles of transactions waiting for each other have the causes     *)
(* RowLocking names, for any items, reservations and handlers.             *)
(*                                                                         *)
(* Of the transactions in a circle take those another waits for.  Each     *)
(* holds a lock and wants one.  Without the causes they are give-backs     *)
(* only (TheyGive): neither an approval nor a lone copy can wait for one   *)
(* of them.  And whoever is waited for wants a lock of a lower rank than   *)
(* the one that waits (RankFalls): rows from the newest to the oldest,     *)
(* then shelves, then items.  One of them wants the lowest, so nobody      *)
(* holds it.                                                               *)
(***************************************************************************)
EXTENDS RowLocking, Totals, SequenceTheorems

(* Short sequences, and sequences joined.                                  *)
LEMMA ListIs ==
  ASSUME NEW S, NEW n \in Nat, NEW f \in [1..n -> S]
  PROVE  f \in Seq(S) /\ Len(f) = n
OBVIOUS

LEMMA One ==
  ASSUME NEW S, NEW x \in S
  PROVE  <<x>> \in Seq(S) /\ Len(<<x>>) = 1 /\ <<x>>[1] = x
OBVIOUS

LEMMA Two ==
  ASSUME NEW S, NEW x \in S, NEW y \in S
  PROVE  <<x, y>> \in Seq(S) /\ Len(<<x, y>>) = 2 /\ <<x, y>>[1] = x /\ <<x, y>>[2] = y
OBVIOUS

LEMMA Three ==
  ASSUME NEW S, NEW x \in S, NEW y \in S, NEW z \in S
  PROVE  <<x, y, z>> \in Seq(S) /\ Len(<<x, y, z>>) = 3
         /\ <<x, y, z>>[1] = x /\ <<x, y, z>>[2] = y /\ <<x, y, z>>[3] = z
OBVIOUS

LEMMA Joined ==
  ASSUME NEW S, NEW s \in Seq(S), NEW t \in Seq(S)
  PROVE  /\ s \o t \in Seq(S) /\ Len(s \o t) = Len(s) + Len(t) /\ Len(s) \in Nat /\ Len(t) \in Nat
         /\ \A k \in 1..Len(s) : (s \o t)[k] = s[k]
         /\ \A k \in 1..Len(t) : (s \o t)[Len(s) + k] = t[k]
<1>1. s \o t \in Seq(S) /\ Len(s \o t) = Len(s) + Len(t)
      /\ \A i \in 1..Len(s) + Len(t) : (s \o t)[i] = IF i <= Len(s) THEN s[i] ELSE t[i - Len(s)]
  BY ConcatProperties
<1>2. Len(s) \in Nat /\ Len(t) \in Nat
  OBVIOUS
<1>3. \A k \in 1..Len(s) : k \in 1..Len(s) + Len(t) /\ k <= Len(s)
  BY <1>2
<1>4. \A k \in 1..Len(t) : Len(s) + k \in 1..Len(s) + Len(t) /\ ~(Len(s) + k <= Len(s)) /\ (Len(s) + k) - Len(s) = k
  BY <1>2
<1> QED BY <1>1, <1>2, <1>3, <1>4

LEMMA JoinedThree ==
  ASSUME NEW S, NEW s \in Seq(S), NEW t \in Seq(S), NEW u \in Seq(S)
  PROVE  LET m == Len(s)
             n == Len(t)
             p == Len(u)
             w == (s \o t) \o u
         IN  /\ w \in Seq(S) /\ m \in Nat /\ n \in Nat /\ p \in Nat /\ Len(w) = m + n + p
             /\ \A k \in 1..m : w[k] = s[k]
             /\ \A k \in 1..n : w[m + k] = t[k]
             /\ \A k \in 1..p : w[m + n + k] = u[k]
<1> DEFINE v == s \o t
           m == Len(s)
           n == Len(t)
           p == Len(u)
<1>10. m \in Nat /\ n \in Nat /\ p \in Nat
  OBVIOUS
<1>1. v \in Seq(S) /\ Len(v) = Len(s) + Len(t)
      /\ \A i \in 1..Len(s) + Len(t) : v[i] = IF i <= Len(s) THEN s[i] ELSE t[i - Len(s)]
  BY ConcatProperties
<1>9. v \in Seq(S)
  BY <1>1
<1> HIDE DEF v
<1>2. v \o u \in Seq(S) /\ Len(v \o u) = Len(v) + Len(u)
      /\ \A i \in 1..Len(v) + Len(u) : (v \o u)[i] = IF i <= Len(v) THEN v[i] ELSE u[i - Len(v)]
  BY <1>9, ConcatProperties
<1> DEFINE w == v \o u
<1> HIDE DEF w
<1>3. Len(v) = m + n /\ Len(u) = p
  BY <1>1
<1>4. w \in Seq(S) /\ Len(w) = m + n + p
      /\ \A i \in 1..m + n + p : w[i] = IF i <= m + n THEN v[i] ELSE u[i - (m + n)]
  BY <1>2, <1>3 DEF w
<1>5. \A i \in 1..m + n : v[i] = IF i <= m THEN s[i] ELSE t[i - m]
  BY <1>1
<1> HIDE DEF m, n, p
<1>6. ASSUME NEW k \in 1..m PROVE w[k] = s[k]
  <2>1. k \in 1..m + n /\ k <= m /\ k \in 1..m + n + p /\ k <= m + n
    BY <1>10
  <2> QED BY <1>4, <1>5, <2>1
<1>7. ASSUME NEW k \in 1..n PROVE w[m + k] = t[k]
  <2>1. m + k \in 1..m + n /\ ~(m + k <= m) /\ (m + k) - m = k /\ m + k \in 1..m + n + p /\ m + k <= m + n
    BY <1>10
  <2>2. w[m + k] = v[m + k]
    BY <1>4, <2>1
  <2>3. v[m + k] = t[(m + k) - m]
    BY <1>5, <2>1
  <2> QED BY <2>1, <2>2, <2>3
<1>8. ASSUME NEW k \in 1..p PROVE w[m + n + k] = u[k]
  <2>1. m + n + k \in 1..m + n + p /\ ~(m + n + k <= m + n) /\ (m + n + k) - (m + n) = k
    BY <1>10
  <2>2. w[m + n + k] = u[(m + n + k) - (m + n)]
    BY <1>4, <2>1
  <2> QED BY <2>1, <2>2
<1> QED BY <1>4, <1>6, <1>7, <1>8, <1>10 DEF v, w, m, n, p

(* Every script is a sequence of locks.                                    *)
RowIds == UNION {ToSet(RowsOf[r]) : r \in Reservation}
Locks == [row : {"Item", "ResourceReservation", "ReservationAllocation", "WarehouseStock"}
                  \X (Item \union Reservation \union RowIds),
          mode : {"for update", "update", "key share"}]

LEMMA RowsGiven ==
  ASSUME NEW r \in Reservation
  PROVE  /\ Len(RowsOf[r]) \in Nat /\ DOMAIN RowsOf[r] = 1..Len(RowsOf[r])
         /\ \A n \in 1..Len(RowsOf[r]) : RowsOf[r][n] \in ToSet(RowsOf[r])
         /\ \A m, n \in 1..Len(RowsOf[r]) : RowsOf[r][m] = RowsOf[r][n] => m = n
         /\ ToSet(RowsOf[r]) \subseteq RowIds
<1>1. RowsOf[r] \in Seq(ToSet(RowsOf[r]))
  BY ReservationsGiven
<1>2. Len(RowsOf[r]) \in Nat /\ DOMAIN RowsOf[r] = 1..Len(RowsOf[r])
  BY <1>1, LenProperties
<1>3. \A n \in 1..Len(RowsOf[r]) : RowsOf[r][n] \in ToSet(RowsOf[r])
  BY <1>2 DEF ToSet
<1>4. \A m, n \in 1..Len(RowsOf[r]) : RowsOf[r][m] = RowsOf[r][n] => m = n
  BY <1>2, ReservationsGiven DEF IsInjective
<1> QED BY <1>2, <1>3, <1>4 DEF RowIds

LEMMA LocksTyped ==
  /\ \A r \in Reservation : \A m \in {"for update", "update", "key share"} :
       OnItem(r, m) \in Locks /\ OnSelf(r, m) \in Locks
  /\ \A r \in Reservation : Shelf(r) \in Locks
  /\ \A i \in RowIds : Lock("ReservationAllocation", i, "update") \in Locks
  /\ \A i \in Item : \A t \in {"Item", "WarehouseStock"} :
       \A m \in {"for update", "update", "key share"} : Lock(t, i, m) \in Locks
<1>1. \A r \in Reservation : ItemOf[r] \in Item
  BY ReservationsGiven
<1> QED BY <1>1 DEF OnItem, OnSelf, Shelf, Lock, Locks

(* An update of rows, whichever they are.                                  *)
LEMMA UpdateTyped ==
  ASSUME NEW n \in Nat, NEW s \in [1..n -> RowIds]
  PROVE  Update(s) \in Seq(Locks) /\ Len(Update(s)) = n
         /\ \A k \in 1..n : Update(s)[k] = Lock("ReservationAllocation", s[k], "update")
<1>1. Update(s) = [k \in 1..n |-> Lock("ReservationAllocation", s[k], "update")]
  BY DEF Update
<1>2. Update(s) \in [1..n -> Locks]
  BY <1>1, LocksTyped
<1> QED BY <1>1, <1>2

LEMMA Reversed ==
  ASSUME NEW r \in Reservation
  PROVE  /\ Reverse(RowsOf[r]) \in [1..Len(RowsOf[r]) -> RowIds]
         /\ \A k \in 1..Len(RowsOf[r]) : Reverse(RowsOf[r])[k] = RowsOf[r][(Len(RowsOf[r]) - k) + 1]
<1>1. Len(RowsOf[r]) \in Nat /\ \A n \in 1..Len(RowsOf[r]) : RowsOf[r][n] \in RowIds
  BY RowsGiven
<1> HIDE DEF RowIds
<1>2. \A k \in 1..Len(RowsOf[r]) : (Len(RowsOf[r]) - k) + 1 \in 1..Len(RowsOf[r])
  BY <1>1
<1> QED BY <1>1, <1>2 DEF Reverse

(* What the scripts of the five operations that give back or measure are.  *)
LEMMA ReceiveIs ==
  ASSUME NEW r \in Reservation
  PROVE  LET s == Receive(r)
             n == Len(RowsOf[r])
         IN  /\ s \in Seq(Locks) /\ n \in Nat /\ Len(s) = n + 3
             /\ s[1] = OnSelf(r, "for update")
             /\ \A k \in 1..n : s[k + 1] = Lock("ReservationAllocation", RowsOf[r][(n - k) + 1], "update")
             /\ s[n + 2] = Shelf(r) /\ s[n + 3] = OnItem(r, "key share")
<1> DEFINE n == Len(RowsOf[r])
           a == <<OnSelf(r, "for update")>>
           b == Update(Reverse(RowsOf[r]))
           c == Credit(r)
<1>1. n \in Nat
  BY RowsGiven
<1>2. OnSelf(r, "for update") \in Locks /\ OnItem(r, "key share") \in Locks /\ Shelf(r) \in Locks
  BY LocksTyped
<1>3. b \in Seq(Locks) /\ Len(b) = n
      /\ \A k \in 1..n : b[k] = Lock("ReservationAllocation", RowsOf[r][(n - k) + 1], "update")
  BY <1>1, Reversed, UpdateTyped
<1>4. a \in Seq(Locks) /\ Len(a) = 1 /\ a[1] = OnSelf(r, "for update")
  BY <1>2, One
<1>5. c \in Seq(Locks) /\ Len(c) = 2 /\ c[1] = Shelf(r) /\ c[2] = OnItem(r, "key share")
  BY <1>2, Two DEF Credit
<1>6. Receive(r) = (a \o b) \o c
  BY DEF Receive
<1> HIDE DEF a, b, c, n
<1>8. /\ Receive(r) \in Seq(Locks) /\ Len(Receive(r)) = 1 + n + 2
      /\ \A k \in 1..1 : Receive(r)[k] = a[k]
      /\ \A k \in 1..n : Receive(r)[1 + k] = b[k]
      /\ \A k \in 1..2 : Receive(r)[1 + n + k] = c[k]
  <2>1. a \in Seq(Locks) /\ b \in Seq(Locks) /\ c \in Seq(Locks)
    BY <1>3, <1>4, <1>5
  <2>2. LET w == (a \o b) \o c
        IN  /\ w \in Seq(Locks) /\ Len(w) = Len(a) + Len(b) + Len(c)
            /\ \A k \in 1..Len(a) : w[k] = a[k]
            /\ \A k \in 1..Len(b) : w[Len(a) + k] = b[k]
            /\ \A k \in 1..Len(c) : w[Len(a) + Len(b) + k] = c[k]
    BY <2>1, JoinedThree
  <2>3. Len(a) = 1 /\ Len(b) = n /\ Len(c) = 2
    BY <1>3, <1>4, <1>5
  <2> QED BY <2>2, <2>3, <1>6
<1>9. 1 \in 1..1 /\ 1 \in 1..2 /\ 2 \in 1..2 /\ (1 + n) + 1 = n + 2 /\ (1 + n) + 2 = n + 3 /\ 1 + n + 2 = n + 3
      /\ \A k \in 1..n : 1 + k = k + 1
  BY <1>1
<1>10. Receive(r)[1] = OnSelf(r, "for update")
  BY <1>4, <1>8, <1>9
<1>11. \A k \in 1..n : Receive(r)[k + 1] = Lock("ReservationAllocation", RowsOf[r][(n - k) + 1], "update")
  BY <1>3, <1>8, <1>9
<1>12. Receive(r)[(1 + n) + 1] = c[1] /\ Receive(r)[(1 + n) + 2] = c[2]
  BY <1>8, <1>9
<1>13. Receive(r)[n + 2] = Shelf(r) /\ Receive(r)[n + 3] = OnItem(r, "key share")
  BY <1>5, <1>9, <1>12
<1>14. Receive(r) \in Seq(Locks) /\ Len(Receive(r)) = n + 3
  BY <1>8, <1>9
<1> QED BY <1>1, <1>10, <1>11, <1>13, <1>14 DEF n

LEMMA ReclaimIs ==
  ASSUME NEW r \in Reservation
  PROVE  LET s == Reclaim(r)
             n == Len(RowsOf[r])
         IN  /\ s \in Seq(Locks) /\ n \in Nat /\ Len(s) = n + 4
             /\ \A k \in 1..n : s[k] = Lock("ReservationAllocation", RowsOf[r][(n - k) + 1], "update")
             /\ s[n + 1] = OnSelf(r, "key share") /\ s[n + 2] = Shelf(r)
             /\ s[n + 3] = OnItem(r, "key share") /\ s[n + 4] = OnSelf(r, "update")
<1> DEFINE n == Len(RowsOf[r])
           a == Update(Reverse(RowsOf[r]))
           b == <<OnSelf(r, "key share")>>
           c == Credit(r)
           d == <<OnSelf(r, "update")>>
           f == (a \o b) \o c
<1>1. n \in Nat
  BY RowsGiven
<1>2. OnSelf(r, "key share") \in Locks /\ OnSelf(r, "update") \in Locks
      /\ OnItem(r, "key share") \in Locks /\ Shelf(r) \in Locks
  BY LocksTyped
<1>3. a \in Seq(Locks) /\ Len(a) = n
      /\ \A k \in 1..n : a[k] = Lock("ReservationAllocation", RowsOf[r][(n - k) + 1], "update")
  BY <1>1, Reversed, UpdateTyped
<1>4. b \in Seq(Locks) /\ Len(b) = 1 /\ b[1] = OnSelf(r, "key share")
  BY <1>2, One
<1>5. c \in Seq(Locks) /\ Len(c) = 2 /\ c[1] = Shelf(r) /\ c[2] = OnItem(r, "key share")
  BY <1>2, Two DEF Credit
<1>6. d \in Seq(Locks) /\ Len(d) = 1 /\ d[1] = OnSelf(r, "update")
  BY <1>2, One
<1>7. Reclaim(r) = f \o d
  BY DEF Reclaim
<1> HIDE DEF a, b, c, d, n
<1>8. /\ f \in Seq(Locks) /\ Len(f) = n + 1 + 2
      /\ \A k \in 1..n : f[k] = a[k]
      /\ \A k \in 1..1 : f[n + k] = b[k]
      /\ \A k \in 1..2 : f[n + 1 + k] = c[k]
  <2>1. a \in Seq(Locks) /\ b \in Seq(Locks) /\ c \in Seq(Locks)
    BY <1>3, <1>4, <1>5
  <2>2. /\ f \in Seq(Locks) /\ Len(f) = Len(a) + Len(b) + Len(c)
        /\ \A k \in 1..Len(a) : f[k] = a[k]
        /\ \A k \in 1..Len(b) : f[Len(a) + k] = b[k]
        /\ \A k \in 1..Len(c) : f[Len(a) + Len(b) + k] = c[k]
    BY <2>1, JoinedThree
  <2>3. Len(a) = n /\ Len(b) = 1 /\ Len(c) = 2
    BY <1>3, <1>4, <1>5
  <2> QED BY <2>2, <2>3
<1> HIDE DEF f
<1>9. /\ f \o d \in Seq(Locks) /\ Len(f \o d) = Len(f) + Len(d)
      /\ \A k \in 1..Len(f) : (f \o d)[k] = f[k]
      /\ \A k \in 1..Len(d) : (f \o d)[Len(f) + k] = d[k]
  <2>1. f \in Seq(Locks) /\ d \in Seq(Locks)
    BY <1>6, <1>8
  <2> QED BY <2>1, Joined
<1>10. Len(f) = n + 3 /\ Len(d) = 1
  BY <1>1, <1>6, <1>8
<1>11. /\ Reclaim(r) \in Seq(Locks) /\ Len(Reclaim(r)) = (n + 3) + 1
       /\ \A k \in 1..n + 3 : Reclaim(r)[k] = f[k]
       /\ \A k \in 1..1 : Reclaim(r)[n + 3 + k] = d[k]
  BY <1>7, <1>9, <1>10
<1>12. 1 \in 1..1 /\ 1 \in 1..2 /\ 2 \in 1..2 /\ (n + 1) + 1 = n + 2 /\ (n + 1) + 2 = n + 3 /\ (n + 3) + 1 = n + 4
       /\ n + 1 \in 1..n + 3 /\ n + 2 \in 1..n + 3 /\ n + 3 \in 1..n + 3 /\ \A k \in 1..n : k \in 1..n + 3
  BY <1>1
<1>13. \A k \in 1..n : Reclaim(r)[k] = Lock("ReservationAllocation", RowsOf[r][(n - k) + 1], "update")
  BY <1>3, <1>8, <1>11, <1>12
<1>14. f[n + 1] = b[1] /\ f[n + 2] = c[1] /\ f[n + 3] = c[2]
  BY <1>8, <1>12
<1>15. Reclaim(r)[n + 1] = b[1] /\ Reclaim(r)[n + 2] = c[1] /\ Reclaim(r)[n + 3] = c[2]
  BY <1>11, <1>12, <1>14
<1>16. Reclaim(r)[n + 4] = d[1]
  BY <1>11, <1>12
<1> QED BY <1>1, <1>4, <1>5, <1>6, <1>11, <1>12, <1>13, <1>15, <1>16 DEF n

LEMMA ReleaseIs ==
  ASSUME NEW r \in Reservation, NEW i \in ToSet(RowsOf[r])
  PROVE  LET s == Release(r, i)
         IN  /\ s \in Seq(Locks) /\ Len(s) = 5
             /\ s[1] = Lock("ReservationAllocation", i, "update") /\ s[2] = OnSelf(r, "key share")
             /\ s[3] = Shelf(r) /\ s[4] = OnItem(r, "key share") /\ s[5] = OnSelf(r, "update")
<1> DEFINE a == <<Lock("ReservationAllocation", i, "update"), OnSelf(r, "key share")>>
           b == Credit(r)
           c == <<OnSelf(r, "update")>>
           w == (a \o b) \o c
<1>1. OnSelf(r, "key share") \in Locks /\ OnSelf(r, "update") \in Locks
      /\ OnItem(r, "key share") \in Locks /\ Shelf(r) \in Locks /\ Lock("ReservationAllocation", i, "update") \in Locks
  BY LocksTyped, RowsGiven
<1>2. a \in Seq(Locks) /\ Len(a) = 2 /\ a[1] = Lock("ReservationAllocation", i, "update")
      /\ a[2] = OnSelf(r, "key share")
  BY <1>1, Two
<1>3. b \in Seq(Locks) /\ Len(b) = 2 /\ b[1] = Shelf(r) /\ b[2] = OnItem(r, "key share")
  BY <1>1, Two DEF Credit
<1>4. c \in Seq(Locks) /\ Len(c) = 1 /\ c[1] = OnSelf(r, "update")
  BY <1>1, One
<1>5. Release(r, i) = w
  BY DEF Release
<1> HIDE DEF a, b, c
<1>6. /\ w \in Seq(Locks) /\ Len(w) = Len(a) + Len(b) + Len(c)
      /\ \A k \in 1..Len(a) : w[k] = a[k]
      /\ \A k \in 1..Len(b) : w[Len(a) + k] = b[k]
      /\ \A k \in 1..Len(c) : w[Len(a) + Len(b) + k] = c[k]
  <2>1. a \in Seq(Locks) /\ b \in Seq(Locks) /\ c \in Seq(Locks)
    BY <1>2, <1>3, <1>4
  <2> QED BY <2>1, JoinedThree
<1> HIDE DEF w
<1>7. /\ Len(w) = 2 + 2 + 1 /\ \A k \in 1..2 : w[k] = a[k]
      /\ \A k \in 1..2 : w[2 + k] = b[k]
      /\ \A k \in 1..1 : w[2 + 2 + k] = c[k]
  BY <1>2, <1>3, <1>4, <1>6
<1>8. w[1] = a[1] /\ w[2] = a[2] /\ w[2 + 1] = b[1] /\ w[2 + 2] = b[2] /\ w[2 + 2 + 1] = c[1] /\ Len(w) = 5
  BY <1>7
<1>9. w[1] = a[1] /\ w[2] = a[2] /\ w[3] = b[1] /\ w[4] = b[2] /\ w[5] = c[1]
  BY <1>8
<1> QED BY <1>2, <1>3, <1>4, <1>5, <1>6, <1>8, <1>9

LEMMA HandBackIs ==
  ASSUME NEW r \in Reservation, NEW i \in ToSet(RowsOf[r])
  PROVE  LET s == HandBack(r, i)
         IN  /\ s \in Seq(Locks) /\ Len(s) = 5
             /\ s[1] = Lock("ReservationAllocation", i, "update")
             /\ s[2] = Shelf(r) /\ s[3] = OnItem(r, "key share")
             /\ s[4] = OnSelf(r, "key share") /\ s[5] = OnSelf(r, "update")
<1> DEFINE a == <<Lock("ReservationAllocation", i, "update")>>
           b == Credit(r)
           c == <<OnSelf(r, "key share"), OnSelf(r, "update")>>
           w == (a \o b) \o c
<1>1. OnSelf(r, "key share") \in Locks /\ OnSelf(r, "update") \in Locks
      /\ OnItem(r, "key share") \in Locks /\ Shelf(r) \in Locks /\ Lock("ReservationAllocation", i, "update") \in Locks
  BY LocksTyped, RowsGiven
<1>2. a \in Seq(Locks) /\ Len(a) = 1 /\ a[1] = Lock("ReservationAllocation", i, "update")
  BY <1>1, One
<1>3. b \in Seq(Locks) /\ Len(b) = 2 /\ b[1] = Shelf(r) /\ b[2] = OnItem(r, "key share")
  BY <1>1, Two DEF Credit
<1>4. c \in Seq(Locks) /\ Len(c) = 2 /\ c[1] = OnSelf(r, "key share") /\ c[2] = OnSelf(r, "update")
  BY <1>1, Two
<1>5. HandBack(r, i) = w
  BY DEF HandBack
<1> HIDE DEF a, b, c
<1>6. /\ w \in Seq(Locks) /\ Len(w) = Len(a) + Len(b) + Len(c)
      /\ \A k \in 1..Len(a) : w[k] = a[k]
      /\ \A k \in 1..Len(b) : w[Len(a) + k] = b[k]
      /\ \A k \in 1..Len(c) : w[Len(a) + Len(b) + k] = c[k]
  <2>1. a \in Seq(Locks) /\ b \in Seq(Locks) /\ c \in Seq(Locks)
    BY <1>2, <1>3, <1>4
  <2> QED BY <2>1, JoinedThree
<1> HIDE DEF w
<1>7. /\ Len(w) = 1 + 2 + 2 /\ \A k \in 1..1 : w[k] = a[k]
      /\ \A k \in 1..2 : w[1 + k] = b[k]
      /\ \A k \in 1..2 : w[1 + 2 + k] = c[k]
  BY <1>2, <1>3, <1>4, <1>6
<1>8. w[1] = a[1] /\ w[1 + 1] = b[1] /\ w[1 + 2] = b[2] /\ w[1 + 2 + 1] = c[1] /\ w[1 + 2 + 2] = c[2] /\ Len(w) = 5
  BY <1>7
<1>9. w[1] = a[1] /\ w[2] = b[1] /\ w[3] = b[2] /\ w[4] = c[1] /\ w[5] = c[2]
  BY <1>8
<1> QED BY <1>2, <1>3, <1>4, <1>5, <1>6, <1>8, <1>9

LEMMA DocumentsTyped ==
  ASSUME NEW s \in Documents
  PROVE  /\ Len(s) \in Nat /\ s \in [1..Len(s) -> Item] /\ DOMAIN s = 1..Len(s)
         /\ \A m \in {"for update", "key share"} : EachItem(s, m) \in Seq(Locks)
         /\ \A f, g \in {"Item", "WarehouseStock"} : InTurn(s, f, g) \in Seq(Locks)
<1>1. PICK n \in 0..MaxLines : s \in [1..n -> Item]
  BY DEF Documents, SeqOf
<1>2. n \in Nat /\ Len(s) = n
  BY <1>1, ItemsNumbered
<1>3. \A i \in Item : \A m \in {"for update", "update", "key share"} : Lock("Item", i, m) \in Locks
  BY LocksTyped
<1>4. \A i \in Item : \A f \in {"Item", "WarehouseStock"} : Lock(f, i, "update") \in Locks
  BY LocksTyped
<1>5. ASSUME NEW m \in {"for update", "key share"} PROVE EachItem(s, m) \in Seq(Locks)
  <2>1. EachItem(s, m) = [k \in 1..n |-> Lock("Item", s[k], m)]
    BY <1>1 DEF EachItem
  <2>2. \A k \in 1..n : s[k] \in Item
    BY <1>1
  <2>3. \A k \in 1..n : Lock("Item", s[k], m) \in Locks
    BY <1>3, <2>2
  <2>4. EachItem(s, m) \in [1..n -> Locks]
    BY <2>1, <2>3
  <2>5. n \in Nat
    BY <1>2
  <2> QED BY <2>4, <2>5, ListIs
<1>6. ASSUME NEW f \in {"Item", "WarehouseStock"}, NEW g \in {"Item", "WarehouseStock"}
      PROVE  InTurn(s, f, g) \in Seq(Locks)
  <2>1. \A k \in 1..2 * n : (k + 1) \div 2 \in 1..n
    BY <1>2
  <2>2. \A k \in 1..2 * n : s[(k + 1) \div 2] \in Item
    BY <1>1, <2>1
  <2>3. \A k \in 1..2 * n : Lock(IF k % 2 = 1 THEN f ELSE g, s[(k + 1) \div 2], "update") \in Locks
    BY <1>4, <2>2
  <2>4. InTurn(s, f, g) \in [1..2 * n -> Locks]
    BY <1>2, <2>3 DEF InTurn
  <2> QED BY <1>2, <2>4
<1> QED BY <1>1, <1>2, <1>5, <1>6

LEMMA CloseTyped ==
  ASSUME NEW r \in Reservation, NEW found \in SetToSeqs(ToSet(RowsOf[r]))
  PROVE  Close(r, found) \in Seq(Locks)
<1>1. IsFiniteSet(ToSet(RowsOf[r]))
  <2>1. Len(RowsOf[r]) \in Nat /\ RowsOf[r] \in Seq(ToSet(RowsOf[r])) /\ DOMAIN RowsOf[r] = 1..Len(RowsOf[r])
    BY RowsGiven, ReservationsGiven
  <2>2. IsFiniteSet(1..Len(RowsOf[r]))
    BY <2>1, FS_Interval
  <2>3. RowsOf[r] \in [1..Len(RowsOf[r]) -> ToSet(RowsOf[r])]
    BY <2>1
  <2>4. \A x \in ToSet(RowsOf[r]) : \E n \in 1..Len(RowsOf[r]) : RowsOf[r][n] = x
    BY <2>1 DEF ToSet
  <2>5. RowsOf[r] \in Surjection(1..Len(RowsOf[r]), ToSet(RowsOf[r]))
    BY <2>3, <2>4 DEF Surjection
  <2> QED BY <2>2, <2>5, FS_Surjection
<1>2. PICK n \in Nat : found \in [1..n -> ToSet(RowsOf[r])]
  BY <1>1, FS_CardinalityType DEF SetToSeqs
<1>3. found \in [1..n -> RowIds]
  BY <1>2, RowsGiven
<1>4. Update(found) \in Seq(Locks)
  BY <1>3, UpdateTyped
<1>5. OnSelf(r, "key share") \in Locks /\ OnSelf(r, "update") \in Locks
  BY LocksTyped
<1>6. <<OnSelf(r, "key share"), OnSelf(r, "update")>> \in Seq(Locks)
  BY <1>5, Two
<1> QED BY <1>4, <1>6, ConcatProperties DEF Close

LEMMA ItemLockIs ==
  ASSUME NEW l \in ItemLocks
  PROVE  \E i \in Item : l.row = <<"Item", i>> /\ l.mode \in {"key share", "for update"}
<1>1. l.row \in {<<"Item", i>> : i \in Item} /\ l.mode \in {"key share", "for update"}
  BY DEF ItemLocks
<1> QED BY <1>1

LEMMA CopiesLockItems ==
  /\ ItemLocks \subseteq Locks
  /\ \A s \in Copies : s \in Seq(ItemLocks) /\ Len(s) \in Nat /\ \A n \in 1..Len(s) : s[n] \in ItemLocks
<1>1. ItemLocks \subseteq Locks
  <2>1. \A i \in Item : <<"Item", i>> \in {"Item", "ResourceReservation", "ReservationAllocation", "WarehouseStock"}
                                         \X (Item \union Reservation \union RowIds)
    OBVIOUS
  <2>2. {"key share", "for update"} \subseteq {"for update", "update", "key share"}
    OBVIOUS
  <2> DEFINE A == {<<"Item", i>> : i \in Item}
             B == {"Item", "ResourceReservation", "ReservationAllocation", "WarehouseStock"}
                    \X (Item \union Reservation \union RowIds)
             M == {"key share", "for update"}
             N == {"for update", "update", "key share"}
  <2>3. A \subseteq B /\ M \subseteq N
    BY <2>1, <2>2
  <2>4. ItemLocks = [row : A, mode : M] /\ Locks = [row : B, mode : N]
    BY DEF ItemLocks, Locks
  <2> HIDE DEF A, B, M, N
  <2> QED BY <2>3, <2>4
<1>2. ASSUME NEW s \in Copies
      PROVE  s \in Seq(ItemLocks) /\ Len(s) \in Nat /\ \A n \in 1..Len(s) : s[n] \in ItemLocks
  <2>1. PICK n \in 0..2 * MaxLines : s \in [1..n -> ItemLocks]
    BY DEF Copies, SeqOf
  <2>2. n \in Nat
    BY <2>1, ItemsNumbered
  <2>3. s \in Seq(ItemLocks) /\ Len(s) = n
    BY <2>1, <2>2, ListIs
  <2> QED BY <2>1, <2>2, <2>3
<1> QED BY <1>1, <1>2

LEMMA ScriptsTyped ==
  ASSUME NEW op \in Operation, NEW s \in ScriptsOf(op)
  PROVE  s \in Seq(Locks) /\ Len(s) \in Nat
<1>1. s \in Seq(Locks)
  <2>1. CASE op = "approve"
    <3>1. PICK r \in Reservation : s = Approve(r)
      BY <2>1 DEF ScriptsOf
    <3>2. OnItem(r, "for update") \in Locks /\ OnSelf(r, "for update") \in Locks /\ Shelf(r) \in Locks
      BY LocksTyped
    <3> QED BY <3>1, <3>2, Three DEF Approve
  <2>2. CASE op \in {"file", "accept"}
    <3>1. PICK r \in Reservation : s \in {FileReturn(r), Accept(r)}
      BY <2>2 DEF ScriptsOf
    <3>2. OnSelf(r, "for update") \in Locks /\ OnSelf(r, "update") \in Locks
      BY LocksTyped
    <3> QED BY <3>1, <3>2, One DEF FileReturn, Accept
  <2>3. CASE op \in {"receive", "reclaim"}
    <3>1. PICK r \in Reservation : s \in {Receive(r), Reclaim(r)}
      BY <2>3 DEF ScriptsOf
    <3> QED BY <3>1, ReceiveIs, ReclaimIs
  <2>4. CASE op \in {"release", "handBack"}
    <3>1. PICK r \in Reservation : \E i \in ToSet(RowsOf[r]) : s \in {Release(r, i), HandBack(r, i)}
      BY <2>4 DEF ScriptsOf
    <3> QED BY <3>1, ReleaseIs, HandBackIs
  <2>5. CASE op = "close"
    <3>1. PICK r \in Reservation : \E f \in SetToSeqs(ToSet(RowsOf[r])) : s = Close(r, f)
      BY <2>5 DEF ScriptsOf
    <3> QED BY <3>1, CloseTyped
  <2>6. CASE op \in {"toSub", "toMain"}
    <3>1. PICK d \in Documents : s \in {ToSub(d), ToMain(d)}
      BY <2>6 DEF ScriptsOf
    <3>2. EachItem(d, "key share") \in Seq(Locks) /\ InTurn(d, "Item", "WarehouseStock") \in Seq(Locks)
          /\ InTurn(d, "WarehouseStock", "Item") \in Seq(Locks)
      BY DocumentsTyped
    <3> QED BY <3>1, <3>2, ConcatProperties DEF ToSub, ToMain, Lines
  <2>7. CASE op = "create"
    <3>1. PICK d \in Documents : s = Create(d)
      BY <2>7 DEF ScriptsOf
    <3> QED BY <3>1, DocumentsTyped DEF Create
  <2>8. CASE op = "copy"
    <3>1. s \in Copies
      BY <2>8 DEF ScriptsOf
    <3>2. s \in Seq(ItemLocks) /\ ItemLocks \subseteq Locks
      BY <3>1, CopiesLockItems
    <3> QED BY <3>2
  <2> QED BY <2>1, <2>2, <2>3, <2>4, <2>5, <2>6, <2>7, <2>8 DEF Operation
<1> QED BY <1>1, LenProperties

-----------------------------------------------------------------------------
(* The locks held are of the scripts, and exclude each other.              *)
Types ==
  /\ doing \in [Handler -> Operation \union {None}]
  /\ todo \in [Handler -> Seq(Locks)] /\ held \in [Handler -> SUBSET Locks]
  /\ TypeOK

Apart ==
  \A g, h \in Handler : g # h =>
    \A l \in held[g], m \in held[h] : l.row = m.row => ~Conflicts(l.mode, m.mode)

(* What a transaction that has taken n locks of its script wants next.     *)
LEMMA WantsNext ==
  ASSUME NEW h \in Handler, NEW s \in Seq(Locks), NEW n \in 0..Len(s), HasTaken(h, s, n), Wants(h)
  PROVE  /\ n + 1 \in 1..Len(s) /\ Head(todo[h]) = s[n + 1]
         /\ Tail(todo[h]) = SubSeq(s, (n + 1) + 1, Len(s))
<1>1. Len(s) \in Nat
  BY LenProperties
<1>2. n + 1 <= Len(s)
  <2>1. CASE Len(s) < n + 1
    <3>1. SubSeq(s, n + 1, Len(s)) = <<>>
      BY <1>1, <2>1, SubSeqEmpty
    <3> QED BY <3>1 DEF HasTaken, Wants
  <2> QED BY <1>1, <2>1
<1>3. n + 1 \in 1..Len(s) /\ Len(s) \in n + 1..Len(s)
  BY <1>1, <1>2
<1> QED BY <1>3, HeadTailOfSubSeq DEF HasTaken

LEMMA TypesStart == Init => Types /\ Apart
<1> SUFFICES ASSUME Init PROVE Types /\ Apart
  OBVIOUS
<1>1. doing \in [Handler -> Operation \union {None}] /\ \A h \in Handler : doing[h] = None
  BY DEF Init
<1>2. todo \in [Handler -> Seq(Locks)] /\ held \in [Handler -> SUBSET Locks]
      /\ \A h \in Handler : todo[h] = <<>> /\ held[h] = {}
  BY EmptySeq DEF Init
<1> QED BY <1>1, <1>2 DEF Types, TypeOK, Apart

LEMMA TypesKept == Types /\ Apart /\ [Next]_vars => Types' /\ Apart'
<1> SUFFICES ASSUME Types, Apart, [Next]_vars PROVE Types' /\ Apart'
  OBVIOUS
<1>1. CASE UNCHANGED vars
  BY <1>1 DEF vars, Types, TypeOK, HasTaken, Apart
<1>2. ASSUME NEW h \in Handler, Begin(h) PROVE Types' /\ Apart'
  <2>1. PICK op \in Ops : \E s \in ScriptsOf(op) :
          doing' = [doing EXCEPT ![h] = op] /\ todo' = [todo EXCEPT ![h] = s]
    BY <1>2 DEF Begin
  <2>2. PICK s \in ScriptsOf(op) : doing' = [doing EXCEPT ![h] = op] /\ todo' = [todo EXCEPT ![h] = s]
    BY <2>1
  <2>3. op \in Operation /\ op # None /\ s \in Seq(Locks) /\ Len(s) \in Nat
    BY OpsNamed, ScriptsTyped
  <2>4. held' = held /\ held[h] = {}
    BY <1>2 DEF Begin, Types, TypeOK
  <2>5. doing' \in [Handler -> Operation \union {None}] /\ todo' \in [Handler -> Seq(Locks)]
        /\ held' \in [Handler -> SUBSET Locks]
    BY <2>2, <2>3, <2>4 DEF Types
  <2>6. doing'[h] = op /\ todo'[h] = s
    BY <2>2 DEF Types
  <2>7. \A g \in Handler \ {h} : doing'[g] = doing[g] /\ todo'[g] = todo[g] /\ held'[g] = held[g]
    BY <2>2, <2>4 DEF Types
  <2>8. 0 \in 0..Len(s) /\ HasTaken(h, s, 0)'
    <3>1. SubSeq(s, 1, Len(s)) = s
      BY <2>3, SubSeqFull
    <3>2. {s[k] : k \in 1..0} = {} /\ 0 + 1 = 1
      OBVIOUS
    <3> QED BY <2>3, <2>4, <2>6, <3>1, <3>2 DEF HasTaken
  <2>9. TypeOK'
    <3> SUFFICES ASSUME NEW g \in Handler
                 PROVE  IF doing'[g] = None THEN todo'[g] = <<>> /\ held'[g] = {}
                        ELSE \E z \in ScriptsOf(doing'[g]) : \E n \in 0..Len(z) : HasTaken(g, z, n)'
      BY DEF TypeOK
    <3>1. CASE g = h
      BY <2>2, <2>3, <2>6, <2>8, <3>1
    <3>2. CASE g # h
      <4>1. doing'[g] = doing[g] /\ todo'[g] = todo[g] /\ held'[g] = held[g]
        BY <2>7, <3>2
      <4>2. \A z, n : HasTaken(g, z, n) => HasTaken(g, z, n)'
        BY <4>1 DEF HasTaken
      <4>3. IF doing[g] = None THEN todo[g] = <<>> /\ held[g] = {}
            ELSE \E z \in ScriptsOf(doing[g]) : \E n \in 0..Len(z) : HasTaken(g, z, n)
        BY DEF Types, TypeOK
      <4> QED BY <4>1, <4>2, <4>3
    <3> QED BY <3>1, <3>2
  <2> QED BY <2>4, <2>5, <2>9 DEF Types, Apart
<1>3. ASSUME NEW h \in Handler, Acquire(h) PROVE Types' /\ Apart'
  <2>1. doing[h] # None
    BY <1>3 DEF Acquire, Wants, Types, TypeOK
  <2>2. PICK s \in ScriptsOf(doing[h]) : \E n \in 0..Len(s) : HasTaken(h, s, n)
    BY <2>1 DEF Types, TypeOK
  <2>3. PICK n \in 0..Len(s) : HasTaken(h, s, n)
    BY <2>2
  <2>4. s \in Seq(Locks) /\ Len(s) \in Nat
    BY <2>1, ScriptsTyped DEF Types
  <2>5. /\ n + 1 \in 1..Len(s) /\ Head(todo[h]) = s[n + 1]
        /\ Tail(todo[h]) = SubSeq(s, (n + 1) + 1, Len(s))
    BY <1>3, <2>3, <2>4, WantsNext DEF Acquire
  <2>6. s[n + 1] \in Locks /\ Tail(todo[h]) \in Seq(Locks)
    <3>1. s[n + 1] \in Locks
      BY <2>4, <2>5, ElementOfSeq
    <3>2. todo[h] \in Seq(Locks) /\ todo[h] # <<>>
      BY <1>3 DEF Acquire, Wants, Types
    <3> QED BY <3>1, <3>2, HeadTailProperties
  <2>7. doing' = doing /\ todo' = [todo EXCEPT ![h] = Tail(todo[h])]
        /\ held' = [held EXCEPT ![h] = held[h] \union {s[n + 1]}]
    BY <1>3, <2>5 DEF Acquire
  <2>8. doing' \in [Handler -> Operation \union {None}] /\ todo' \in [Handler -> Seq(Locks)]
        /\ held' \in [Handler -> SUBSET Locks]
    <3>1. held[h] \union {s[n + 1]} \in SUBSET Locks
      BY <2>6 DEF Types
    <3> QED BY <2>6, <2>7, <3>1 DEF Types
  <2>9. todo'[h] = Tail(todo[h]) /\ held'[h] = held[h] \union {s[n + 1]}
    BY <2>7 DEF Types
  <2>10. \A g \in Handler \ {h} : todo'[g] = todo[g] /\ held'[g] = held[g]
    BY <2>7 DEF Types
  <2>11. HasTaken(h, s, n + 1)'
    <3>1. {s[k] : k \in 1..n + 1} = {s[k] : k \in 1..n} \union {s[n + 1]}
      <4>1. 1..n + 1 = (1..n) \union {n + 1}
        BY <2>4
      <4> QED BY <4>1
    <3> QED BY <2>3, <2>5, <2>9, <3>1 DEF HasTaken
  <2>12. TypeOK'
    <3> SUFFICES ASSUME NEW g \in Handler
                 PROVE  IF doing'[g] = None THEN todo'[g] = <<>> /\ held'[g] = {}
                        ELSE \E z \in ScriptsOf(doing'[g]) : \E m \in 0..Len(z) : HasTaken(g, z, m)'
      BY DEF TypeOK
    <3>1. CASE g = h
      <4>1. n + 1 \in 0..Len(s)
        BY <2>4, <2>5
      <4> QED BY <2>1, <2>7, <2>11, <3>1, <4>1
    <3>2. CASE g # h
      BY <2>7, <2>10, <3>2 DEF Types, TypeOK, HasTaken
    <3> QED BY <3>1, <3>2
  <2>13. \A g \in Handler \ {h} : \A l \in held[g] : l.row = s[n + 1].row =>
           ~Conflicts(l.mode, s[n + 1].mode) /\ ~Conflicts(s[n + 1].mode, l.mode)
    BY <1>3, <2>5 DEF Acquire, Blocks, Conflicts
  <2>14. Apart'
    <3> SUFFICES ASSUME NEW f \in Handler, NEW g \in Handler, f # g,
                        NEW l \in held'[f], NEW m \in held'[g], l.row = m.row
                 PROVE  ~Conflicts(l.mode, m.mode)
      BY DEF Apart
    <3>1. CASE f = h /\ l = s[n + 1]
      BY <2>10, <2>13, <3>1
    <3>2. CASE g = h /\ m = s[n + 1]
      BY <2>10, <2>13, <3>2
    <3>3. CASE l \in held[f] /\ m \in held[g]
      BY <3>3 DEF Apart
    <3> QED BY <2>9, <2>10, <3>1, <3>2, <3>3
  <2> QED BY <2>8, <2>12, <2>14 DEF Types
<1>4. ASSUME NEW h \in Handler, End(h) PROVE Types' /\ Apart'
  <2>1. doing' \in [Handler -> Operation \union {None}] /\ todo' \in [Handler -> Seq(Locks)]
        /\ held' \in [Handler -> SUBSET Locks]
    <3>1. <<>> \in Seq(Locks)
      BY EmptySeq
    <3> QED BY <1>4, <3>1 DEF End, Types
  <2>2. doing'[h] = None /\ todo'[h] = <<>> /\ held'[h] = {}
    BY <1>4 DEF End, Types
  <2>3. \A g \in Handler \ {h} : doing'[g] = doing[g] /\ todo'[g] = todo[g] /\ held'[g] = held[g]
    BY <1>4 DEF End, Types
  <2>4. TypeOK'
    <3> SUFFICES ASSUME NEW g \in Handler
                 PROVE  IF doing'[g] = None THEN todo'[g] = <<>> /\ held'[g] = {}
                        ELSE \E z \in ScriptsOf(doing'[g]) : \E n \in 0..Len(z) : HasTaken(g, z, n)'
      BY DEF TypeOK
    <3>1. CASE g = h
      BY <2>2, <3>1
    <3>2. CASE g # h
      <4>1. doing'[g] = doing[g] /\ todo'[g] = todo[g] /\ held'[g] = held[g]
        BY <2>3, <3>2
      <4>2. \A z, n : HasTaken(g, z, n) => HasTaken(g, z, n)'
        BY <4>1 DEF HasTaken
      <4>3. IF doing[g] = None THEN todo[g] = <<>> /\ held[g] = {}
            ELSE \E z \in ScriptsOf(doing[g]) : \E n \in 0..Len(z) : HasTaken(g, z, n)
        BY DEF Types, TypeOK
      <4> QED BY <4>1, <4>2, <4>3
    <3> QED BY <3>1, <3>2
  <2>5. Apart'
    BY <2>2, <2>3 DEF Apart
  <2> QED BY <2>1, <2>4, <2>5 DEF Types
<1> QED BY <1>1, <1>2, <1>3, <1>4 DEF Next, Commit, RollBack, Kill

-----------------------------------------------------------------------------
(* What an operation that gives back holds when it wants another lock: the *)
(* request, rows from the newest, the shelf, the item, and last the        *)
(* request again.                                                          *)
Gives == {"receive", "reclaim", "release", "handBack"}

Alloc(r, p) == Lock("ReservationAllocation", RowsOf[r][p], "update")
OfRequest(op, r, l) == l = OnSelf(r, IF op = "receive" THEN "for update" ELSE "key share")
OfRows(r, l, p) == \E q \in p..Len(RowsOf[r]) : l = Alloc(r, q)

Follows(op, r, l, w) ==
  \/ /\ op # "receive" /\ w \in {OnSelf(r, "key share"), OnSelf(r, "update")}
     /\ OfRequest(op, r, l) \/ OfRows(r, l, 1) \/ l \in {Shelf(r), OnItem(r, "key share")}
  \/ \E p \in 1..Len(RowsOf[r]) : w = Alloc(r, p) /\ (OfRequest(op, r, l) \/ OfRows(r, l, p + 1))
  \/ w = Shelf(r) /\ (OfRequest(op, r, l) \/ OfRows(r, l, 1))
  \/ w = OnItem(r, "key share") /\ (OfRequest(op, r, l) \/ OfRows(r, l, 1) \/ l = Shelf(r))

LEMMA ReceiveFollows ==
  ASSUME NEW r \in Reservation, NEW n \in 1..Len(Receive(r)) - 1, NEW j \in 1..n
  PROVE  Follows("receive", r, Receive(r)[j], Receive(r)[n + 1])
<1> DEFINE s == Receive(r)
           m == Len(RowsOf[r])
<1>1. /\ m \in Nat /\ Len(s) = m + 3 /\ s[1] = OnSelf(r, "for update")
      /\ \A k \in 1..m : s[k + 1] = Alloc(r, (m - k) + 1)
      /\ s[m + 2] = Shelf(r) /\ s[m + 3] = OnItem(r, "key share")
  BY ReceiveIs DEF Alloc
<1>0. m \in Nat
  BY <1>1
<1>11. Len(s) = m + 3
  BY <1>1
<1>9. Len(s) - 1 = m + 2
  BY <1>0, <1>11
<1>4. n \in 1..m + 2 /\ n \in Int /\ n >= 1 /\ n <= m + 2 /\ j \in Int /\ j >= 1 /\ j <= n
  <2>1. n \in 1..m + 2 /\ j \in 1..n
    BY <1>9 DEF s
  <2> QED BY <1>0, <2>1
<1> HIDE DEF s, m
<1>2. \A k \in 2..m + 1 : s[k] = Alloc(r, m - k + 2)
  <2> SUFFICES ASSUME NEW k \in 2..m + 1 PROVE s[k] = Alloc(r, m - k + 2)
    OBVIOUS
  <2>1. k - 1 \in 1..m /\ (k - 1) + 1 = k /\ (m - (k - 1)) + 1 = m - k + 2
    BY <1>0
  <2> QED BY <1>1, <2>1
<1>3. OfRequest("receive", r, s[1])
  BY <1>1 DEF OfRequest
<1> SUFFICES Follows("receive", r, s[j], s[n + 1])
  BY DEF s
<1>5. CASE n <= m
  <2>1. m - n + 1 \in 1..m /\ s[n + 1] = Alloc(r, m - n + 1)
    <3>1. n + 1 \in 2..m + 1 /\ m - (n + 1) + 2 = m - n + 1 /\ m - n + 1 \in 1..m
      BY <1>0, <1>4, <1>5
    <3> QED BY <1>2, <3>1
  <2>2. CASE j = 1
    BY <1>3, <2>1, <2>2 DEF Follows, m
  <2>3. CASE j > 1
    <3>1. j \in 2..m + 1 /\ m - j + 2 \in (m - n + 1) + 1..m
      BY <1>0, <1>4, <1>5, <2>3
    <3> QED BY <1>2, <2>1, <3>1 DEF Follows, OfRows, m
  <2> QED BY <1>4, <2>2, <2>3
<1>6. \A k \in 2..m + 1 : OfRows(r, s[k], 1)
  <2> SUFFICES ASSUME NEW k \in 2..m + 1 PROVE OfRows(r, s[k], 1)
    OBVIOUS
  <2>1. m - k + 2 \in 1..m
    BY <1>0
  <2> QED BY <1>2, <2>1 DEF OfRows, m
<1>7. CASE n = m + 1
  <2>1. s[n + 1] = Shelf(r)
    <3>1. n + 1 = m + 2
      BY <1>0, <1>7
    <3> QED BY <1>1, <3>1
  <2>2. j = 1 \/ j \in 2..m + 1
    BY <1>0, <1>4, <1>7
  <2> QED BY <1>3, <1>6, <2>1, <2>2 DEF Follows, m
<1>8. CASE n = m + 2
  <2>1. s[n + 1] = OnItem(r, "key share")
    <3>1. n + 1 = m + 3
      BY <1>0, <1>8
    <3> QED BY <1>1, <3>1
  <2>2. j = 1 \/ j \in 2..m + 1 \/ j = m + 2
    BY <1>0, <1>4, <1>8
  <2> QED BY <1>1, <1>3, <1>6, <2>1, <2>2 DEF Follows, m
<1> QED BY <1>0, <1>4, <1>5, <1>7, <1>8

LEMMA ReclaimFollows ==
  ASSUME NEW r \in Reservation, NEW n \in 1..Len(Reclaim(r)) - 1, NEW j \in 1..n
  PROVE  Follows("reclaim", r, Reclaim(r)[j], Reclaim(r)[n + 1])
<1> DEFINE s == Reclaim(r)
           m == Len(RowsOf[r])
<1>1. /\ m \in Nat /\ Len(s) = m + 4
      /\ \A k \in 1..m : s[k] = Alloc(r, (m - k) + 1)
      /\ s[m + 1] = OnSelf(r, "key share") /\ s[m + 2] = Shelf(r)
      /\ s[m + 3] = OnItem(r, "key share") /\ s[m + 4] = OnSelf(r, "update")
  BY ReclaimIs DEF Alloc
<1>0. m \in Nat
  BY <1>1
<1>11. Len(s) = m + 4
  BY <1>1
<1>10. Len(s) - 1 = m + 3
  BY <1>0, <1>11
<1>2. n \in 1..m + 3 /\ n \in Int /\ n >= 1 /\ n <= m + 3 /\ j \in Int /\ j >= 1 /\ j <= n
  <2>1. n \in 1..m + 3 /\ j \in 1..n
    BY <1>10 DEF s
  <2> QED BY <1>0, <2>1
<1> HIDE DEF s, m
<1> SUFFICES Follows("reclaim", r, s[j], s[n + 1])
  BY DEF s
<1>3. \A k \in 1..m : OfRows(r, s[k], 1)
  <2> SUFFICES ASSUME NEW k \in 1..m PROVE OfRows(r, s[k], 1)
    OBVIOUS
  <2>1. (m - k) + 1 \in 1..m
    BY <1>0
  <2> QED BY <1>1, <2>1 DEF OfRows, m
<1>4. OfRequest("reclaim", r, s[m + 1])
  BY <1>1 DEF OfRequest
<1>5. CASE n < m
  <2>1. n + 1 \in 1..m /\ (m - (n + 1)) + 1 = m - n /\ m - n \in 1..m /\ j \in 1..m /\ (m - j) + 1 \in (m - n) + 1..m
    BY <1>0, <1>2, <1>5
  <2>2. s[n + 1] = Alloc(r, m - n) /\ OfRows(r, s[j], (m - n) + 1)
    BY <1>1, <2>1 DEF OfRows, m
  <2> QED BY <2>1, <2>2 DEF Follows, m
<1>6. CASE n = m
  <2>0. j \in 1..m
    BY <1>0, <1>2, <1>6
  <2>1. j \in 1..m /\ s[n + 1] = OnSelf(r, "key share")
    BY <2>0, <1>1, <1>6
  <2> QED BY <1>3, <2>1 DEF Follows, m
<1>7. CASE n = m + 1
  <2>1. n + 1 = m + 2 /\ (j \in 1..m \/ j = m + 1)
    BY <1>0, <1>2, <1>7
  <2> QED BY <1>1, <1>3, <1>4, <2>1 DEF Follows, m
<1>8. CASE n = m + 2
  <2>1. n + 1 = m + 3 /\ (j \in 1..m \/ j = m + 1 \/ j = m + 2)
    BY <1>0, <1>2, <1>8
  <2> QED BY <1>1, <1>3, <1>4, <2>1 DEF Follows, m
<1>9. CASE n = m + 3
  <2>1. n + 1 = m + 4 /\ (j \in 1..m \/ j = m + 1 \/ j = m + 2 \/ j = m + 3)
    BY <1>0, <1>2, <1>9
  <2> QED BY <1>1, <1>3, <1>4, <2>1 DEF Follows, m
<1> QED BY <1>0, <1>2, <1>5, <1>6, <1>7, <1>8, <1>9

LEMMA OneRowFollows ==
  ASSUME NEW r \in Reservation, NEW i \in ToSet(RowsOf[r]), NEW op \in {"release", "handBack"},
         NEW s, s = IF op = "release" THEN Release(r, i) ELSE HandBack(r, i),
         NEW n \in 1..Len(s) - 1, NEW j \in 1..n
  PROVE  Follows(op, r, s[j], s[n + 1])
<1>1. Len(s) = 5 /\ s[1] = Lock("ReservationAllocation", i, "update")
      /\ IF op = "release" THEN s[2] = OnSelf(r, "key share") /\ s[3] = Shelf(r)
                                 /\ s[4] = OnItem(r, "key share") /\ s[5] = OnSelf(r, "update")
                            ELSE s[2] = Shelf(r) /\ s[3] = OnItem(r, "key share")
                                 /\ s[4] = OnSelf(r, "key share") /\ s[5] = OnSelf(r, "update")
  BY ReleaseIs, HandBackIs
<1>2. OfRows(r, s[1], 1)
  <2>1. PICK p \in 1..Len(RowsOf[r]) : RowsOf[r][p] = i
    BY RowsGiven DEF ToSet
  <2> QED BY <1>1, <2>1 DEF OfRows, Alloc
<1>3. \A l : l = OnSelf(r, "key share") => OfRequest(op, r, l)
  BY DEF OfRequest
<1>8. n \in 1..4
  <2>2. Len(s) = 5
    BY <1>1
  <2>1. Len(s) - 1 = 4
    BY <2>2
  <2> QED BY <2>1
<1>4. (n = 1 /\ j = 1) \/ (n = 2 /\ j \in {1, 2}) \/ (n = 3 /\ j \in {1, 2, 3}) \/ (n = 4 /\ j \in {1, 2, 3, 4})
  BY <1>8
<1>5. op # "receive"
  OBVIOUS
<1>6. CASE op = "release"
  <2>1. s[2] = OnSelf(r, "key share") /\ s[3] = Shelf(r) /\ s[4] = OnItem(r, "key share") /\ s[5] = OnSelf(r, "update")
        /\ OfRequest(op, r, s[2])
    BY <1>1, <1>3, <1>6
  <2>2. CASE n = 1
    <3> n + 1 = 2 /\ (j = 1)
      BY <1>4, <2>2
    <3> QED BY <1>2, <1>4, <1>5, <2>1, <2>2 DEF Follows
  <2>3. CASE n = 2
    <3> n + 1 = 3 /\ (j = 1 \/ j = 2)
      BY <1>4, <2>3
    <3> QED BY <1>2, <1>4, <2>1, <2>3 DEF Follows
  <2>4. CASE n = 3
    <3> n + 1 = 4 /\ (j = 1 \/ j = 2 \/ j = 3)
      BY <1>4, <2>4
    <3> QED BY <1>2, <1>4, <2>1, <2>4 DEF Follows
  <2>5. CASE n = 4
    <3> n + 1 = 5 /\ (j = 1 \/ j = 2 \/ j = 3 \/ j = 4)
      BY <1>4, <2>5
    <3> QED BY <1>2, <1>4, <1>5, <2>1, <2>5 DEF Follows
  <2> QED BY <1>4, <2>2, <2>3, <2>4, <2>5
<1>7. CASE op = "handBack"
  <2>1. s[2] = Shelf(r) /\ s[3] = OnItem(r, "key share") /\ s[4] = OnSelf(r, "key share") /\ s[5] = OnSelf(r, "update")
        /\ OfRequest(op, r, s[4])
    BY <1>1, <1>3, <1>7
  <2>2. CASE n = 1
    <3> n + 1 = 2 /\ (j = 1)
      BY <1>4, <2>2
    <3> QED BY <1>2, <1>4, <2>1, <2>2 DEF Follows
  <2>3. CASE n = 2
    <3> n + 1 = 3 /\ (j = 1 \/ j = 2)
      BY <1>4, <2>3
    <3> QED BY <1>2, <1>4, <2>1, <2>3 DEF Follows
  <2>4. CASE n = 3
    <3> n + 1 = 4 /\ (j = 1 \/ j = 2 \/ j = 3)
      BY <1>4, <2>4
    <3> QED BY <1>2, <1>4, <1>5, <2>1, <2>4 DEF Follows
  <2>5. CASE n = 4
    <3> n + 1 = 5 /\ (j = 1 \/ j = 2 \/ j = 3 \/ j = 4)
      BY <1>4, <2>5
    <3> QED BY <1>2, <1>4, <1>5, <2>1, <2>5 DEF Follows
  <2> QED BY <1>4, <2>2, <2>3, <2>4, <2>5
<1> QED BY <1>6, <1>7

-----------------------------------------------------------------------------
(* A transaction that holds something and wants more, where nobody locks   *)
(* in an order of the moment.                                              *)
Measures(h) ==
  \E r \in Reservation :
    \/ held[h] = {OnItem(r, "for update")} /\ Head(todo[h]) = OnSelf(r, "for update")
    \/ held[h] = {OnItem(r, "for update"), OnSelf(r, "for update")} /\ Head(todo[h]) = Shelf(r)

CopyStands(h) == Head(todo[h]) \in ItemLocks /\ held[h] \subseteq ItemLocks

GivesBack(h, r) == doing[h] \in Gives /\ \A l \in held[h] : Follows(doing[h], r, l, Head(todo[h]))

LEMMA StandsBetween ==
  ASSUME Types, NEW h \in Handler, Wants(h), held[h] # {}, doing[h] \notin InAnyOrder
  PROVE  \/ doing[h] = "approve" /\ Measures(h)
         \/ doing[h] = "copy" /\ CopyStands(h)
         \/ \E r \in Reservation : GivesBack(h, r)
<1>1. doing[h] # None /\ doing[h] \in Operation
  BY DEF Types, TypeOK, Wants
<1>2. PICK s \in ScriptsOf(doing[h]) : \E n \in 0..Len(s) : HasTaken(h, s, n)
  BY <1>1 DEF Types, TypeOK
<1>3. PICK n \in 0..Len(s) : HasTaken(h, s, n)
  BY <1>2
<1>4. s \in Seq(Locks) /\ Len(s) \in Nat
  BY <1>1, ScriptsTyped
<1>5. n + 1 \in 1..Len(s) /\ Head(todo[h]) = s[n + 1] /\ held[h] = {s[k] : k \in 1..n}
  BY <1>3, <1>4, WantsNext DEF HasTaken
<1>6. n \in 1..Len(s) - 1
  <2>1. n # 0
    <3> SUFFICES ASSUME n = 0 PROVE FALSE
      OBVIOUS
    <3>1. 1..n = {}
      OBVIOUS
    <3> QED BY <1>5, <3>1
  <2> QED BY <1>4, <1>5, <2>1
<1>7. n \in Nat /\ n >= 1 /\ n + 1 <= Len(s)
  BY <1>4, <1>6
<1>8. CASE doing[h] = "approve"
  <2>1. PICK r \in Reservation : s = Approve(r)
    BY <1>2, <1>8 DEF ScriptsOf
  <2>2. Len(s) = 3 /\ s[1] = OnItem(r, "for update") /\ s[2] = OnSelf(r, "for update") /\ s[3] = Shelf(r)
    BY <2>1 DEF Approve
  <2>6. Len(s) = 3
    BY <2>2
  <2>3. n = 1 \/ n = 2
    BY <1>7, <2>6
  <2>4. CASE n = 1
    <3>1. held[h] = {s[1]} /\ Head(todo[h]) = s[2]
      <4>1. 1..1 = {1} /\ n + 1 = 2
        BY <2>4
      <4> QED BY <1>5, <2>4, <4>1
    <3> QED BY <1>8, <2>2, <3>1 DEF Measures
  <2>5. CASE n = 2
    <3>1. held[h] = {s[1], s[2]} /\ Head(todo[h]) = s[3]
      <4>1. 1..2 = {1, 2} /\ n + 1 = 3
        BY <2>5
      <4> QED BY <1>5, <2>5, <4>1
    <3> QED BY <1>8, <2>2, <3>1 DEF Measures
  <2> QED BY <2>3, <2>4, <2>5
<1>9. CASE doing[h] \in {"file", "accept"}
  <2>1. PICK r \in Reservation : s \in {FileReturn(r), Accept(r)}
    BY <1>2, <1>9 DEF ScriptsOf
  <2>3. OnSelf(r, "for update") \in Locks /\ OnSelf(r, "update") \in Locks
    BY LocksTyped
  <2>2. Len(s) = 1
    BY <2>1, <2>3, One DEF FileReturn, Accept
  <2> QED BY <1>7, <2>2
<1>10. CASE doing[h] = "copy"
  <2>1. s \in Copies
    BY <1>2, <1>10 DEF ScriptsOf
  <2>2. \A k \in 1..Len(s) : s[k] \in ItemLocks
    BY <2>1, CopiesLockItems
  <2>3. \A k \in 1..n : k \in 1..Len(s)
    BY <1>4, <1>7
  <2>4. \A k \in 1..n : s[k] \in ItemLocks
    BY <2>2, <2>3
  <2> QED BY <1>5, <1>10, <2>2, <2>4 DEF CopyStands
<1>11. CASE doing[h] = "receive"
  <2>1. PICK r \in Reservation : s = Receive(r)
    BY <1>2, <1>11 DEF ScriptsOf
  <2>2. \A j \in 1..n : Follows("receive", r, s[j], s[n + 1])
    BY <1>6, <2>1, ReceiveFollows
  <2> QED BY <1>5, <1>11, <2>2 DEF GivesBack, Gives
<1>12. CASE doing[h] = "reclaim"
  <2>1. PICK r \in Reservation : s = Reclaim(r)
    BY <1>2, <1>12 DEF ScriptsOf
  <2>2. \A j \in 1..n : Follows("reclaim", r, s[j], s[n + 1])
    BY <1>6, <2>1, ReclaimFollows
  <2> QED BY <1>5, <1>12, <2>2 DEF GivesBack, Gives
<1>13. CASE doing[h] \in {"release", "handBack"}
  <2>1. PICK r \in Reservation : \E i \in ToSet(RowsOf[r]) :
          s = IF doing[h] = "release" THEN Release(r, i) ELSE HandBack(r, i)
    BY <1>2, <1>13 DEF ScriptsOf
  <2>2. \A j \in 1..n : Follows(doing[h], r, s[j], s[n + 1])
    BY <1>6, <1>13, <2>1, OneRowFollows
  <2> QED BY <1>5, <1>13, <2>2 DEF GivesBack, Gives
<1> QED BY <1>1, <1>8, <1>9, <1>10, <1>11, <1>12, <1>13 DEF Operation, InAnyOrder

-----------------------------------------------------------------------------
(* The order in which the rest of them lock: rows of a reservation from    *)
(* the newest to the oldest, shelves, items.                               *)
Age(x) == CHOOSE p \in Nat : \E r \in Reservation : p \in 1..Len(RowsOf[r]) /\ RowsOf[r][p] = x

Rank(w) ==
  IF w.row[1] = "Item" THEN 0
  ELSE IF w.row[1] = "WarehouseStock" THEN 1
  ELSE 1 + Age(w.row[2])

LEMMA AgeIs ==
  ASSUME NEW r \in Reservation, NEW p \in 1..Len(RowsOf[r])
  PROVE  Age(RowsOf[r][p]) = p /\ p \in Nat /\ p >= 1
<1>1. Len(RowsOf[r]) \in Nat
  BY RowsGiven
<1>2. p \in Nat /\ p >= 1
  BY <1>1
<1>3. ASSUME NEW q \in Nat, NEW z \in Reservation, q \in 1..Len(RowsOf[z]), RowsOf[z][q] = RowsOf[r][p]
      PROVE  q = p
  <2>1. RowsOf[z][q] \in ToSet(RowsOf[z]) /\ RowsOf[r][p] \in ToSet(RowsOf[r])
    BY <1>3, RowsGiven
  <2>2. z = r
    BY <1>3, <2>1, RowsApart
  <2> QED BY <1>3, <2>2, RowsGiven
<1>4. \E q \in Nat : \E z \in Reservation : q \in 1..Len(RowsOf[z]) /\ RowsOf[z][q] = RowsOf[r][p]
  BY <1>2
<1> QED BY <1>2, <1>3, <1>4 DEF Age

-----------------------------------------------------------------------------
(* The tables and rows of the locks.                                       *)
LEMMA Named ==
  ASSUME NEW r \in Reservation
  PROVE  /\ ItemOf[r] \in Item
         /\ \A m : OnItem(r, m).row = <<"Item", ItemOf[r]>> /\ OnItem(r, m).mode = m
         /\ \A m : OnSelf(r, m).row = <<"ResourceReservation", r>> /\ OnSelf(r, m).mode = m
         /\ \A p : Alloc(r, p).row = <<"ReservationAllocation", RowsOf[r][p]>> /\ Alloc(r, p).mode = "update"
         /\ Shelf(r).mode = "update"
         /\ Shelf(r).row \in {<<"WarehouseStock", ItemOf[r]>>, <<"Item", ItemOf[r]>>}
  BY ReservationsGiven DEF OnItem, OnSelf, Alloc, Shelf, Lock

(* What such a transaction holds tells what it wants.                      *)
OfSelf(r, op, w) == op # "receive" /\ w \in {OnSelf(r, "key share"), OnSelf(r, "update")}

LEMMA HoldsOnly ==
  ASSUME NEW r \in Reservation, NEW op, NEW l, NEW w, Follows(op, r, l, w), ~OfSelf(r, op, w)
  PROVE  \/ /\ l.row = <<"ResourceReservation", r>>
            /\ l.mode = IF op = "receive" THEN "for update" ELSE "key share"
         \/ \E q \in 1..Len(RowsOf[r]) :
              /\ l = Alloc(r, q)
              /\ \/ \E p \in 1..Len(RowsOf[r]) : w = Alloc(r, p) /\ p < q
                 \/ w \in {Shelf(r), OnItem(r, "key share")}
         \/ l = Shelf(r) /\ w = OnItem(r, "key share")
<1>1. Len(RowsOf[r]) \in Nat
  BY RowsGiven
<1>2. OfRequest(op, r, l) => l.row = <<"ResourceReservation", r>>
                             /\ l.mode = IF op = "receive" THEN "for update" ELSE "key share"
  <2> DEFINE m == IF op = "receive" THEN "for update" ELSE "key share"
  <2>1. OfRequest(op, r, l) => l = OnSelf(r, m)
    BY DEF OfRequest
  <2>2. OnSelf(r, m).row = <<"ResourceReservation", r>> /\ OnSelf(r, m).mode = m
    <3> HIDE DEF m
    <3> QED BY Named
  <2> HIDE DEF m
  <2>3. OfRequest(op, r, l) => l.row = <<"ResourceReservation", r>> /\ l.mode = m
    BY <2>1, <2>2
  <2> QED BY <2>3 DEF m
<1>3. ASSUME NEW p \in 1..Len(RowsOf[r]), w = Alloc(r, p), OfRows(r, l, p + 1)
      PROVE  \E q \in 1..Len(RowsOf[r]) :
               l = Alloc(r, q) /\ \E k \in 1..Len(RowsOf[r]) : w = Alloc(r, k) /\ k < q
  <2>1. PICK q \in p + 1..Len(RowsOf[r]) : l = Alloc(r, q)
    BY <1>3 DEF OfRows
  <2>2. q \in 1..Len(RowsOf[r]) /\ p < q
    BY <1>1
  <2> QED BY <1>3, <2>1, <2>2
<1> QED BY <1>2, <1>3 DEF Follows, OfRows, OfSelf

(* Some locked, waiting transactions of which each waits for another.      *)
Stuck(C) ==
  /\ C \subseteq Handler /\ C # {}
  /\ \A h \in C : Wants(h) /\ held[h] # {} /\ doing[h] \notin InAnyOrder
  /\ \A h \in C : \E g \in C : Blocks(g, h)
  /\ \A g, h \in C : ~Opposed(doing[g], doing[h])
  /\ \A g, h \in C : g # h => ~(doing[g] = "copy" /\ doing[h] = "copy")

LEMMA BlocksBy ==
  ASSUME NEW g, NEW h, Blocks(g, h)
  PROVE  g # h /\ \E l \in held[g] : l.row = Head(todo[h]).row /\ Conflicts(l.mode, Head(todo[h]).mode)
BY DEF Blocks

(* No approval is among them: what it waits for is held by one that gives  *)
(* back, or by one that would have to hold its item too.                   *)
LEMMA NobodyMeasures ==
  ASSUME Types, Apart, NEW C, Stuck(C), NEW h \in C
  PROVE  doing[h] # "approve"
<1> SUFFICES ASSUME doing[h] = "approve" PROVE FALSE
  OBVIOUS
<1>1. C \subseteq Handler /\ h \in Handler /\ Wants(h) /\ held[h] # {} /\ doing[h] \notin InAnyOrder
  BY DEF Stuck
<1>2. Measures(h)
  BY <1>1, StandsBetween DEF GivesBack, Gives
<1>3. PICK r \in Reservation :
        \/ held[h] = {OnItem(r, "for update")} /\ Head(todo[h]) = OnSelf(r, "for update")
        \/ held[h] = {OnItem(r, "for update"), OnSelf(r, "for update")} /\ Head(todo[h]) = Shelf(r)
  BY <1>2 DEF Measures
<1>4. OnItem(r, "for update") \in held[h]
  BY <1>3
<1>5. PICK g \in C : Blocks(g, h)
  BY DEF Stuck
<1>6. g \in Handler /\ g # h /\ Wants(g) /\ held[g] # {} /\ doing[g] \notin InAnyOrder
  BY <1>5, BlocksBy DEF Stuck
<1>7. PICK l \in held[g] : l.row = Head(todo[h]).row /\ Conflicts(l.mode, Head(todo[h]).mode)
  BY <1>5, BlocksBy
<1>8. \A m \in held[g] : ~(m.row = <<"Item", ItemOf[r]>> /\ m.mode \in {"key share", "for update"})
  <2> SUFFICES ASSUME NEW m \in held[g], m.row = <<"Item", ItemOf[r]>>, m.mode \in {"key share", "for update"}
               PROVE  FALSE
    OBVIOUS
  <2>1. OnItem(r, "for update").row = m.row /\ OnItem(r, "for update").mode = "for update"
    BY Named
  <2>2. ~Conflicts("for update", m.mode)
    BY <1>1, <1>4, <1>6, <2>1 DEF Apart
  <2> QED BY <2>2 DEF Conflicts
<1>9. Head(todo[h]).row \in {<<"ResourceReservation", r>>, <<"WarehouseStock", ItemOf[r]>>, <<"Item", ItemOf[r]>>}
  <2>1. Head(todo[h]) = OnSelf(r, "for update") \/ Head(todo[h]) = Shelf(r)
    BY <1>3
  <2>2. OnSelf(r, "for update").row = <<"ResourceReservation", r>>
        /\ Shelf(r).row \in {<<"WarehouseStock", ItemOf[r]>>, <<"Item", ItemOf[r]>>}
    BY Named
  <2>3. CASE Head(todo[h]) = OnSelf(r, "for update")
    BY <2>2, <2>3
  <2>4. CASE Head(todo[h]) = Shelf(r)
    BY <2>2, <2>4
  <2> QED BY <2>1, <2>3, <2>4
<1>10. CASE doing[g] = "approve"
  <2>1. Measures(g)
    BY <1>6, <1>10, StandsBetween DEF GivesBack, Gives
  <2>2. PICK q \in Reservation :
          \/ held[g] = {OnItem(q, "for update")}
          \/ held[g] = {OnItem(q, "for update"), OnSelf(q, "for update")}
    BY <2>1 DEF Measures
  <2>3. OnItem(q, "for update") \in held[g]
    BY <2>2
  <2>6. /\ OnItem(q, "for update").row = <<"Item", ItemOf[q]>>
        /\ OnItem(q, "for update").mode = "for update"
        /\ OnSelf(q, "for update").row = <<"ResourceReservation", q>>
    BY Named
  <2>4. ItemOf[q] # ItemOf[r]
    BY <1>8, <2>3, <2>6
  <2>7. l \in {OnItem(q, "for update"), OnSelf(q, "for update")}
    BY <2>2
  <2>5. l.row \in {<<"Item", ItemOf[q]>>, <<"ResourceReservation", q>>}
    BY <2>6, <2>7
  <2> QED BY <1>7, <1>9, <2>4, <2>5
<1>11. CASE doing[g] = "copy"
  <2>1. CopyStands(g)
    BY <1>6, <1>11, StandsBetween DEF GivesBack, Gives
  <2>2. l \in ItemLocks
    BY <2>1 DEF CopyStands
  <2>3. PICK i \in Item : l.row = <<"Item", i>> /\ l.mode \in {"key share", "for update"}
    BY <2>2, ItemLockIs
  <2>4. <<"Item", i>> \in {<<"ResourceReservation", r>>, <<"WarehouseStock", ItemOf[r]>>, <<"Item", ItemOf[r]>>}
    BY <1>7, <1>9, <2>3
  <2>5. i = ItemOf[r]
    BY <2>4
  <2> QED BY <1>8, <2>3, <2>5
<1>12. CASE doing[g] \in Gives
  <2>1. Opposed(doing[h], doing[g])
    BY <1>12 DEF Opposed, Gives
  <2> QED BY <1>5, <2>1 DEF Stuck
<1> QED BY <1>6, <1>10, <1>11, <1>12, StandsBetween DEF GivesBack

LEMMA TheyCopyOrGive ==
  ASSUME Types, Apart, NEW C, Stuck(C), NEW h \in C
  PROVE  h \in Handler /\ ((doing[h] = "copy" /\ CopyStands(h)) \/ \E r \in Reservation : GivesBack(h, r))
<1>1. h \in Handler /\ Wants(h) /\ held[h] # {} /\ doing[h] \notin InAnyOrder
  BY DEF Stuck
<1> QED BY <1>1, NobodyMeasures, StandsBetween

(* Nor does one that gives back wait for its request: only a return being  *)
(* received locks it in a way that hinders another.                        *)
LEMMA NobodyWantsTheRequest ==
  ASSUME Types, Apart, NEW C, Stuck(C), NEW h \in C, NEW r \in Reservation, GivesBack(h, r)
  PROVE  ~OfSelf(r, doing[h], Head(todo[h]))
<1> SUFFICES ASSUME OfSelf(r, doing[h], Head(todo[h])) PROVE FALSE
  OBVIOUS
<1>1. doing[h] \in {"reclaim", "release", "handBack"}
  BY DEF GivesBack, Gives, OfSelf
<1>2. PICK g \in C : Blocks(g, h)
  BY DEF Stuck
<1>3. PICK l \in held[g] : l.row = Head(todo[h]).row /\ Conflicts(l.mode, Head(todo[h]).mode)
  BY <1>2, BlocksBy
<1>4. /\ OnSelf(r, "key share").row = <<"ResourceReservation", r>> /\ OnSelf(r, "key share").mode = "key share"
      /\ OnSelf(r, "update").row = <<"ResourceReservation", r>> /\ OnSelf(r, "update").mode = "update"
  BY Named
<1>5. Head(todo[h]).row = <<"ResourceReservation", r>> /\ Head(todo[h]).mode \in {"key share", "update"}
  <2>1. CASE Head(todo[h]) = OnSelf(r, "key share")
    BY <1>4, <2>1
  <2>2. CASE Head(todo[h]) = OnSelf(r, "update")
    BY <1>4, <2>2
  <2> QED BY <2>1, <2>2 DEF OfSelf
<1>6. l.row = <<"ResourceReservation", r>>
  BY <1>3, <1>5
<1>7. l.mode # "key share"
  BY <1>3, <1>5 DEF Conflicts
<1>8. CASE CopyStands(g)
  <2>1. l \in ItemLocks
    BY <1>3, <1>8 DEF CopyStands
  <2>2. PICK i \in Item : l.row = <<"Item", i>>
    BY <2>1, ItemLockIs
  <2> QED BY <1>6, <2>2
<1>9. ASSUME NEW q \in Reservation, GivesBack(g, q) PROVE FALSE
  <2>1. doing[g] # "receive"
    BY <1>1, <1>2 DEF Stuck, Opposed
  <2>2. Follows(doing[g], q, l, Head(todo[g]))
    BY <1>3, <1>9 DEF GivesBack
  <2>3. /\ OnItem(q, "key share").row = <<"Item", ItemOf[q]>>
        /\ OnSelf(q, "key share").mode = "key share"
        /\ Shelf(q).row \in {<<"WarehouseStock", ItemOf[q]>>, <<"Item", ItemOf[q]>>}
    BY Named
  <2>10. \A p : Alloc(q, p).row = <<"ReservationAllocation", RowsOf[q][p]>>
    BY Named
  <2>4. OfRequest(doing[g], q, l) => l.mode = "key share"
    BY <2>1, <2>3 DEF OfRequest
  <2>5. \A p : OfRows(q, l, p) => \E k : l = Alloc(q, k)
    BY DEF OfRows
  <2>6. \/ l.mode = "key share" \/ (\E k : l = Alloc(q, k)) \/ l = Shelf(q) \/ l = OnItem(q, "key share")
    BY <2>2, <2>4, <2>5 DEF Follows
  <2>7. CASE \E k : l = Alloc(q, k)
    <3>1. PICK k : l = Alloc(q, k)
      BY <2>7
    <3>2. l.row = <<"ReservationAllocation", RowsOf[q][k]>>
      BY <2>10, <3>1
    <3> QED BY <1>6, <3>2
  <2>8. CASE l = Shelf(q)
    <3>1. l.row \in {<<"WarehouseStock", ItemOf[q]>>, <<"Item", ItemOf[q]>>}
      BY <2>3, <2>8
    <3> QED BY <1>6, <3>1
  <2>9. CASE l = OnItem(q, "key share")
    <3>1. l.row = <<"Item", ItemOf[q]>>
      BY <2>3, <2>9
    <3> QED BY <1>6, <3>1
  <2> QED BY <1>7, <2>6, <2>7, <2>8, <2>9
<1> QED BY <1>2, <1>8, <1>9, TheyCopyOrGive

(* One that gives back to main does not wait for the item it has updated:  *)
(* whoever holds that in its way would have kept it from the update.       *)
LEMMA FromItsShelf ==
  ASSUME Types, Apart, NEW C, Stuck(C), NEW g \in C, NEW r \in Reservation,
         Shelf(r) \in held[g], Head(todo[g]) = OnItem(r, "key share")
  PROVE  r \in FromProject
<1> SUFFICES ASSUME r \notin FromProject PROVE FALSE
  OBVIOUS
<1>1. Shelf(r).row = <<"Item", ItemOf[r]>> /\ Shelf(r).mode = "update"
  BY DEF Shelf, OnItem, Lock
<1>2. PICK k \in C : Blocks(k, g)
  BY DEF Stuck
<1>3. PICK m \in held[k] : m.row = Head(todo[g]).row /\ Conflicts(m.mode, Head(todo[g]).mode)
  BY <1>2, BlocksBy
<1>4. Head(todo[g]).row = <<"Item", ItemOf[r]>> /\ Head(todo[g]).mode = "key share"
  <2>1. OnItem(r, "key share").row = <<"Item", ItemOf[r]>> /\ OnItem(r, "key share").mode = "key share"
    BY Named
  <2> QED BY <2>1
<1>5. m.row = Shelf(r).row /\ m.mode \notin {"key share", "update"}
  BY <1>1, <1>3, <1>4 DEF Conflicts
<1>6. Conflicts(m.mode, Shelf(r).mode)
  BY <1>1, <1>5 DEF Conflicts
<1>7. k \in Handler /\ g \in Handler /\ k # g
  BY <1>2, BlocksBy DEF Stuck
<1> QED BY <1>5, <1>6, <1>7 DEF Apart

(* Nor is a copy among them, where it is the only one: nobody else keeps   *)
(* an item from it and waits.                                              *)
LEMMA NobodyCopies ==
  ASSUME Types, Apart, NEW C, Stuck(C), NEW h \in C
  PROVE  doing[h] # "copy"
<1> SUFFICES ASSUME doing[h] = "copy" PROVE FALSE
  OBVIOUS
<1>1. CopyStands(h)
  BY TheyCopyOrGive DEF GivesBack, Gives
<1>2. Head(todo[h]) \in ItemLocks
  BY <1>1 DEF CopyStands
<1>3. PICK i \in Item : Head(todo[h]).row = <<"Item", i>>
  BY <1>2, ItemLockIs
<1>4. PICK g \in C : Blocks(g, h)
  BY DEF Stuck
<1>5. PICK l \in held[g] : l.row = Head(todo[h]).row
  BY <1>4, BlocksBy
<1>6. doing[g] # "copy"
  BY <1>4, BlocksBy DEF Stuck
<1>7. PICK q \in Reservation : GivesBack(g, q)
  BY <1>6, TheyCopyOrGive
<1>8. Follows(doing[g], q, l, Head(todo[g])) /\ ~OfSelf(q, doing[g], Head(todo[g]))
  BY <1>5, <1>7, NobodyWantsTheRequest DEF GivesBack
<1>9. l.row = <<"Item", i>>
  BY <1>3, <1>5
<1>10. \A p : Alloc(q, p).row = <<"ReservationAllocation", RowsOf[q][p]>>
  BY Named
<1>11. l = Shelf(q) /\ Head(todo[g]) = OnItem(q, "key share")
  <2>1. l.row # <<"ResourceReservation", q>>
    BY <1>9
  <2>2. \A p : l # Alloc(q, p)
    <3> SUFFICES ASSUME NEW p, l = Alloc(q, p) PROVE FALSE
      OBVIOUS
    <3>1. <<"Item", i>> = <<"ReservationAllocation", RowsOf[q][p]>>
      BY <1>9, <1>10
    <3> QED BY <3>1
  <2> QED BY <1>8, <2>1, <2>2, HoldsOnly
<1>12. q \in FromProject
  BY <1>5, <1>11, FromItsShelf
<1>13. Shelf(q).row = <<"WarehouseStock", ItemOf[q]>>
  BY <1>12 DEF Shelf, Lock
<1>14. <<"Item", i>> = <<"WarehouseStock", ItemOf[q]>>
  BY <1>9, <1>11, <1>13
<1> QED BY <1>14

LEMMA TheyGive ==
  ASSUME Types, Apart, NEW C, Stuck(C), NEW h \in C
  PROVE  \E r \in Reservation : GivesBack(h, r)
BY NobodyCopies, TheyCopyOrGive

(* The locks one of them may hold, and what it then wants.                 *)
LEMMA HoldsAndWants ==
  ASSUME Types, Apart, NEW C, Stuck(C), NEW g \in C, NEW l \in held[g]
  PROVE  \/ l.row[1] = "ResourceReservation"
         \/ \E r \in Reservation : \E q \in 1..Len(RowsOf[r]) :
              /\ l = Alloc(r, q)
              /\ \/ \E p \in 1..Len(RowsOf[r]) : Head(todo[g]) = Alloc(r, p) /\ p < q
                 \/ Head(todo[g]) \in {Shelf(r), OnItem(r, "key share")}
         \/ \E r \in Reservation : l = Lock("WarehouseStock", ItemOf[r], "update")
                                   /\ Head(todo[g]) = OnItem(r, "key share")
<1>2. ASSUME NEW r \in Reservation, GivesBack(g, r)
      PROVE  \/ l.row[1] = "ResourceReservation"
             \/ \E q \in 1..Len(RowsOf[r]) :
                  /\ l = Alloc(r, q)
                  /\ \/ \E p \in 1..Len(RowsOf[r]) : Head(todo[g]) = Alloc(r, p) /\ p < q
                     \/ Head(todo[g]) \in {Shelf(r), OnItem(r, "key share")}
             \/ l = Lock("WarehouseStock", ItemOf[r], "update") /\ Head(todo[g]) = OnItem(r, "key share")
  <2>1. Follows(doing[g], r, l, Head(todo[g])) /\ ~OfSelf(r, doing[g], Head(todo[g]))
    BY <1>2, NobodyWantsTheRequest DEF GivesBack
  <2>2. l.row = <<"ResourceReservation", r>> => l.row[1] = "ResourceReservation"
    OBVIOUS
  <2>3. ASSUME l = Shelf(r), Head(todo[g]) = OnItem(r, "key share")
        PROVE  l = Lock("WarehouseStock", ItemOf[r], "update")
    <3>1. r \in FromProject
      BY <2>3, FromItsShelf
    <3> QED BY <2>3, <3>1 DEF Shelf
  <2> QED BY <2>1, <2>2, <2>3, HoldsOnly
<1> QED BY <1>2, TheyGive

LEMMA Ranks ==
  /\ \A i \in Item : \A m : Rank(Lock("Item", i, m)) = 0
  /\ \A i \in Item : \A m : Rank(Lock("WarehouseStock", i, m)) = 1
  /\ \A r \in Reservation : \A p \in 1..Len(RowsOf[r]) : Rank(Alloc(r, p)) = 1 + p
<1>1. \A i, m : Lock("Item", i, m).row[1] = "Item" /\ Lock("Item", i, m).row[2] = i
  BY DEF Lock
<1>2. \A i, m : Lock("WarehouseStock", i, m).row[1] = "WarehouseStock"
  BY DEF Lock
<1>3. \A r \in Reservation : \A p \in 1..Len(RowsOf[r]) :
        Alloc(r, p).row[1] = "ReservationAllocation" /\ Age(Alloc(r, p).row[2]) = p
  BY AgeIs DEF Alloc, Lock
<1> QED BY <1>1, <1>2, <1>3 DEF Rank

LEMMA WantsOne ==
  ASSUME Types, Apart, NEW C, Stuck(C), NEW h \in C
  PROVE  \/ \E i \in Item : \E m : Head(todo[h]) = Lock("Item", i, m)
         \/ \E i \in Item : Head(todo[h]) = Lock("WarehouseStock", i, "update")
         \/ \E r \in Reservation : \E p \in 1..Len(RowsOf[r]) : Head(todo[h]) = Alloc(r, p)
<1>2. ASSUME NEW r \in Reservation, GivesBack(h, r)
      PROVE  \/ \E i \in Item : \E m : Head(todo[h]) = Lock("Item", i, m)
             \/ \E i \in Item : Head(todo[h]) = Lock("WarehouseStock", i, "update")
             \/ \E p \in 1..Len(RowsOf[r]) : Head(todo[h]) = Alloc(r, p)
  <2>1. PICK l \in held[h] : TRUE
    BY DEF Stuck
  <2>2. Follows(doing[h], r, l, Head(todo[h])) /\ ~OfSelf(r, doing[h], Head(todo[h]))
    BY <1>2, NobodyWantsTheRequest DEF GivesBack
  <2>3. Head(todo[h]) \in {Shelf(r), OnItem(r, "key share")} \/ \E p \in 1..Len(RowsOf[r]) : Head(todo[h]) = Alloc(r, p)
    BY <2>2 DEF Follows, OfSelf
  <2>4. ItemOf[r] \in Item
    BY Named
  <2> QED BY <2>3, <2>4 DEF Shelf, OnItem
<1> QED BY <1>2, TheyGive

(* Whoever is waited for waits for a lock of a lower rank.                 *)
LEMMA RankFalls ==
  ASSUME Types, Apart, NEW C, Stuck(C), NEW g \in C, NEW h \in C, Blocks(g, h)
  PROVE  Rank(Head(todo[g])) < Rank(Head(todo[h]))
<1> DEFINE v == Head(todo[g])
           w == Head(todo[h])
<1>1. PICK l \in held[g] : l.row = w.row
  BY BlocksBy
<1>2. \/ l.row[1] = "ResourceReservation"
      \/ \E r \in Reservation : \E q \in 1..Len(RowsOf[r]) :
           /\ l = Alloc(r, q)
           /\ (\E p \in 1..Len(RowsOf[r]) : v = Alloc(r, p) /\ p < q) \/ v \in {Shelf(r), OnItem(r, "key share")}
      \/ \E r \in Reservation : l = Lock("WarehouseStock", ItemOf[r], "update") /\ v = OnItem(r, "key share")
  BY HoldsAndWants
<1>3. \/ \E i \in Item : \E m : w = Lock("Item", i, m)
      \/ \E i \in Item : w = Lock("WarehouseStock", i, "update")
      \/ \E r \in Reservation : \E p \in 1..Len(RowsOf[r]) : w = Alloc(r, p)
  BY WantsOne
<1> HIDE DEF v, w
<1>4. \A t, i, m : Lock(t, i, m).row = <<t, i>> /\ Lock(t, i, m).row[1] = t
  BY DEF Lock
<1>5. \A r, p : Alloc(r, p).row = <<"ReservationAllocation", RowsOf[r][p]>>
                /\ Alloc(r, p).row[1] = "ReservationAllocation"
  BY DEF Alloc, Lock
<1>6. w.row[1] \in {"Item", "WarehouseStock", "ReservationAllocation"}
  BY <1>3, <1>4, <1>5
<1>7. \A r \in Reservation : Rank(OnItem(r, "key share")) = 0 /\ Rank(Shelf(r)) \in {0, 1}
  <2> SUFFICES ASSUME NEW r \in Reservation
               PROVE  Rank(OnItem(r, "key share")) = 0 /\ Rank(Shelf(r)) \in {0, 1}
    OBVIOUS
  <2>1. ItemOf[r] \in Item
    BY Named
  <2>2. \A m : Rank(OnItem(r, m)) = 0
    BY <2>1, Ranks DEF OnItem
  <2>3. Rank(Shelf(r)) \in {0, 1}
    BY <2>1, <2>2, Ranks DEF Shelf
  <2> QED BY <2>2, <2>3
<1>9. ASSUME NEW r \in Reservation, NEW q \in 1..Len(RowsOf[r]), l = Alloc(r, q),
             (\E p \in 1..Len(RowsOf[r]) : v = Alloc(r, p) /\ p < q) \/ v \in {Shelf(r), OnItem(r, "key share")}
      PROVE  Rank(v) < Rank(w)
  <2>1. w.row[1] = "ReservationAllocation"
    BY <1>1, <1>5, <1>9
  <2>2. PICK z \in Reservation : \E p \in 1..Len(RowsOf[z]) : w = Alloc(z, p)
    BY <1>3, <1>4, <2>1
  <2>3. PICK p \in 1..Len(RowsOf[z]) : w = Alloc(z, p)
    BY <2>2
  <2>4. w.row = <<"ReservationAllocation", RowsOf[z][p]>> /\ w.row = <<"ReservationAllocation", RowsOf[r][q]>>
    BY <1>1, <1>5, <1>9, <2>3
  <2>5. RowsOf[z][p] = RowsOf[r][q]
    BY <2>4
  <2>6. p = q /\ q \in Nat /\ q >= 1
    BY <2>5, AgeIs
  <2>7. Rank(w) = 1 + q
    BY <2>3, <2>6, Ranks
  <2>8. CASE \E k \in 1..Len(RowsOf[r]) : v = Alloc(r, k) /\ k < q
    <3>1. PICK k \in 1..Len(RowsOf[r]) : v = Alloc(r, k) /\ k < q
      BY <2>8
    <3>2. Rank(v) = 1 + k /\ k \in Nat /\ k < q
      BY <3>1, Ranks, AgeIs
    <3> QED BY <2>6, <2>7, <3>2
  <2>9. CASE v \in {Shelf(r), OnItem(r, "key share")}
    <3>1. Rank(v) \in {0, 1}
      BY <1>7, <2>9
    <3> QED BY <2>6, <2>7, <3>1
  <2> QED BY <1>9, <2>8, <2>9
<1>10. ASSUME NEW r \in Reservation, l = Lock("WarehouseStock", ItemOf[r], "update"), v = OnItem(r, "key share")
       PROVE  Rank(v) < Rank(w)
  <2>5. l.row[1] = "WarehouseStock"
    BY <1>4, <1>10
  <2>1. w.row[1] = "WarehouseStock"
    BY <1>1, <2>5
  <2>2. PICK i \in Item : w = Lock("WarehouseStock", i, "update")
    BY <1>3, <1>4, <1>5, <2>1
  <2>3. Rank(w) = 1
    BY <2>2, Ranks
  <2>4. Rank(v) = 0
    BY <1>7, <1>10
  <2> QED BY <2>3, <2>4
<1>11. l.row[1] # "ResourceReservation"
  BY <1>1, <1>6
<1>12. Rank(v) < Rank(w)
  BY <1>2, <1>9, <1>10, <1>11
<1> QED BY <1>12 DEF v, w

(* So nobody is: of what they want something has the lowest rank.          *)
LEMMA LeastNat ==
  ASSUME NEW S \in SUBSET Nat, S # {}
  PROVE  \E x \in S : \A y \in S : x <= y
<1>1. PICK n \in S : TRUE
  OBVIOUS
<1> DEFINE T == {y \in 1..n + 1 : y - 1 \in S}
<1>2. n \in Nat /\ n + 1 \in Nat /\ T \in SUBSET (1..n + 1) /\ n + 1 \in T
  BY <1>1
<1> HIDE DEF T
<1>3. PICK x \in T : \A y \in T : x <= y
  <2>1. T # {}
    BY <1>2
  <2> QED BY <1>2, <2>1, LeastOf
<1>4. x \in 1..n + 1 /\ x - 1 \in S
  BY <1>3 DEF T
<1>5. ASSUME NEW y \in S PROVE x - 1 <= y
  <2>1. CASE y <= n
    <3>1. y + 1 \in 1..n + 1 /\ (y + 1) - 1 = y
      BY <1>2, <2>1
    <3>2. x <= y + 1
      BY <1>3, <3>1 DEF T
    <3> QED BY <1>4, <3>2
  <2> QED BY <1>2, <1>4, <2>1
<1> QED BY <1>4, <1>5

LEMMA NobodyIsStuck ==
  ASSUME Types, Apart, NEW C, Stuck(C)
  PROVE  FALSE
<1> DEFINE R == {Rank(Head(todo[h])) : h \in C}
<1>1. R \in SUBSET Nat
  <2> SUFFICES ASSUME NEW h \in C PROVE Rank(Head(todo[h])) \in Nat
    OBVIOUS
  <2>2. CASE \E i \in Item : \E m : Head(todo[h]) = Lock("Item", i, m)
    BY <2>2, Ranks
  <2>3. CASE \E i \in Item : Head(todo[h]) = Lock("WarehouseStock", i, "update")
    BY <2>3, Ranks
  <2>4. CASE \E r \in Reservation : \E p \in 1..Len(RowsOf[r]) : Head(todo[h]) = Alloc(r, p)
    <3>1. PICK r \in Reservation : \E p \in 1..Len(RowsOf[r]) : Head(todo[h]) = Alloc(r, p)
      BY <2>4
    <3>2. PICK p \in 1..Len(RowsOf[r]) : Head(todo[h]) = Alloc(r, p)
      BY <3>1
    <3>3. Rank(Head(todo[h])) = 1 + p /\ p \in Nat
      BY <3>2, Ranks, AgeIs
    <3> QED BY <3>3
  <2> QED BY <2>2, <2>3, <2>4, WantsOne
<1>2. R # {}
  BY DEF Stuck
<1>3. PICK x \in R : \A y \in R : x <= y
  <2> HIDE DEF R
  <2> QED BY <1>1, <1>2, LeastNat
<1>4. PICK h \in C : x = Rank(Head(todo[h]))
  BY <1>3
<1>5. PICK g \in C : Blocks(g, h)
  BY <1>4 DEF Stuck
<1>6. Rank(Head(todo[g])) \in R /\ Rank(Head(todo[h])) \in R
  OBVIOUS
<1>7. Rank(Head(todo[g])) < Rank(Head(todo[h]))
  BY <1>5, RankFalls
<1>8. Rank(Head(todo[h])) <= Rank(Head(todo[g]))
  BY <1>3, <1>4, <1>6
<1>9. Rank(Head(todo[g])) \in Nat /\ Rank(Head(todo[h])) \in Nat
  BY <1>1, <1>6
<1> QED BY <1>7, <1>8, <1>9

(* The transactions others wait for, in a circle without a cause, would be *)
(* stuck.                                                                  *)
LEMMA CirclesCaused == Types /\ Apart => CirclesHaveACause
<1> SUFFICES ASSUME Types, Apart, NEW S \in SUBSET Handler, Circle(S),
                    ~ \E h \in S : doing[h] \in InAnyOrder,
                    ~ \E g, h \in S : Opposed(doing[g], doing[h]),
                    ~ \E g, h \in S : g # h /\ doing[g] = "copy" /\ doing[h] = "copy"
             PROVE  FALSE
  BY DEF CirclesHaveACause
<1> DEFINE C == {g \in S : held[g] # {}}
<1>1. \A h \in S : Wants(h) /\ \E g \in C : Blocks(g, h)
  <2> SUFFICES ASSUME NEW h \in S PROVE Wants(h) /\ \E g \in C : Blocks(g, h)
    OBVIOUS
  <2>1. PICK g \in S : Blocks(g, h)
    BY DEF Circle, Waiting
  <2>2. held[g] # {}
    BY <2>1, BlocksBy
  <2> QED BY <2>1, <2>2 DEF Circle, Waiting
<1>2. C # {}
  BY <1>1 DEF Circle
<1>3. C \subseteq Handler /\ \A h \in C : h \in S /\ held[h] # {}
  OBVIOUS
<1>4. Stuck(C)
  BY <1>1, <1>2, <1>3 DEF Stuck
<1> QED BY <1>4, NobodyIsStuck

-----------------------------------------------------------------------------
(* Where the code keeps to an order of locks nobody waits in a circle:     *)
(* every circle of waiting transactions has one among them that locks many *)
(* rows in an order of the moment, or two that lock the same tables in     *)
(* opposite orders, or two copies, whose foreign keys share items around   *)
(* those they lock in order; and everybody holds just the first part of a  *)
(* script of his operation.                                                *)
THEOREM CirclesHaveCauses == Spec => []LocksAreSound
<1>1. Init => Types /\ Apart
  BY TypesStart
<1>2. Types /\ Apart /\ [Next]_vars => Types' /\ Apart'
  BY TypesKept
<1>3. Types /\ Apart => LocksAreSound
  BY CirclesCaused DEF Types, LocksAreSound
<1> QED BY <1>1, <1>2, <1>3, PTL DEF Spec
=============================================================================
