----------------------- MODULE AccountReconciler_proofs -----------------------
(***************************************************************************)
(* full_resync between the exchange, the stream and the store, for every   *)
(* number of threads, messages and changes: what the parsers read is what  *)
(* the answers say, the composition uses the store as the store's own      *)
(* specification allows, a reported failure keeps the store closed, and    *)
(* one thread that runs every callback and every resync never leaves an    *)
(* open store at odds with the exchange.                                   *)
(***************************************************************************)
EXTENDS AccountReconciler, AccountStore_proofs, FiniteSetTheorems

\* j.get(k1) or j.get(k2): the first of the keys whose value is true decides.
LEMMA PairOfNames ==
    ASSUME NEW j, NEW k1, NEW k2
    PROVE  LET v1 == Rest!Get(j, k1, Rest!Null)
               v2 == Rest!Get(j, k2, Rest!Null)
           IN  Rest!FirstTrue(j, <<k1, k2>>)
                 = IF Rest!Truthy(v1) THEN v1 ELSE IF Rest!Truthy(v2) THEN v2 ELSE Rest!Null
  <1> DEFINE keys == <<k1, k2>>
             hits == {i \in 1 .. 2 : Rest!Truthy(Rest!Get(j, keys[i], Rest!Null))}
  <1>1. DOMAIN keys = 1 .. 2 /\ keys[1] = k1 /\ keys[2] = k2
    OBVIOUS
  <1>2. Rest!FirstTrue(j, keys)
          = IF hits = {} THEN Rest!Null
            ELSE Rest!Get(j, keys[CHOOSE i \in hits : \A k \in hits : i <= k], Rest!Null)
    BY <1>1 DEF Rest!FirstTrue, Rest!Min
  <1> QED
    BY <1>1, <1>2

LEMMA TripleOfNames ==
    ASSUME NEW j, NEW k1, NEW k2, NEW k3
    PROVE  LET v1 == Rest!Get(j, k1, Rest!Null)
               v2 == Rest!Get(j, k2, Rest!Null)
               v3 == Rest!Get(j, k3, Rest!Null)
           IN  Rest!FirstTrue(j, <<k1, k2, k3>>)
                 = IF Rest!Truthy(v1) THEN v1 ELSE IF Rest!Truthy(v2) THEN v2
                   ELSE IF Rest!Truthy(v3) THEN v3 ELSE Rest!Null
  <1> DEFINE keys == <<k1, k2, k3>>
             hits == {i \in 1 .. 3 : Rest!Truthy(Rest!Get(j, keys[i], Rest!Null))}
  <1>1. DOMAIN keys = 1 .. 3 /\ keys[1] = k1 /\ keys[2] = k2 /\ keys[3] = k3
    OBVIOUS
  <1>2. Rest!FirstTrue(j, keys)
          = IF hits = {} THEN Rest!Null
            ELSE Rest!Get(j, keys[CHOOSE i \in hits : \A k \in hits : i <= k], Rest!Null)
    BY <1>1 DEF Rest!FirstTrue, Rest!Min
  <1> QED
    BY <1>1, <1>2

\* A list of the entries of a dictionary holds each of them.
LEMMA EntriesHold ==
    ASSUME NEW d, IsFiniteSet(DOMAIN d), NEW idKey, NEW valueKey
    PROVE  LET list == Entries(d, idKey, valueKey)
           IN  /\ \A e : e \in Rest!Rows(list) <=>
                            \E k \in DOMAIN d : e = Entry(idKey, k, valueKey, d[k])
               /\ Rest!Truthy(list) <=> DOMAIN d # {}
  <1> DEFINE S == DOMAIN d
             n == Cardinality(S)
             f == SetToSeq(S)
             entry(k) == Entry(idKey, k, valueKey, d[k])
             list == Entries(d, idKey, valueKey)
  <1>1. n \in Nat /\ ExistsBijection(1 .. n, S)
    BY FS_CardinalityType
  <1>2. \E g \in [1 .. n -> S] : IsInjective(g)
    BY <1>1 DEF ExistsBijection, Bijection, Injection
  <1>3. f \in [1 .. n -> S] /\ IsInjective(f)
    BY <1>2 DEF SetToSeq
  <1>4. IsFiniteSet(1 .. n) /\ Cardinality(1 .. n) = n
    BY <1>1, FS_Interval
  <1>5. f \in Injection(1 .. n, S)
    BY <1>3 DEF Injection
  <1>6. f \in Surjection(1 .. n, S)
    BY <1>4, <1>5, FS_Injection
  <1>7. \A k \in S : \E i \in 1 .. n : f[i] = k
    BY <1>6 DEF Surjection
  <1> HIDE DEF f
  <1>8. list = Rest!Array([i \in 1 .. n |-> entry(f[i])])
    BY DEF Entries, f
  <1> HIDE DEF n, list
  <1>9. list.is = "array" /\ list.of = [i \in 1 .. n |-> entry(f[i])]
    BY <1>8 DEF Rest!Array
  <1>10. Range(list.of) = {entry(k) : k \in S}
    <2>1. Range(list.of) = {entry(f[i]) : i \in 1 .. n}
      BY <1>9 DEF Range
    <2> HIDE DEF entry
    <2> QED
      BY <2>1, <1>3, <1>7
  <1>11. \A k \in S : entry(k).is = "object"
    BY DEF Entry, Rest!Object
  <1>12. Rest!Rows(list) = {entry(k) : k \in S}
    <2>1. Rest!Range(list.of) = {entry(k) : k \in S}
      BY <1>10 DEF Range, Rest!Range
    <2> HIDE DEF entry
    <2> QED
      BY <1>9, <1>11, <2>1 DEF Rest!Rows
  <1>14. \A e : e \in Rest!Rows(list) <=> \E k \in S : e = entry(k)
    BY <1>12
  <1>13. Rest!Truthy(list) <=> S # {}
    <2>1. Rest!Truthy(list) <=> 1 .. n # {}
      BY <1>9 DEF Rest!Truthy
    <2> QED
      BY <2>1, <1>3, <1>7
  <1> QED
    BY <1>13, <1>14 DEF list

\* What is true and what is not.
LEMMA Truths ==
    /\ \A v : Rest!Truthy(Rest!Atom(v)) /\ Rest!Atom(v).of = v /\ Rest!Atom(v) # Rest!Null
    /\ ~Rest!Truthy(Rest!Null) /\ ~Rest!Truthy(Rest!Blank)
  BY DEF Rest!Truthy, Rest!Atom, Rest!Null, Rest!Blank

\* The fields of an entry.
LEMMA EntryFields ==
    ASSUME NEW idKey, NEW valueKey, NEW id, NEW value, NEW k, idKey # valueKey
    PROVE  Rest!Get(Entry(idKey, id, valueKey, value), k, Rest!Null)
              = IF k = idKey THEN Rest!Atom(id)
                ELSE IF k = valueKey THEN Rest!Atom(value) ELSE Rest!Null
  BY DEF Rest!Get, Entry, Rest!Object

\* A record as an object, and what is not in it.
LEMMA ObjectFields ==
    ASSUME NEW r, NEW k, NEW default
    PROVE  /\ k \in DOMAIN r => Rest!Get(Rest!Object(r), k, default) = r[k]
           /\ k \notin DOMAIN r => Rest!Get(Rest!Object(r), k, default) = default
           /\ Rest!Object(r).is = "object"
  BY DEF Rest!Get, Rest!Object

\* The rows of a list that was found, or was not since it is empty.
FoundEntries(d, idKey, valueKey) ==
    LET list == Entries(d, idKey, valueKey)
    IN  IF Rest!Truthy(list) THEN list ELSE Rest!Null

LEMMA RowsFound ==
    ASSUME NEW d, IsFiniteSet(DOMAIN d), NEW idKey, NEW valueKey
    PROVE  \A e : e \in Rest!Rows(FoundEntries(d, idKey, valueKey)) <=>
                     \E k \in DOMAIN d : e = Entry(idKey, k, valueKey, d[k])
  <1> DEFINE list == Entries(d, idKey, valueKey)
  <1>1. /\ \A e : e \in Rest!Rows(list) <=>
                     \E k \in DOMAIN d : e = Entry(idKey, k, valueKey, d[k])
        /\ Rest!Truthy(list) <=> DOMAIN d # {}
    BY EntriesHold
  <1>2. FoundEntries(d, idKey, valueKey) = IF Rest!Truthy(list) THEN list ELSE Rest!Null
    BY DEF FoundEntries
  <1> HIDE DEF list
  <1>3. Rest!Rows(Rest!Null) = {}
    BY DEF Rest!Rows, Rest!Null
  <1> QED
    BY <1>1, <1>2, <1>3

\* parse_account_snapshot of what a list says, under either pair of names.
LEMMA AccountRead ==
    ASSUME NEW bals, IsFiniteSet(DOMAIN bals), bals = [a \in DOMAIN bals |-> bals[a]],
           NEW body, NEW data, Rest!Data(body) = data, data.is = "object",
           NEW idKey, NEW valueKey,
           \/ idKey = "asset" /\ valueKey = "free"
           \/ idKey = "a" /\ valueKey = "f",
           Rest!FirstTrue(data, <<"balances", "assets">>) = FoundEntries(bals, idKey, valueKey)
    PROVE  Rest!ParseAccount(body) = bals
  <1> DEFINE asset(b) == Rest!FirstTrue(b, <<"asset", "a">>)
             free(b) == Rest!FirstTrue(b, <<"free", "f">>)
             entry(a) == Entry(idKey, a, valueKey, bals[a])
             found == Rest!FirstTrue(data, <<"balances", "assets">>)
             rows == {b \in Rest!Rows(found) : asset(b) # Rest!Null}
  <1>1. \A e : e \in Rest!Rows(found) <=> \E a \in DOMAIN bals : e = entry(a)
    BY RowsFound
  <1>2. \A a : asset(entry(a)) = Rest!Atom(a) /\ free(entry(a)) = Rest!Atom(bals[a])
    <2> SUFFICES ASSUME NEW a
                 PROVE  asset(entry(a)) = Rest!Atom(a) /\ free(entry(a)) = Rest!Atom(bals[a])
      OBVIOUS
    <2> DEFINE got(k) == Rest!Get(entry(a), k, Rest!Null)
    <2>1. \A k : got(k) = IF k = idKey THEN Rest!Atom(a)
                         ELSE IF k = valueKey THEN Rest!Atom(bals[a]) ELSE Rest!Null
      BY EntryFields
    <2>2. asset(entry(a)) = IF Rest!Truthy(got("asset")) THEN got("asset")
                            ELSE IF Rest!Truthy(got("a")) THEN got("a") ELSE Rest!Null
      BY PairOfNames
    <2>3. free(entry(a)) = IF Rest!Truthy(got("free")) THEN got("free")
                           ELSE IF Rest!Truthy(got("f")) THEN got("f") ELSE Rest!Null
      BY PairOfNames
    <2> HIDE DEF got, asset, free, entry
    <2> QED
      BY <2>1, <2>2, <2>3, Truths
  <1> DEFINE row(a) == CHOOSE b \in rows : asset(b).of = a
  <1>3. Rest!ParseAccount(body)
          = [a \in {asset(b).of : b \in rows} |-> Rest!ValueOr(free(row(a)), Zero)]
    BY DEF Rest!ParseAccount
  <1> HIDE DEF asset, free, entry, found
  <1>4. \A e : e \in rows <=> \E a \in DOMAIN bals : e = entry(a)
    BY <1>1, <1>2, Truths
  <1> HIDE DEF rows
  <1>5. {asset(b).of : b \in rows} = DOMAIN bals
    <2>1. \A b \in rows : asset(b).of \in DOMAIN bals
      BY <1>2, <1>4, Truths
    <2>2. \A a \in DOMAIN bals : entry(a) \in rows /\ asset(entry(a)).of = a
      BY <1>2, <1>4, Truths
    <2> QED
      BY <2>1, <2>2
  <1>6. ASSUME NEW a \in DOMAIN bals
        PROVE  Rest!ValueOr(free(row(a)), Zero) = bals[a]
    <2>1. \E b \in rows : asset(b).of = a
      BY <1>5
    <2>2. row(a) \in rows /\ asset(row(a)).of = a
      BY <2>1
    <2> HIDE DEF row
    <2>3. PICK c \in DOMAIN bals : row(a) = entry(c)
      BY <1>4, <2>2
    <2>4. c = a
      BY <1>2, <2>2, <2>3, Truths
    <2>5. free(row(a)) = Rest!Atom(bals[a])
      BY <1>2, <2>3, <2>4
    <2> QED
      BY <2>5, Truths DEF Rest!ValueOr
  <1> HIDE DEF row
  <1> QED
    BY <1>3, <1>5, <1>6

\* A code other than zero makes _signed_get raise.
LEMMA ErrorRaises == Rest!SignedGetRaises(ErrorAnswer)
  <1>1. Rest!Get(ErrorAnswer, "code", Rest!Null) = Rest!Atom(1) /\ ErrorAnswer.is = "object"
    BY DEF ErrorAnswer, Rest!Get, Rest!Object
  <1>2. Rest!Atom(1) \notin {Rest!Null, Rest!Blank, Rest!Atom(Zero)}
    BY ReconcilerAssumption DEF Rest!Atom, Rest!Null, Rest!Blank
  <1> QED
    BY <1>1, <1>2 DEF Rest!SignedGetRaises

\* get_account_snapshot returns the balances the exchange holds, or raises.
LEMMA AccountReturnsExact ==
    ASSUME NEW ret \in AccountReturns
    PROVE  ret[2] = ret[1] /\ ret[1] \in [Assets -> Amounts]
  <1>0. PICK bals \in [Assets -> Amounts] :
           \E body \in Accepted(AccountAnswers(bals)) :
              ret = <<bals, Rest!ParseAccount(Rest!SignedGet(body))>>
    BY DEF AccountReturns
  <1>1. PICK body \in Accepted(AccountAnswers(bals)) :
           ret = <<bals, Rest!ParseAccount(Rest!SignedGet(body))>>
    BY <1>0
  <1>2. IsFiniteSet(DOMAIN bals) /\ bals = [a \in DOMAIN bals |-> bals[a]]
    BY ReconcilerAssumption
  <1>3. body \in AccountAnswers(bals) /\ ~Rest!SignedGetRaises(body)
    BY DEF Accepted
  <1>4. body # ErrorAnswer
    BY <1>3, ErrorRaises
  <1>5. CASE body = Rest!Object([balances |-> Entries(bals, "asset", "free")])
    <2> DEFINE list == Entries(bals, "asset", "free")
    <2> HIDE DEF list
    <2>1. body = Rest!Object([balances |-> list])
      BY <1>5 DEF list
    <2>2. /\ body.is = "object"
          /\ Rest!Get(body, "balances", Rest!Null) = list
          /\ Rest!Get(body, "assets", Rest!Null) = Rest!Null
          /\ Rest!Get(body, "data", body) = body
      BY <2>1 DEF Rest!Get, Rest!Object
    <2>3. Rest!SignedGet(body) = body /\ Rest!Data(body) = body
      BY <2>2 DEF Rest!SignedGet, Rest!Data
    <2>4. Rest!FirstTrue(body, <<"balances", "assets">>) = FoundEntries(bals, "asset", "free")
      BY <2>2, PairOfNames, Truths DEF FoundEntries, list
    <2>5. Rest!ParseAccount(body) = bals
      BY <1>2, <2>2, <2>3, <2>4, AccountRead
    <2> QED
      BY <1>1, <2>3, <2>5
  <1>6. CASE body = Rest!Object([code |-> Rest!Blank,
                                data |-> Rest!Object([assets |-> Entries(bals, "a", "f")])])
    <2> DEFINE list == Entries(bals, "a", "f")
               data == Rest!Object([assets |-> list])
    <2> HIDE DEF list
    <2>1. /\ data.is = "object"
          /\ Rest!Get(data, "balances", Rest!Null) = Rest!Null
          /\ Rest!Get(data, "assets", Rest!Null) = list
      BY DEF Rest!Get, Rest!Object
    <2> HIDE DEF data
    <2>2. body = Rest!Object([code |-> Rest!Blank, data |-> data])
      BY <1>6 DEF data, list
    <2>3. body.is = "object" /\ Rest!Get(body, "data", body) = data
      BY <2>2 DEF Rest!Get, Rest!Object
    <2>4. Rest!SignedGet(body) = body /\ Rest!Data(body) = data
      BY <2>3 DEF Rest!SignedGet, Rest!Data
    <2>5. Rest!FirstTrue(data, <<"balances", "assets">>) = FoundEntries(bals, "a", "f")
      BY <2>1, PairOfNames, Truths DEF FoundEntries, list
    <2>6. Rest!ParseAccount(body) = bals
      BY <1>2, <2>1, <2>4, <2>5, AccountRead
    <2> QED
      BY <1>1, <2>4, <2>6
  <1> QED
    BY <1>1, <1>3, <1>4, <1>5, <1>6 DEF AccountAnswers

\* parse_open_orders of what a list says, under either pair of names.
LEMMA OrdersRead ==
    ASSUME NEW views, IsFiniteSet(DOMAIN views), NEW body,
           NEW idKey, NEW valueKey,
           \/ idKey = "bOrderId" /\ valueKey = "X"
           \/ idKey = "orderId" /\ valueKey = "status",
           \A e : e \in Rest!Rows(Rest!Listed(body, <<"list", "orders">>)) <=>
                     \E o \in DOMAIN views : e = Entry(idKey, o, valueKey, views[o])
    PROVE  \A e : e \in Rest!ParseOpenOrders(body) <=>
                     \E o \in DOMAIN views : e = [id |-> o, view |-> views[o]]
  <1> DEFINE id(e) == Rest!FirstTrue(e, <<"orderId", "bOrderId", "i">>)
             view(e) == Rest!FirstTrue(e, <<"status", "X">>)
             entry(o) == Entry(idKey, o, valueKey, views[o])
             rows == Rest!Rows(Rest!Listed(body, <<"list", "orders">>))
  <1>1. \A e : e \in rows <=> \E o \in DOMAIN views : e = entry(o)
    OBVIOUS
  <1>2. \A o : id(entry(o)) = Rest!Atom(o) /\ view(entry(o)) = Rest!Atom(views[o])
    <2> SUFFICES ASSUME NEW o
                 PROVE  id(entry(o)) = Rest!Atom(o) /\ view(entry(o)) = Rest!Atom(views[o])
      OBVIOUS
    <2> DEFINE got(k) == Rest!Get(entry(o), k, Rest!Null)
    <2>1. \A k : got(k) = IF k = idKey THEN Rest!Atom(o)
                         ELSE IF k = valueKey THEN Rest!Atom(views[o]) ELSE Rest!Null
      BY EntryFields
    <2>2. id(entry(o)) = IF Rest!Truthy(got("orderId")) THEN got("orderId")
                         ELSE IF Rest!Truthy(got("bOrderId")) THEN got("bOrderId")
                         ELSE IF Rest!Truthy(got("i")) THEN got("i") ELSE Rest!Null
      BY TripleOfNames
    <2>3. view(entry(o)) = IF Rest!Truthy(got("status")) THEN got("status")
                           ELSE IF Rest!Truthy(got("X")) THEN got("X") ELSE Rest!Null
      BY PairOfNames
    <2> HIDE DEF got, id, view, entry
    <2> QED
      BY <2>1, <2>2, <2>3, Truths
  <1>3. Rest!ParseOpenOrders(body)
          = {[id |-> Rest!ValueOr(id(e), None), view |-> Rest!ValueOr(view(e), None)] :
                e \in rows}
    BY DEF Rest!ParseOpenOrders
  <1> HIDE DEF id, view, entry, rows
  <1>4. \A o : /\ Rest!ValueOr(id(entry(o)), None) = o
              /\ Rest!ValueOr(view(entry(o)), None) = views[o]
    BY <1>2, Truths DEF Rest!ValueOr
  <1> QED
    BY <1>1, <1>3, <1>4

\* The list as a book is the book the exchange holds.
LEMMA BookRead ==
    ASSUME NEW os \in RestOrders, NEW body,
           \A e : e \in Rest!ParseOpenOrders(body) <=>
                     \E o \in DOMAIN os : e = [id |-> o, view |-> os[o].view]
    PROVE  ParsedOrders(body) = os
  <1> DEFINE list == Rest!ParseOpenOrders(body)
             found(o) == CHOOSE e \in list : e.id = o
  <1>1. ParsedOrders(body) = [o \in {e.id : e \in list} |->
                                 [view |-> found(o).view, restFields |-> TRUE]]
    BY DEF ParsedOrders
  <1>2. {e.id : e \in list} = DOMAIN os
    <2>1. \A e \in list : e.id \in DOMAIN os
      OBVIOUS
    <2>2. \A o \in DOMAIN os : \E e \in list : e.id = o
      <3> SUFFICES ASSUME NEW o \in DOMAIN os PROVE \E e \in list : e.id = o
        OBVIOUS
      <3>1. [id |-> o, view |-> os[o].view] \in list
        OBVIOUS
      <3> QED
        BY <3>1
    <2> QED
      BY <2>1, <2>2
  <1>3. ASSUME NEW o \in DOMAIN os
        PROVE  [view |-> found(o).view, restFields |-> TRUE] = os[o]
    <2>1. found(o) \in list /\ found(o).id = o
      BY <1>2
    <2> HIDE DEF found
    <2>2. found(o).view = os[o].view
      BY <2>1
    <2>3. os[o] \in OpenOrder
      BY DictsDomain DEF RestOrders, OrderBook
    <2>4. os[o].restFields
      BY DEF RestOrders
    <2> QED
      BY <2>2, <2>3, <2>4 DEF OpenOrder
  <1>4. os = [o \in DOMAIN os |-> os[o]]
    BY DictsDomain DEF RestOrders, OrderBook
  <1> HIDE DEF list, found
  <1> QED
    BY <1>1, <1>2, <1>3, <1>4

\* get_open_orders returns the orders the exchange holds, or raises.
LEMMA OrdersReturnsExact ==
    ASSUME NEW ret \in OrdersReturns
    PROVE  ret[2] = ret[1] /\ ret[1] \in RestOrders
  <1>0. PICK os \in RestOrders : \E body \in Accepted(OrderAnswers(os)) :
           ret = <<os, ParsedOrders(Rest!SignedGet(body))>>
    BY DEF OrdersReturns
  <1>1. PICK body \in Accepted(OrderAnswers(os)) :
           ret = <<os, ParsedOrders(Rest!SignedGet(body))>>
    BY <1>0
  <1> DEFINE views == [o \in DOMAIN os |-> os[o].view]
  <1>2. DOMAIN views = DOMAIN os /\ IsFiniteSet(DOMAIN os)
    BY ReconcilerAssumption, DictsDomain, FS_Subset DEF RestOrders, OrderBook
  <1>3. body \in OrderAnswers(os) /\ ~Rest!SignedGetRaises(body)
    BY DEF Accepted
  <1>4. body # ErrorAnswer
    BY <1>3, ErrorRaises
  <1>5. SUFFICES \A e : e \in Rest!ParseOpenOrders(Rest!SignedGet(body)) <=>
                          \E o \in DOMAIN views : e = [id |-> o, view |-> views[o]]
    BY <1>1, <1>2, BookRead
  <1>6. CASE body = Entries(views, "bOrderId", "X")
    <2> DEFINE list == Entries(views, "bOrderId", "X")
    <2>1. body = list /\ body.is = "array"
      BY <1>6 DEF Entries, Rest!Array
    <2> HIDE DEF list
    <2>2. Rest!SignedGet(body) = Rest!Object([k \in {"data"} |-> list])
      BY <2>1 DEF Rest!SignedGet
    <2>3. Rest!Data(Rest!SignedGet(body)) = list
      BY <2>2 DEF Rest!Data, Rest!Get, Rest!Object
    <2>4. Rest!Listed(Rest!SignedGet(body), <<"list", "orders">>) = list
      BY <2>1, <2>3 DEF Rest!Listed
    <2>5. \A e : e \in Rest!Rows(list) <=>
                    \E o \in DOMAIN views : e = Entry("bOrderId", o, "X", views[o])
      BY <1>2, EntriesHold DEF list
    <2>6. IsFiniteSet(DOMAIN views)
      BY <1>2
    <2> HIDE DEF views
    <2> QED
      BY <2>4, <2>5, <2>6, OrdersRead
  <1>7. CASE body = Rest!Object([data |-> Rest!Object([list |-> Rest!Null,
                                   orders |-> Entries(views, "orderId", "status")])])
    <2> DEFINE list == Entries(views, "orderId", "status")
               data == Rest!Object([list |-> Rest!Null, orders |-> list])
    <2> HIDE DEF list
    <2>1. /\ data.is = "object"
          /\ Rest!Get(data, "list", Rest!Null) = Rest!Null
          /\ Rest!Get(data, "orders", Rest!Null) = list
      BY DEF Rest!Get, Rest!Object
    <2> HIDE DEF data
    <2>2. body = Rest!Object([data |-> data])
      BY <1>7 DEF data, list
    <2>3. body.is = "object" /\ Rest!Get(body, "data", body) = data
      BY <2>2 DEF Rest!Get, Rest!Object
    <2>4. Rest!SignedGet(body) = body /\ Rest!Data(body) = data
      BY <2>3 DEF Rest!SignedGet, Rest!Data
    <2>5. Rest!FirstTrue(data, <<"list", "orders">>) = FoundEntries(views, "orderId", "status")
      BY <2>1, PairOfNames, Truths DEF FoundEntries, list
    <2>6. Rest!Listed(Rest!SignedGet(body), <<"list", "orders">>)
             = FoundEntries(views, "orderId", "status")
      BY <2>1, <2>4, <2>5 DEF Rest!Listed
    <2>7. \A e : e \in Rest!Rows(FoundEntries(views, "orderId", "status")) <=>
                    \E o \in DOMAIN views : e = Entry("orderId", o, "status", views[o])
      BY <1>2, RowsFound
    <2> QED
      BY <1>2, <2>6, <2>7, OrdersRead
  <1> QED
    BY <1>3, <1>4, <1>6, <1>7 DEF OrderAnswers
-----------------------------------------------------------------------------
(***************************************************************************)
(* The types of what the composition adds to the store.                    *)
(***************************************************************************)
Callbacks == Messages \cup {Lost, Up}

Places == {"idle", "account", "orders", "apply", "error", "mark"}

ExchangeTypes ==
    /\ exBalances \in [Assets -> Amounts]
    /\ exOrders \in RestOrders
    /\ closed \subseteq OrderIds \ DOMAIN exOrders
    /\ clock \in 0 .. MaxUpdates

LinkTypes ==
    /\ connected \in BOOLEAN
    /\ calls \in Seq(Callbacks)
    /\ Len(calls) <= MaxCalls

ResyncTypes ==
    /\ pc \in [Resyncers -> Places]
    /\ check \in [Resyncers -> {"skip", "number", "text"}]
    /\ fetched \in [Resyncers -> [balances : Balances, orders : RestOrders]]

OwnTypes == ExchangeTypes /\ LinkTypes /\ ResyncTypes /\ blocked \in BOOLEAN

LEMMA EmptyRest == <<>> \in Balances /\ <<>> \in RestOrders
  <1>1. <<>> \in OrderBook /\ DOMAIN <<>> = {}
    BY InitialBook
  <1> QED
    BY <1>1, EmptyDict DEF Balances, RestOrders

\* Every message has one of three kinds, and none of the stream's own callbacks.
LEMMA MessageKinds ==
    ASSUME NEW m \in Messages
    PROVE  m.kind \in {"account", "order", "terminated"} /\ m # Lost /\ m # Up
  <1>1. m.kind \in {"account", "order", "terminated"}
    BY MessageFields, ReconcilerAssumption
  <1> QED
    BY <1>1 DEF Lost, Up

\* A change of the account.
LEMMA ChangeKeepsExchange ==
    ASSUME ExchangeTypes, NEW m \in Messages, ChangeBalances(m) \/ ChangeOrder(m)
    PROVE  ExchangeTypes'
  <1>0. clock' \in 0 .. MaxUpdates
    BY ReconcilerAssumption DEF ExchangeTypes, ChangeBalances, ChangeOrder, Tick
  <1>1. CASE ChangeBalances(m)
    <2>1. m.bals \in Balances
      BY <1>1, MessageFields DEF ChangeBalances
    <2>2. DOMAIN m.bals \in SUBSET Assets /\ m.bals \in [DOMAIN m.bals -> Amounts]
      BY <2>1, DictsDomain DEF Balances
    <2>3. Overlay(m.bals, exBalances) \in [Assets -> Amounts]
      BY <2>2 DEF Overlay, ExchangeTypes
    <2> QED
      BY <1>0, <1>1, <2>3 DEF ChangeBalances, ExchangeTypes
  <1>2. CASE ChangeOrder(m) /\ m.terminal
    <2>1. m.oid \in OrderIds /\ exOrders' = Drop(m.oid, exOrders) /\ closed' = closed \cup {m.oid}
      BY <1>2, MessageFields DEF ChangeOrder
    <2>2. exOrders \in OrderBook
      BY DEF ExchangeTypes, RestOrders
    <2>3. exOrders' \in OrderBook
      BY <2>1, <2>2, DropType DEF OrderBook
    <2>4. DOMAIN exOrders' = DOMAIN exOrders \ {m.oid}
      BY <2>1 DEF Drop, Restrict
    <2>5. \A o \in DOMAIN exOrders' : exOrders'[o] = exOrders[o]
      BY <2>1 DEF Drop, Restrict
    <2>6. exOrders' \in RestOrders
      BY <2>3, <2>4, <2>5 DEF ExchangeTypes, RestOrders
    <2> QED
      BY <1>0, <1>2, <2>1, <2>4, <2>6 DEF ChangeOrder, ExchangeTypes
  <1>3. CASE ChangeOrder(m) /\ ~m.terminal
    <2> DEFINE entry == [view |-> m.view, restFields |-> TRUE]
               new == [o \in {m.oid} |-> entry]
    <2>1. m.oid \in OrderIds /\ m.view \in Views /\ exOrders' = Overlay(new, exOrders)
          /\ closed' = closed /\ m.oid \notin closed
      BY <1>3, MessageFields DEF ChangeOrder
    <2>2. entry \in OpenOrder
      BY <2>1 DEF OpenOrder
    <2>3. new \in OrderBook
      BY <2>1, <2>2, DictsElement DEF OrderBook
    <2>4. exOrders \in OrderBook
      BY DEF ExchangeTypes, RestOrders
    <2>5. exOrders' \in OrderBook
      BY <2>1, <2>3, <2>4, OverlayType DEF OrderBook
    <2>6. DOMAIN exOrders' = DOMAIN exOrders \cup {m.oid}
      BY <2>1 DEF Overlay
    <2>7. \A o \in DOMAIN exOrders' :
             exOrders'[o] = IF o = m.oid THEN entry ELSE exOrders[o]
      BY <2>1 DEF Overlay
    <2>8. exOrders' \in RestOrders
      BY <2>5, <2>6, <2>7 DEF ExchangeTypes, RestOrders
    <2> QED
      BY <1>0, <1>3, <2>1, <2>6, <2>8 DEF ChangeOrder, ExchangeTypes
  <1> QED
    BY <1>1, <1>2, <1>3

\* The queue after a report, a loss, a connection or a delivery.
LEMMA ReportKeepsLink ==
    ASSUME LinkTypes, NEW m \in Messages, Report(m), connected' \in BOOLEAN
    PROVE  LinkTypes'
  <1>1. m \in Callbacks
    BY DEF Callbacks
  <1> QED
    BY <1>1, AppendProperties, LenProperties, ReconcilerAssumption DEF LinkTypes, Report

LEMMA LossKeepsLink ==
    ASSUME LinkTypes, LoseStream
    PROVE  LinkTypes'
  <1>1. PICK n \in 0 .. Len(calls) :
           n < MaxCalls /\ calls' = Append(SubSeq(calls, 1, n), Lost)
    BY DEF LoseStream
  <1>2. calls \in Seq(Callbacks) /\ Len(calls) \in Nat /\ n \in Nat /\ MaxCalls \in Nat
    BY LenProperties, ReconcilerAssumption DEF LinkTypes
  <1> DEFINE kept == SubSeq(calls, 1, n)
  <1>3. kept \in Seq(Callbacks) /\ Len(kept) = n
    <2>1. \A i \in 1 .. n : calls[i] \in Callbacks
      BY <1>2, ElementOfSeq
    <2> QED
      BY <1>2, <2>1, SubSeqProperties
  <1>4. Lost \in Callbacks
    BY DEF Callbacks
  <1> HIDE DEF kept
  <1>5. Append(kept, Lost) \in Seq(Callbacks) /\ Len(Append(kept, Lost)) = n + 1
    BY <1>3, <1>4, AppendProperties
  <1> QED
    <2>1. calls' = Append(kept, Lost)
      BY <1>1 DEF kept
    <2>2. calls' \in Seq(Callbacks)
      BY <1>5, <2>1
    <2>3. Len(calls') = n + 1 /\ n + 1 <= MaxCalls
      BY <1>1, <1>2, <1>5, <2>1
    <2>4. connected' = FALSE
      BY DEF LoseStream
    <2> QED
      BY <2>2, <2>3, <2>4 DEF LinkTypes

LEMMA ConnectKeepsLink ==
    ASSUME LinkTypes, Connect
    PROVE  LinkTypes'
  <1>1. Up \in Callbacks /\ calls \in Seq(Callbacks) /\ MaxCalls \in Nat /\ Len(calls) \in Nat
    BY LenProperties, ReconcilerAssumption DEF Callbacks, LinkTypes
  <1>2. calls' \in Seq(Callbacks) /\ Len(calls') = Len(calls) + 1
    BY <1>1, AppendProperties DEF Connect
  <1> QED
    BY <1>1, <1>2 DEF LinkTypes, Connect

LEMMA TakeKeepsLink ==
    ASSUME LinkTypes, NEW c, Take(c), connected' = connected
    PROVE  LinkTypes' /\ c \in Callbacks
  <1>1. /\ calls \in Seq(Callbacks) /\ calls # <<>>
        /\ Len(calls) \in Nat /\ Len(calls) <= MaxCalls /\ MaxCalls \in Nat
    BY LenProperties, ReconcilerAssumption DEF LinkTypes, Take
  <1>2. Head(calls) \in Callbacks /\ Tail(calls) \in Seq(Callbacks)
        /\ Len(Tail(calls)) = Len(calls) - 1
    BY <1>1, HeadTailProperties
  <1> QED
    BY <1>1, <1>2 DEF LinkTypes, Take

\* A step of a resync, or its beginning: the exchange and the stream are left
\* alone, and what is fetched is what the exchange holds.
LEMMA FetchIsExact ==
    ASSUME ExchangeTypes, NEW r \in Resyncers
    PROVE  /\ GetAccount(r) => fetched' = [fetched EXCEPT ![r].balances = exBalances]
           /\ GetOrders(r) => fetched' = [fetched EXCEPT ![r].orders = exOrders]
  <1>1. ASSUME GetAccount(r)
        PROVE  fetched' = [fetched EXCEPT ![r].balances = exBalances]
    <2>1. PICK a \in AccountReturns :
             a[1] = exBalances /\ fetched' = [fetched EXCEPT ![r].balances = a[2]]
      BY <1>1 DEF GetAccount
    <2>2. a[2] = exBalances
      BY <2>1, AccountReturnsExact
    <2> QED
      BY <2>1, <2>2
  <1>2. ASSUME GetOrders(r)
        PROVE  fetched' = [fetched EXCEPT ![r].orders = exOrders]
    <2>1. PICK a \in OrdersReturns :
             a[1] = exOrders /\ fetched' = [fetched EXCEPT ![r].orders = a[2]]
      BY <1>2 DEF GetOrders
    <2>2. a[2] = exOrders
      BY <2>1, OrdersReturnsExact
    <2> QED
      BY <2>1, <2>2
  <1> QED
    BY <1>1, <1>2

LEMMA ExchangeHoldsRest ==
    ASSUME ExchangeTypes
    PROVE  exBalances \in Balances /\ exOrders \in RestOrders
  BY DictsElement DEF ExchangeTypes, Balances

LEMMA BeginKeepsResync ==
    ASSUME ResyncTypes, NEW r \in Resyncers, Begin(r)
    PROVE  ResyncTypes'
  BY DEF ResyncTypes, Begin, GoTo, Places

LEMMA EndKeepsResync ==
    ASSUME ResyncTypes, NEW r \in Resyncers, End(r)
    PROVE  ResyncTypes'
  BY EmptyRest DEF ResyncTypes, End, GoTo, Places, NotFetched

LEMMA StepKeepsResync ==
    ASSUME ExchangeTypes, ResyncTypes, NEW r \in Resyncers, ResyncStep(r)
    PROVE  ResyncTypes'
  <1>1. CASE GetAccount(r)
    <2>1. fetched' = [fetched EXCEPT ![r].balances = exBalances]
      BY <1>1, FetchIsExact
    <2>2. fetched' \in [Resyncers -> [balances : Balances, orders : RestOrders]]
      BY <2>1, ExchangeHoldsRest DEF ResyncTypes
    <2> QED
      BY <1>1, <2>2 DEF ResyncTypes, GetAccount, GoTo, Places
  <1>2. CASE GetOrders(r)
    <2>1. fetched' = [fetched EXCEPT ![r].orders = exOrders]
      BY <1>2, FetchIsExact
    <2>2. fetched' \in [Resyncers -> [balances : Balances, orders : RestOrders]]
      BY <2>1, ExchangeHoldsRest DEF ResyncTypes
    <2> QED
      BY <1>2, <2>2 DEF ResyncTypes, GetOrders, GoTo, Places
  <1>3. CASE RestFails(r) \/ CheckFails(r) \/ MarkRestError(r)
    BY <1>3 DEF ResyncTypes, RestFails, CheckFails, MarkRestError, GoTo, Places
  <1>4. CASE Apply(r) \/ MarkAndRaise(r)
    BY <1>4, EndKeepsResync DEF Apply, MarkAndRaise
  <1> QED
    BY <1>1, <1>2, <1>3, <1>4 DEF ResyncStep

\* What a step of a resync leaves alone.
LEMMA ResyncLeaves ==
    ASSUME NEW r, ResyncStep(r)
    PROVE  UNCHANGED <<exchangeVars, linkVars>>
  BY DEF ResyncStep, GetAccount, GetOrders, RestFails, CheckFails, Apply, MarkRestError,
         MarkAndRaise, exchangeVars, linkVars

LEMMA StepKeepsTypes ==
    ASSUME OwnTypes, [ReconcilerNext]_reconcilerVars
    PROVE  OwnTypes'
<1> USE DEF OwnTypes
<1>1. ASSUME NEW m \in Messages, ChangeBalances(m) \/ ChangeOrder(m) PROVE OwnTypes'
  <2>1. ExchangeTypes'
    BY <1>1, ChangeKeepsExchange
  <2>2. Report(m) /\ UNCHANGED <<connected, resyncVars, blocked>>
    BY <1>1 DEF ChangeBalances, ChangeOrder
  <2>3. LinkTypes'
    BY <1>1, <2>2, ReportKeepsLink DEF LinkTypes
  <2> QED
    BY <2>1, <2>2, <2>3 DEF ResyncTypes, resyncVars
<1>2. ASSUME NEW m \in Messages, EndStream(m) PROVE OwnTypes'
  <2>1. Report(m) /\ connected' = FALSE /\ clock' \in 0 .. MaxUpdates
        /\ UNCHANGED <<exBalances, exOrders, closed, resyncVars, blocked>>
    BY <1>2, ReconcilerAssumption DEF EndStream, Tick, ExchangeTypes
  <2>2. LinkTypes'
    BY <1>2, <2>1, ReportKeepsLink
  <2> QED
    BY <2>1, <2>2 DEF ExchangeTypes, ResyncTypes, resyncVars
<1>3. CASE LoseStream \/ Connect
  <2>1. UNCHANGED <<exchangeVars, resyncVars, blocked>>
    BY <1>3 DEF LoseStream, Connect
  <2>2. LinkTypes'
    BY <1>3, LossKeepsLink, ConnectKeepsLink
  <2> QED
    BY <2>1, <2>2 DEF ExchangeTypes, ResyncTypes, exchangeVars, resyncVars
<1>4. ASSUME NEW m \in Messages, DeliverMessage(m) PROVE OwnTypes'
  <2>1. Take(m) /\ UNCHANGED <<exchangeVars, connected, resyncVars>> /\ blocked' \in BOOLEAN
    BY <1>4 DEF DeliverMessage
  <2>2. LinkTypes'
    BY <2>1, TakeKeepsLink
  <2> QED
    BY <2>1, <2>2 DEF ExchangeTypes, ResyncTypes, exchangeVars, resyncVars
<1>5. CASE DeliverLost
  <2>1. Take(Lost) /\ UNCHANGED <<exchangeVars, connected, resyncVars>> /\ blocked'
    BY <1>5 DEF DeliverLost
  <2>2. LinkTypes'
    BY <2>1, TakeKeepsLink
  <2> QED
    BY <1>5, <2>1, <2>2 DEF DeliverLost, ExchangeTypes, ResyncTypes, exchangeVars, resyncVars
<1>6. ASSUME NEW r \in Resyncers, DeliverUp(r) PROVE OwnTypes'
  <2>1. Take(Up) /\ Begin(r) /\ UNCHANGED <<exchangeVars, connected, blocked>>
    BY <1>6 DEF DeliverUp, Begin
  <2>2. LinkTypes' /\ ResyncTypes'
    BY <2>1, TakeKeepsLink, BeginKeepsResync
  <2> QED
    BY <2>1, <2>2 DEF ExchangeTypes, exchangeVars
<1>7. ASSUME NEW r \in Resyncers, RequestResync(r) PROVE OwnTypes'
  <2>1. Begin(r) /\ UNCHANGED <<exchangeVars, connected, calls, blocked>>
    BY <1>7 DEF RequestResync, Begin
  <2>2. ResyncTypes'
    BY <2>1, BeginKeepsResync
  <2> QED
    BY <2>1, <2>2 DEF ExchangeTypes, LinkTypes, exchangeVars
<1>8. ASSUME NEW r \in Resyncers, ResyncStep(r) PROVE OwnTypes'
  <2>1. UNCHANGED <<exchangeVars, linkVars>> /\ ResyncTypes'
    BY <1>8, ResyncLeaves, StepKeepsResync
  <2>2. blocked' \in BOOLEAN
    BY <1>8 DEF ResyncStep, GetAccount, GetOrders, RestFails, CheckFails, Apply,
                MarkRestError, MarkAndRaise
  <2> QED
    BY <2>1, <2>2 DEF ExchangeTypes, LinkTypes, exchangeVars, linkVars
<1>9. CASE GoLive \/ ReportGap
  BY <1>9 DEF GoLive, ReportGap, ExchangeTypes, LinkTypes, ResyncTypes, exchangeVars,
              linkVars, resyncVars
<1>10. CASE Restart
  <2>0. calls' = <<>> /\ connected' \in BOOLEAN /\ MaxCalls \in Nat
    BY <1>10, ReconcilerAssumption DEF Restart
  <2>1. calls' \in Seq(Callbacks) /\ Len(calls') <= MaxCalls
    BY <2>0, EmptySeq
  <2>2. ResyncTypes'
    BY <1>10, EmptyRest DEF Restart, ResyncTypes, Places, NotFetched
  <2> QED
    BY <1>10, <2>0, <2>1, <2>2 DEF Restart, ExchangeTypes, LinkTypes, exchangeVars
<1>11. CASE UNCHANGED reconcilerVars
  BY <1>11 DEF ExchangeTypes, LinkTypes, ResyncTypes, exchangeVars, linkVars, resyncVars,
               reconcilerVars
<1> QED
  BY <1>1, <1>2, <1>3, <1>4, <1>5, <1>6, <1>7, <1>8, <1>9, <1>10, <1>11
     DEF ReconcilerNext, Deliver

LEMMA OwnTypesHold == ReconcilerSafety => []OwnTypes
<1>1. ReconcilerInit => OwnTypes
  <2> SUFFICES ASSUME ReconcilerInit PROVE OwnTypes
    OBVIOUS
  <2>1. ExchangeTypes
    <3>1. exOrders \in RestOrders
      BY EmptyRest DEF ReconcilerInit
    <3> QED
      BY <3>1, ReconcilerAssumption DEF ReconcilerInit, ExchangeTypes
  <2>2. calls = <<>> /\ connected = FALSE /\ MaxCalls \in Nat
    BY ReconcilerAssumption DEF ReconcilerInit
  <2>3. LinkTypes
    <3>1. calls \in Seq(Callbacks) /\ Len(calls) <= MaxCalls
      BY <2>2, EmptySeq
    <3> QED
      BY <2>2, <3>1 DEF LinkTypes
  <2>4. ResyncTypes
    BY EmptyRest DEF ReconcilerInit, ResyncTypes, Places, NotFetched
  <2> QED
    BY <2>1, <2>3, <2>4 DEF ReconcilerInit, OwnTypes
<1> QED
  BY <1>1, StepKeepsTypes, PTL DEF ReconcilerSafety

\* Every step is a step of the store, or leaves it alone.
LEMMA StepIsStoreStep ==
    ASSUME OwnTypes, [ReconcilerNext]_reconcilerVars
    PROVE  [StoreNext]_storeVars
<1>1. ASSUME NEW m \in Messages, ChangeBalances(m) \/ ChangeOrder(m) \/ EndStream(m)
      PROVE  UNCHANGED storeVars
  BY <1>1 DEF ChangeBalances, ChangeOrder, EndStream
<1>2. CASE LoseStream \/ Connect
  BY <1>2 DEF LoseStream, Connect
<1>3. ASSUME NEW m \in Messages, DeliverMessage(m) PROVE StoreNext
  BY <1>3 DEF DeliverMessage, StoreNext
<1>4. CASE DeliverLost
  BY <1>4 DEF DeliverLost, StoreNext
<1>5. ASSUME NEW r \in Resyncers, DeliverUp(r) \/ RequestResync(r) PROVE UNCHANGED storeVars
  BY <1>5 DEF DeliverUp, RequestResync, Begin
<1>6. ASSUME NEW r \in Resyncers, Apply(r) PROVE StoreNext
  <2> DEFINE s == [balances |-> fetched[r].balances, canTrade |-> TRUE]
  <2>1. ApplyRestSnapshot(s, fetched[r].orders)
    BY <1>6 DEF Apply
  <2>2. s \in Snapshot /\ fetched[r].orders \in RestOrders
    BY DEF OwnTypes, ResyncTypes, Snapshot
  <2> QED
    BY <2>1, <2>2 DEF StoreNext
<1>7. ASSUME NEW r \in Resyncers, MarkRestError(r) \/ MarkAndRaise(r) PROVE StoreNext
  BY <1>7 DEF MarkRestError, MarkAndRaise, StoreNext
<1>8. ASSUME NEW r \in Resyncers,
             GetAccount(r) \/ GetOrders(r) \/ RestFails(r) \/ CheckFails(r)
      PROVE  UNCHANGED storeVars
  BY <1>8 DEF GetAccount, GetOrders, RestFails, CheckFails
<1>9. CASE GoLive \/ ReportGap \/ Restart
  BY <1>9 DEF GoLive, ReportGap, Restart, StoreNext
<1>10. CASE UNCHANGED reconcilerVars
  BY <1>10 DEF reconcilerVars
<1> QED
  BY <1>1, <1>2, <1>3, <1>4, <1>5, <1>6, <1>7, <1>8, <1>9, <1>10
     DEF ReconcilerNext, Deliver, ResyncStep

\* Resyncs and callbacks, in whatever order the threads run them, use the store
\* as its own specification allows.
THEOREM ReconcilerImplementsStore == ReconcilerSafety => StoreSpec
<1>1. ReconcilerInit => StoreInit
  BY DEF ReconcilerInit
<1>2. OwnTypes /\ [ReconcilerNext]_reconcilerVars => [StoreNext]_storeVars
  BY StepIsStoreStep
<1> QED
  BY <1>1, <1>2, OwnTypesHold, PTL DEF ReconcilerSafety, StoreSpec

(***************************************************************************)
(* However resyncs and callbacks interleave, the risk layer is behind the  *)
(* fail-closed gate, and the readers of the store agree.                   *)
(***************************************************************************)
COROLLARY ReconcilerFailsClosed == ReconcilerSafety => GateRefined /\ []ReadersAgree
  BY ReconcilerImplementsStore, StoreRefinesGate, ReadersAlwaysAgree, PTL

\* The types, those of the store and those of the composition.
THEOREM ReconcilerTypes == ReconcilerSafety => []ReconcilerTypeOK
<1>1. StoreInv /\ OwnTypes => ReconcilerTypeOK
  BY DEF StoreInv, OwnTypes, ExchangeTypes, LinkTypes, ResyncTypes, ReconcilerTypeOK,
         Callbacks, Places
<1> QED
  BY <1>1, ReconcilerImplementsStore, StoreInvariant, OwnTypesHold, PTL
-----------------------------------------------------------------------------
(***************************************************************************)
(* What keeps BlockedUntilResync: only an applied resync writes RECONCILED,*)
(* so that a status with another value stays what it is until then.        *)
(***************************************************************************)
BlockInv == blocked => status # "RECONCILED"

LEMMA StepKeepsBlock ==
    ASSUME BlockInv, [ReconcilerNext]_reconcilerVars
    PROVE  BlockInv'
<1> USE DEF BlockInv
<1>1. ASSUME NEW m \in Messages, ChangeBalances(m) \/ ChangeOrder(m) \/ EndStream(m)
      PROVE  BlockInv'
  BY <1>1 DEF ChangeBalances, ChangeOrder, EndStream, storeVars, exposed
<1>2. CASE LoseStream \/ Connect
  BY <1>2 DEF LoseStream, Connect, storeVars, exposed
<1>3. ASSUME NEW m \in Messages, DeliverMessage(m) PROVE BlockInv'
  <2>1. /\ status' = status \/ status' = "STALE"
        /\ m.kind = "terminated" /\ ~IsDuplicate(m, seen) => status' = "STALE"
    BY <1>3, EventNeverReconciles, ReconcilerAssumption DEF DeliverMessage
  <2>2. blocked' <=> blocked \/ (m.kind = "terminated" /\ ~IsDuplicate(m, seen))
    BY <1>3 DEF DeliverMessage
  <2> QED
    BY <2>1, <2>2
<1>4. CASE DeliverLost
  BY <1>4 DEF DeliverLost, MarkStale, Mark
<1>5. ASSUME NEW r \in Resyncers, DeliverUp(r) \/ RequestResync(r) PROVE BlockInv'
  BY <1>5 DEF DeliverUp, RequestResync, Begin, storeVars, exposed
<1>6. ASSUME NEW r \in Resyncers, Apply(r) PROVE BlockInv'
  BY <1>6 DEF Apply
<1>7. ASSUME NEW r \in Resyncers, MarkRestError(r) \/ MarkAndRaise(r) PROVE BlockInv'
  BY <1>7 DEF MarkRestError, MarkAndRaise, MarkUnknown, Mark
<1>8. ASSUME NEW r \in Resyncers,
             GetAccount(r) \/ GetOrders(r) \/ RestFails(r) \/ CheckFails(r)
      PROVE  BlockInv'
  BY <1>8 DEF GetAccount, GetOrders, RestFails, CheckFails, storeVars, exposed
<1>9. CASE GoLive \/ ReportGap \/ Restart
  BY <1>9 DEF GoLive, BeginLiveStreaming, ReportGap, MarkUnknown, Mark, Restart, RestartClear
<1>10. CASE UNCHANGED reconcilerVars
  BY <1>10 DEF reconcilerVars, storeVars, exposed
<1> QED
  BY <1>1, <1>2, <1>3, <1>4, <1>5, <1>6, <1>7, <1>8, <1>9, <1>10
     DEF ReconcilerNext, Deliver, ResyncStep

\* However many threads resync, and whatever events and other failures come in
\* between: after a failure the risk layer gets nothing until a resync applies.
THEOREM FailureBlocks == ReconcilerSafety => []BlockedUntilResync
<1>1. ReconcilerInit => BlockInv
  BY DEF ReconcilerInit, BlockInv
<1>2. BlockInv => BlockedUntilResync
  BY DEF BlockInv, BlockedUntilResync, Open, BalancesForRisk
<1> QED
  BY <1>1, <1>2, StepKeepsBlock, PTL DEF ReconcilerSafety
-----------------------------------------------------------------------------
(***************************************************************************)
(* Why one thread converges.  The queue is what the exchange has reported  *)
(* and the store has not been told.  Behind the last loss, end or return of*)
(* the stream in it, the last message on an asset or an order says what the*)
(* exchange holds.  Once no such marker is left in the queue, what no      *)
(* message is about is what an open store holds already, or what the resync*)
(* under way has fetched: a marker leaves the queue only by closing the    *)
(* store or by beginning a resync.                                         *)
(***************************************************************************)
Marker(c) == c.kind \in {"lost", "up", "terminated"}

NoMarker(q) == \A i \in 1 .. Len(q) : ~Marker(q[i])

Mentions(c, a) == c.kind = "account" /\ a \in DOMAIN c.bals

Concerns(c, o) == c.kind = "order" /\ c.oid = o

\* The queued messages are younger the later they are, none older than what has
\* been seen, and none younger than the exchange's clock.
InOrder(q, ids, now) ==
    /\ \A i \in 1 .. Len(q) : q[i] \in Messages =>
          /\ q[i].time \in 1 .. now
          /\ q[i].kind = "order" => q[i].oid # None
          /\ \A j \in 1 .. Len(q) : i < j /\ q[j] \in Messages => q[i].time < q[j].time
    /\ \A id \in ids : \E n \in Messages :
          /\ id = EventId(n)
          /\ n.time \in 1 .. now
          /\ \A i \in 1 .. Len(q) : q[i] \in Messages => n.time < q[i].time

TellsBalances(q, held) ==
    \A i \in 1 .. Len(q), a \in Assets :
        /\ Mentions(q[i], a)
        /\ \A j \in 1 .. Len(q) : i < j => ~Marker(q[j]) /\ ~Mentions(q[j], a)
        => held[a] = q[i].bals[a]

OrderSays(m, book) ==
    IF m.terminal THEN m.oid \notin DOMAIN book
    ELSE m.oid \in DOMAIN book /\ book[m.oid].view = m.view

TellsOrders(q, book) ==
    \A i \in 1 .. Len(q), o \in OrderIds :
        /\ Concerns(q[i], o)
        /\ \A j \in 1 .. Len(q) : i < j => ~Marker(q[j]) /\ ~Concerns(q[j], o)
        => OrderSays(q[i], book)

BalancesTold(bals, q, held) ==
    \A a \in Assets : (\A i \in 1 .. Len(q) : ~Mentions(q[i], a)) =>
        a \in DOMAIN bals /\ bals[a] = held[a]

SameOrder(o, book1, book2) ==
    /\ o \in DOMAIN book1 <=> o \in DOMAIN book2
    /\ o \in DOMAIN book1 => book1[o].view = book2[o].view

OrdersTold(book, q, held) ==
    \A o \in OrderIds : (\A i \in 1 .. Len(q) : ~Concerns(q[i], o)) => SameOrder(o, book, held)

Idle == \A r \in Resyncers : ~Resyncing(r)

CaughtUp ==
    /\ \A r \in Resyncers :
          /\ pc[r] \in {"orders", "apply"} => BalancesTold(fetched[r].balances, calls, exBalances)
          /\ pc[r] = "apply" => OrdersTold(fetched[r].orders, calls, exOrders)
    /\ Idle /\ status = "RECONCILED" =>
          /\ BalancesTold(snapshot.balances, calls, exBalances)
          /\ OrdersTold(openOrders, calls, exOrders)

SyncInv ==
    /\ InOrder(calls, Range(seen), clock)
    /\ connected => TellsBalances(calls, exBalances) /\ TellsOrders(calls, exOrders)
    /\ connected /\ NoMarker(calls) => CaughtUp

\* A queue with one more callback.
LEMMA Appended ==
    ASSUME NEW q \in Seq(Callbacks), NEW c \in Callbacks, NEW p, p = Append(q, c)
    PROVE  /\ p \in Seq(Callbacks)
           /\ Len(q) \in Nat /\ Len(p) = Len(q) + 1
           /\ \A i \in 1 .. Len(q) : p[i] = q[i]
           /\ p[Len(p)] = c
           /\ 1 .. Len(p) = (1 .. Len(q)) \cup {Len(p)}
           /\ NoMarker(p) => NoMarker(q) /\ ~Marker(c)
  <1>1. /\ p \in Seq(Callbacks)
        /\ Len(q) \in Nat /\ Len(p) = Len(q) + 1
        /\ \A i \in 1 .. Len(q) : p[i] = q[i]
        /\ p[Len(q) + 1] = c
    BY AppendProperties, LenProperties
  <1>2. 1 .. Len(p) = (1 .. Len(q)) \cup {Len(p)}
    BY <1>1
  <1> QED
    BY <1>1, <1>2 DEF NoMarker

\* A queue without its oldest callback.
LEMMA Taken ==
    ASSUME NEW q \in Seq(Callbacks), q # <<>>, NEW p, p = Tail(q)
    PROVE  /\ p \in Seq(Callbacks)
           /\ Len(q) \in Nat \ {0} /\ Len(p) = Len(q) - 1
           /\ \A i \in 1 .. Len(p) : p[i] = q[i + 1] /\ i + 1 \in 1 .. Len(q)
           /\ \A i \in 1 .. Len(q) : i # 1 => q[i] = p[i - 1] /\ i - 1 \in 1 .. Len(p)
           /\ q[1] = Head(q) /\ Head(q) \in Callbacks
           /\ NoMarker(p) /\ ~Marker(Head(q)) => NoMarker(q)
  <1>1. /\ p \in Seq(Callbacks) /\ Head(q) \in Callbacks
        /\ Len(p) = Len(q) - 1
        /\ \A i \in 1 .. Len(p) : p[i] = q[i + 1]
    BY HeadTailProperties
  <1>2. Len(q) \in Nat \ {0} /\ q[1] = Head(q)
    BY EmptySeq, LenProperties, HeadTailProperties
  <1>3. \A i \in 1 .. Len(q) : i # 1 => q[i] = p[i - 1] /\ i - 1 \in 1 .. Len(p)
    <2> SUFFICES ASSUME NEW i \in 1 .. Len(q), i # 1
                 PROVE  q[i] = p[i - 1] /\ i - 1 \in 1 .. Len(p)
      OBVIOUS
    <2>1. i - 1 \in 1 .. Len(p) /\ (i - 1) + 1 = i
      BY <1>1, <1>2
    <2> QED
      BY <1>1, <2>1
  <1>4. \A i \in 1 .. Len(p) : i + 1 \in 1 .. Len(q)
    BY <1>1, <1>2
  <1>5. NoMarker(p) /\ ~Marker(Head(q)) => NoMarker(q)
    BY <1>2, <1>3 DEF NoMarker
  <1> QED
    BY <1>1, <1>2, <1>3, <1>4, <1>5

\* Any other callback leaves what the queue tells of balances, and of orders, alone.
LEMMA QuietForBalances ==
    ASSUME NEW q \in Seq(Callbacks), NEW c \in Callbacks, c.kind # "account",
           NEW p, p = Append(q, c), NEW held
    PROVE  /\ TellsBalances(q, held) => TellsBalances(p, held)
           /\ \A bals : BalancesTold(bals, q, held) => BalancesTold(bals, p, held)
  <1>1. /\ Len(q) \in Nat /\ Len(p) = Len(q) + 1
        /\ \A i \in 1 .. Len(q) : p[i] = q[i] /\ i \in 1 .. Len(p)
        /\ p[Len(p)] = c
        /\ \A i \in 1 .. Len(p) : i \in 1 .. Len(q) \/ i = Len(p)
    BY Appended
  <1>2. \A a : ~Mentions(c, a)
    BY DEF Mentions
  <1>3. ASSUME TellsBalances(q, held) PROVE TellsBalances(p, held)
    <2> SUFFICES ASSUME NEW i \in 1 .. Len(p), NEW a \in Assets, Mentions(p[i], a),
                        \A j \in 1 .. Len(p) : i < j => ~Marker(p[j]) /\ ~Mentions(p[j], a)
                 PROVE  held[a] = p[i].bals[a]
      BY DEF TellsBalances
    <2>1. i \in 1 .. Len(q) /\ p[i] = q[i]
      BY <1>1, <1>2
    <2>2. \A j \in 1 .. Len(q) : i < j => ~Marker(q[j]) /\ ~Mentions(q[j], a)
      BY <1>1
    <2> QED
      BY <1>3, <2>1, <2>2 DEF TellsBalances
  <1>4. \A bals : BalancesTold(bals, q, held) => BalancesTold(bals, p, held)
    BY <1>1 DEF BalancesTold
  <1> QED
    BY <1>3, <1>4

LEMMA QuietForOrders ==
    ASSUME NEW q \in Seq(Callbacks), NEW c \in Callbacks, c.kind # "order",
           NEW p, p = Append(q, c), NEW book
    PROVE  /\ TellsOrders(q, book) => TellsOrders(p, book)
           /\ \A b : OrdersTold(b, q, book) => OrdersTold(b, p, book)
  <1>1. /\ Len(q) \in Nat /\ Len(p) = Len(q) + 1
        /\ \A i \in 1 .. Len(q) : p[i] = q[i] /\ i \in 1 .. Len(p)
        /\ p[Len(p)] = c
        /\ \A i \in 1 .. Len(p) : i \in 1 .. Len(q) \/ i = Len(p)
    BY Appended
  <1>2. \A o : ~Concerns(c, o)
    BY DEF Concerns
  <1>3. ASSUME TellsOrders(q, book) PROVE TellsOrders(p, book)
    <2> SUFFICES ASSUME NEW i \in 1 .. Len(p), NEW o \in OrderIds, Concerns(p[i], o),
                        \A j \in 1 .. Len(p) : i < j => ~Marker(p[j]) /\ ~Concerns(p[j], o)
                 PROVE  OrderSays(p[i], book)
      BY DEF TellsOrders
    <2>1. i \in 1 .. Len(q) /\ p[i] = q[i]
      BY <1>1, <1>2
    <2>2. \A j \in 1 .. Len(q) : i < j => ~Marker(q[j]) /\ ~Concerns(q[j], o)
      BY <1>1
    <2> QED
      BY <1>3, <2>1, <2>2 DEF TellsOrders
  <1>4. \A b : OrdersTold(b, q, book) => OrdersTold(b, p, book)
    BY <1>1 DEF OrdersTold
  <1> QED
    BY <1>3, <1>4

\* A change of the balances is told by the report that is queued with it.
LEMMA BalancesReported ==
    ASSUME NEW q \in Seq(Callbacks), NEW c \in Callbacks, c.kind = "account",
           NEW p, p = Append(q, c), NEW held, NEW new,
           \A a \in Assets : new[a] = IF a \in DOMAIN c.bals THEN c.bals[a] ELSE held[a]
    PROVE  /\ TellsBalances(q, held) => TellsBalances(p, new)
           /\ \A bals : BalancesTold(bals, q, held) => BalancesTold(bals, p, new)
  <1>1. /\ Len(q) \in Nat /\ Len(p) = Len(q) + 1
        /\ \A i \in 1 .. Len(q) : p[i] = q[i] /\ i \in 1 .. Len(p) /\ i < Len(p)
        /\ p[Len(p)] = c /\ Len(p) \in 1 .. Len(p)
        /\ \A i \in 1 .. Len(p) : i \in 1 .. Len(q) \/ i = Len(p)
    BY Appended
  <1>2. \A a \in Assets : /\ Mentions(c, a) => new[a] = c.bals[a]
                          /\ ~Mentions(c, a) => new[a] = held[a]
    BY DEF Mentions
  <1>3. ASSUME TellsBalances(q, held) PROVE TellsBalances(p, new)
    <2> SUFFICES ASSUME NEW i \in 1 .. Len(p), NEW a \in Assets, Mentions(p[i], a),
                        \A j \in 1 .. Len(p) : i < j => ~Marker(p[j]) /\ ~Mentions(p[j], a)
                 PROVE  new[a] = p[i].bals[a]
      BY DEF TellsBalances
    <2>1. CASE i = Len(p)
      BY <1>1, <1>2, <2>1
    <2>2. CASE i \in 1 .. Len(q)
      <3>1. ~Mentions(c, a)
        BY <1>1, <2>2
      <3>2. \A j \in 1 .. Len(q) : i < j => ~Marker(q[j]) /\ ~Mentions(q[j], a)
        BY <1>1
      <3>3. held[a] = q[i].bals[a]
        BY <1>1, <1>3, <2>2, <3>2 DEF TellsBalances
      <3> QED
        BY <1>1, <1>2, <2>2, <3>1, <3>3
    <2> QED
      BY <1>1, <2>1, <2>2
  <1>4. ASSUME NEW bals, BalancesTold(bals, q, held) PROVE BalancesTold(bals, p, new)
    <2> SUFFICES ASSUME NEW a \in Assets, \A i \in 1 .. Len(p) : ~Mentions(p[i], a)
                 PROVE  a \in DOMAIN bals /\ bals[a] = new[a]
      BY DEF BalancesTold
    <2>1. new[a] = held[a]
      BY <1>1, <1>2
    <2>2. \A i \in 1 .. Len(q) : ~Mentions(q[i], a)
      BY <1>1
    <2> QED
      BY <1>4, <2>1, <2>2 DEF BalancesTold
  <1> QED
    BY <1>3, <1>4

\* So is a change of an order.
LEMMA OrderReported ==
    ASSUME NEW q \in Seq(Callbacks), NEW c \in Callbacks, c.kind = "order",
           NEW p, p = Append(q, c), NEW held, NEW new,
           OrderSays(c, new), \A o \in OrderIds : c.oid # o => SameOrder(o, new, held)
    PROVE  /\ TellsOrders(q, held) => TellsOrders(p, new)
           /\ \A b : OrdersTold(b, q, held) => OrdersTold(b, p, new)
  <1>1. /\ Len(q) \in Nat /\ Len(p) = Len(q) + 1
        /\ \A i \in 1 .. Len(q) : p[i] = q[i] /\ i \in 1 .. Len(p) /\ i < Len(p)
        /\ p[Len(p)] = c /\ Len(p) \in 1 .. Len(p)
        /\ \A i \in 1 .. Len(p) : i \in 1 .. Len(q) \/ i = Len(p)
    BY Appended
  <1>2. \A o \in OrderIds : ~Concerns(c, o) => SameOrder(o, new, held)
    BY DEF Concerns
  <1>3. ASSUME TellsOrders(q, held) PROVE TellsOrders(p, new)
    <2> SUFFICES ASSUME NEW i \in 1 .. Len(p), NEW o \in OrderIds, Concerns(p[i], o),
                        \A j \in 1 .. Len(p) : i < j => ~Marker(p[j]) /\ ~Concerns(p[j], o)
                 PROVE  OrderSays(p[i], new)
      BY DEF TellsOrders
    <2>1. CASE i = Len(p)
      BY <1>1, <2>1
    <2>2. CASE i \in 1 .. Len(q)
      <3>1. ~Concerns(c, o)
        BY <1>1, <2>2
      <3>2. \A j \in 1 .. Len(q) : i < j => ~Marker(q[j]) /\ ~Concerns(q[j], o)
        BY <1>1
      <3>3. p[i] = q[i] /\ OrderSays(q[i], held) /\ q[i].oid = o
        BY <1>1, <1>3, <2>2, <3>2 DEF TellsOrders, Concerns
      <3> QED
        BY <1>2, <3>1, <3>3 DEF OrderSays, SameOrder
    <2> QED
      BY <1>1, <2>1, <2>2
  <1>4. ASSUME NEW b, OrdersTold(b, q, held) PROVE OrdersTold(b, p, new)
    <2> SUFFICES ASSUME NEW o \in OrderIds, \A i \in 1 .. Len(p) : ~Concerns(p[i], o)
                 PROVE  SameOrder(o, b, new)
      BY DEF OrdersTold
    <2>1. SameOrder(o, new, held)
      BY <1>1, <1>2
    <2>2. \A i \in 1 .. Len(q) : ~Concerns(q[i], o)
      BY <1>1
    <2>3. SameOrder(o, b, held)
      BY <1>4, <2>2 DEF OrdersTold
    <2> QED
      BY <2>1, <2>3 DEF SameOrder
  <1> QED
    BY <1>3, <1>4

\* What a report with an order id makes of a book, the exchange's or the store's.
LEMMA Reduced ==
    ASSUME NEW m, NEW book, NEW fields, NEW new,
           new = IF m.terminal THEN Drop(m.oid, book)
                 ELSE Overlay([o \in {m.oid} |-> [view |-> m.view, restFields |-> fields]], book)
    PROVE  OrderSays(m, new) /\ \A o : m.oid # o => SameOrder(o, new, book)
  <1>1. CASE m.terminal
    <2>1. new = [o \in DOMAIN book \ {m.oid} |-> book[o]]
      BY <1>1 DEF Drop, Restrict
    <2> QED
      BY <1>1, <2>1 DEF OrderSays, SameOrder
  <1>2. CASE ~m.terminal
    <2> DEFINE one == [o \in {m.oid} |-> [view |-> m.view, restFields |-> fields]]
    <2>1. DOMAIN one = {m.oid} /\ one[m.oid].view = m.view
      OBVIOUS
    <2>2. new = Overlay(one, book)
      BY <1>2
    <2> HIDE DEF one
    <2>3. /\ \A o : o \in DOMAIN new <=> o = m.oid \/ o \in DOMAIN book
          /\ new[m.oid] = one[m.oid]
          /\ \A o \in DOMAIN book : o # m.oid => new[o] = book[o]
      BY <2>1, <2>2 DEF Overlay
    <2> QED
      BY <1>2, <2>1, <2>3 DEF OrderSays, SameOrder
  <1> QED
    BY <1>1, <1>2

\* What the rest of a queue tells is what the queue told.
LEMMA RestTells ==
    ASSUME NEW q \in Seq(Callbacks), q # <<>>, NEW p, p = Tail(q), NEW held, NEW book
    PROVE  /\ TellsBalances(q, held) => TellsBalances(p, held)
           /\ TellsOrders(q, book) => TellsOrders(p, book)
  <1>1. /\ Len(q) \in Nat \ {0} /\ Len(p) = Len(q) - 1
        /\ \A i \in 1 .. Len(p) : p[i] = q[i + 1] /\ i + 1 \in 1 .. Len(q)
        /\ \A i \in 1 .. Len(q) : i # 1 => q[i] = p[i - 1] /\ i - 1 \in 1 .. Len(p)
    BY Taken
  <1>2. \A i \in 1 .. Len(p), j \in 1 .. Len(q) :
           i + 1 < j => /\ j - 1 \in 1 .. Len(p) /\ i < j - 1 /\ q[j] = p[j - 1]
    BY <1>1
  <1>3. ASSUME TellsBalances(q, held) PROVE TellsBalances(p, held)
    <2> SUFFICES ASSUME NEW i \in 1 .. Len(p), NEW a \in Assets, Mentions(p[i], a),
                        \A j \in 1 .. Len(p) : i < j => ~Marker(p[j]) /\ ~Mentions(p[j], a)
                 PROVE  held[a] = p[i].bals[a]
      BY DEF TellsBalances
    <2>1. \A j \in 1 .. Len(q) : i + 1 < j => ~Marker(q[j]) /\ ~Mentions(q[j], a)
      BY <1>2
    <2>2. i + 1 \in 1 .. Len(q) /\ p[i] = q[i + 1]
      BY <1>1
    <2> QED
      BY <1>3, <2>1, <2>2 DEF TellsBalances
  <1>4. ASSUME TellsOrders(q, book) PROVE TellsOrders(p, book)
    <2> SUFFICES ASSUME NEW i \in 1 .. Len(p), NEW o \in OrderIds, Concerns(p[i], o),
                        \A j \in 1 .. Len(p) : i < j => ~Marker(p[j]) /\ ~Concerns(p[j], o)
                 PROVE  OrderSays(p[i], book)
      BY DEF TellsOrders
    <2>1. \A j \in 1 .. Len(q) : i + 1 < j => ~Marker(q[j]) /\ ~Concerns(q[j], o)
      BY <1>2
    <2>2. i + 1 \in 1 .. Len(q) /\ p[i] = q[i + 1]
      BY <1>1
    <2> QED
      BY <1>4, <2>1, <2>2 DEF TellsOrders
  <1> QED
    BY <1>3, <1>4

\* Balances that were told but for a queue are told but for its rest once its head is
\* applied to them.
LEMMA BalancesCatchUp ==
    ASSUME NEW q \in Seq(Callbacks), q # <<>>, NEW p, p = Tail(q), NoMarker(p),
           NEW held, TellsBalances(q, held),
           NEW bals, BalancesTold(bals, q, held),
           NEW new,
           \A a \in Assets : Mentions(Head(q), a) =>
              a \in DOMAIN new /\ new[a] = Head(q).bals[a],
           \A a \in Assets : ~Mentions(Head(q), a) /\ a \in DOMAIN bals =>
              a \in DOMAIN new /\ new[a] = bals[a]
    PROVE  BalancesTold(new, p, held)
  <1>1. /\ Len(q) \in Nat \ {0} /\ q[1] = Head(q) /\ 1 \in 1 .. Len(q)
        /\ \A i \in 1 .. Len(q) : i # 1 => q[i] = p[i - 1] /\ i - 1 \in 1 .. Len(p)
    BY Taken
  <1> SUFFICES ASSUME NEW a \in Assets, \A i \in 1 .. Len(p) : ~Mentions(p[i], a)
               PROVE  a \in DOMAIN new /\ new[a] = held[a]
    BY DEF BalancesTold
  <1>2. \A j \in 1 .. Len(q) : j # 1 => ~Marker(q[j]) /\ ~Mentions(q[j], a)
    BY <1>1 DEF NoMarker
  <1>3. CASE Mentions(Head(q), a)
    <2>1. \A j \in 1 .. Len(q) : 1 < j => ~Marker(q[j]) /\ ~Mentions(q[j], a)
      BY <1>2
    <2>2. held[a] = q[1].bals[a]
      BY <1>1, <1>3, <2>1 DEF TellsBalances
    <2> QED
      BY <1>1, <1>3, <2>2
  <1>4. CASE ~Mentions(Head(q), a)
    <2>1. \A j \in 1 .. Len(q) : ~Mentions(q[j], a)
      BY <1>1, <1>2, <1>4
    <2>2. a \in DOMAIN bals /\ bals[a] = held[a]
      BY <2>1 DEF BalancesTold
    <2> QED
      BY <1>4, <2>2
  <1> QED
    BY <1>3, <1>4

LEMMA OrdersCatchUp ==
    ASSUME NEW q \in Seq(Callbacks), q # <<>>, NEW p, p = Tail(q), NoMarker(p),
           NEW held, TellsOrders(q, held),
           NEW book, OrdersTold(book, q, held),
           NEW new,
           \A o \in OrderIds : Concerns(Head(q), o) => OrderSays(Head(q), new),
           \A o \in OrderIds : ~Concerns(Head(q), o) => SameOrder(o, new, book)
    PROVE  OrdersTold(new, p, held)
  <1>1. /\ Len(q) \in Nat \ {0} /\ q[1] = Head(q) /\ 1 \in 1 .. Len(q)
        /\ \A i \in 1 .. Len(q) : i # 1 => q[i] = p[i - 1] /\ i - 1 \in 1 .. Len(p)
    BY Taken
  <1> SUFFICES ASSUME NEW o \in OrderIds, \A i \in 1 .. Len(p) : ~Concerns(p[i], o)
               PROVE  SameOrder(o, new, held)
    BY DEF OrdersTold
  <1>2. \A j \in 1 .. Len(q) : j # 1 => ~Marker(q[j]) /\ ~Concerns(q[j], o)
    BY <1>1 DEF NoMarker
  <1>3. CASE Concerns(Head(q), o)
    <2>1. \A j \in 1 .. Len(q) : 1 < j => ~Marker(q[j]) /\ ~Concerns(q[j], o)
      BY <1>2
    <2>2. OrderSays(Head(q), held) /\ OrderSays(Head(q), new) /\ Head(q).oid = o
      BY <1>1, <1>3, <2>1 DEF TellsOrders, Concerns
    <2> QED
      BY <2>2 DEF OrderSays, SameOrder
  <1>4. CASE ~Concerns(Head(q), o)
    <2>1. \A j \in 1 .. Len(q) : ~Concerns(q[j], o)
      BY <1>1, <1>2, <1>4
    <2>2. SameOrder(o, book, held) /\ SameOrder(o, new, book)
      BY <1>4, <2>1 DEF OrdersTold
    <2> QED
      BY <2>2 DEF SameOrder
  <1> QED
    BY <1>3, <1>4
-----------------------------------------------------------------------------
\* Two messages of one event id have one time.
LEMMA OneTime ==
    ASSUME NEW m \in Messages, NEW n \in Messages, EventId(m) = EventId(n)
    PROVE  m.time = n.time
  <1>1. \A x \in Messages :
           /\ x.kind = "terminated" => EventId(x)[1] = "term" /\ EventId(x)[2] = x.time
           /\ x.kind = "account" => EventId(x)[1] = "acct" /\ EventId(x)[2] = x.time
           /\ x.kind = "order" => EventId(x)[1] = "exec" /\ EventId(x)[3] = x.time
    BY DEF EventId
  <1>2. /\ m.kind \in {"account", "order", "terminated"}
        /\ n.kind \in {"account", "order", "terminated"}
    BY MessageKinds
  <1> QED
    BY <1>1, <1>2

\* A message that waits was never seen.
LEMMA NeverDuplicate ==
    ASSUME NEW q \in Seq(Callbacks), NEW now, InOrder(q, Range(seen), now),
           NEW i \in 1 .. Len(q), q[i] \in Messages, now \in Nat
    PROVE  ~IsDuplicate(q[i], seen)
  <1> SUFFICES ASSUME EventId(q[i]) \in Range(seen) PROVE FALSE
    BY DEF IsDuplicate
  <1>1. PICK n \in Messages : EventId(q[i]) = EventId(n) /\ n.time < q[i].time
    BY DEF InOrder
  <1>2. q[i].time = n.time /\ q[i].time \in 1 .. now
    BY <1>1, OneTime DEF InOrder
  <1> QED
    BY <1>1, <1>2

\* A report of the next tick is younger than all there is.
LEMMA ReportInOrder ==
    ASSUME NEW q \in Seq(Callbacks), NEW ids, NEW now \in Nat, InOrder(q, ids, now),
           NEW m \in Messages, m.time = now + 1, m.kind = "order" => m.oid # None,
           NEW p, p = Append(q, m)
    PROVE  InOrder(q, ids, now + 1) /\ InOrder(p, ids, now + 1)
  <1>1. /\ Len(q) \in Nat /\ Len(p) = Len(q) + 1 /\ p[Len(p)] = m
        /\ \A i \in 1 .. Len(q) : p[i] = q[i]
        /\ \A i \in 1 .. Len(p) : i \in 1 .. Len(q) \/ i = Len(p)
    BY Appended DEF Callbacks
  <1>2. \A t \in 1 .. now : t \in 1 .. now + 1 /\ t < now + 1
    OBVIOUS
  <1>3. InOrder(q, ids, now + 1)
    BY <1>2 DEF InOrder
  <1>4. ASSUME NEW i \in 1 .. Len(p), p[i] \in Messages
        PROVE  /\ p[i].time \in 1 .. now + 1
               /\ p[i].kind = "order" => p[i].oid # None
               /\ \A j \in 1 .. Len(p) : i < j /\ p[j] \in Messages => p[i].time < p[j].time
    <2>1. CASE i = Len(p)
      <3>1. \A j \in 1 .. Len(p) : ~(i < j)
        BY <1>1, <2>1
      <3> QED
        BY <1>1, <2>1, <3>1
    <2>2. CASE i \in 1 .. Len(q)
      <3>1. /\ q[i].time \in 1 .. now
            /\ q[i].kind = "order" => q[i].oid # None
            /\ \A j \in 1 .. Len(q) : i < j /\ q[j] \in Messages => q[i].time < q[j].time
        BY <1>1, <1>4, <2>2 DEF InOrder
      <3> QED
        BY <1>1, <1>2, <2>2, <3>1
    <2> QED
      BY <1>1, <2>1, <2>2
  <1>5. ASSUME NEW id \in ids
        PROVE  \E n \in Messages :
                  /\ id = EventId(n)
                  /\ n.time \in 1 .. now + 1
                  /\ \A i \in 1 .. Len(p) : p[i] \in Messages => n.time < p[i].time
    <2>1. PICK n \in Messages :
             /\ id = EventId(n)
             /\ n.time \in 1 .. now
             /\ \A i \in 1 .. Len(q) : q[i] \in Messages => n.time < q[i].time
      BY DEF InOrder
    <2>2. \A i \in 1 .. Len(p) : p[i] \in Messages => n.time < p[i].time
      BY <1>1, <1>2, <2>1
    <2> QED
      BY <1>2, <2>1, <2>2
  <1>6. InOrder(p, ids, now + 1)
    BY <1>4, <1>5 DEF InOrder
  <1> QED
    BY <1>3, <1>6

\* A loss or a return of the stream behind some of the queue.
LEMMA SignalInOrder ==
    ASSUME NEW q \in Seq(Callbacks), NEW ids, NEW now, InOrder(q, ids, now),
           NEW k \in Seq(Callbacks), Len(k) <= Len(q), \A i \in 1 .. Len(k) : k[i] = q[i],
           NEW c \in {Lost, Up}, NEW p, p = Append(k, c)
    PROVE  InOrder(p, ids, now)
  <1>1. c \in Callbacks /\ c \notin Messages
    BY MessageKinds DEF Callbacks
  <1>2. /\ Len(k) \in Nat /\ Len(p) = Len(k) + 1 /\ p[Len(p)] = c
        /\ \A i \in 1 .. Len(k) : p[i] = k[i]
        /\ \A i \in 1 .. Len(p) : i \in 1 .. Len(k) \/ i = Len(p)
    BY <1>1, Appended
  <1>3. \A i \in 1 .. Len(p) : p[i] \in Messages => i \in 1 .. Len(q) /\ p[i] = q[i]
    <2>1. \A i \in 1 .. Len(k) : i \in 1 .. Len(q)
      BY <1>2, LenProperties
    <2> QED
      BY <1>1, <1>2, <2>1
  <1> QED
    BY <1>3 DEF InOrder

\* The oldest callback goes; a message is remembered then, and little else.
LEMMA RestInOrder ==
    ASSUME NEW q \in Seq(Callbacks), q # <<>>, NEW p, p = Tail(q),
           NEW ids, NEW now, InOrder(q, ids, now), NEW ids2,
           \A id \in ids2 : id \in ids \/ (Head(q) \in Messages /\ id = EventId(Head(q)))
    PROVE  InOrder(p, ids2, now)
  <1>1. /\ Len(q) \in Nat \ {0} /\ q[1] = Head(q) /\ 1 \in 1 .. Len(q)
        /\ \A i \in 1 .. Len(p) : p[i] = q[i + 1] /\ i + 1 \in 1 .. Len(q) /\ 1 < i + 1
    BY Taken
  <1>2. \A i, j \in 1 .. Len(p) : i < j => i + 1 < j + 1
    OBVIOUS
  <1>3. ASSUME NEW i \in 1 .. Len(p), p[i] \in Messages
        PROVE  /\ p[i].time \in 1 .. now
               /\ p[i].kind = "order" => p[i].oid # None
               /\ \A j \in 1 .. Len(p) : i < j /\ p[j] \in Messages => p[i].time < p[j].time
    BY <1>1, <1>2, <1>3 DEF InOrder
  <1>4. ASSUME NEW id \in ids2
        PROVE  \E n \in Messages :
                  /\ id = EventId(n)
                  /\ n.time \in 1 .. now
                  /\ \A i \in 1 .. Len(p) : p[i] \in Messages => n.time < p[i].time
    <2>1. CASE id \in ids
      <3>1. PICK n \in Messages :
               /\ id = EventId(n)
               /\ n.time \in 1 .. now
               /\ \A i \in 1 .. Len(q) : q[i] \in Messages => n.time < q[i].time
        BY <2>1 DEF InOrder
      <3> QED
        BY <1>1, <3>1
    <2>2. CASE Head(q) \in Messages /\ id = EventId(Head(q))
      BY <1>1, <2>2 DEF InOrder
    <2> QED
      BY <2>1, <2>2
  <1> QED
    BY <1>3, <1>4 DEF InOrder
-----------------------------------------------------------------------------
\* The steps of the exchange and of the stream.
LEMMA ChangeOfBalancesKeepsSync ==
    ASSUME OwnTypes, SyncInv, NEW m \in Messages, ChangeBalances(m)
    PROVE  SyncInv'
<1>1. /\ calls \in Seq(Callbacks) /\ m \in Callbacks /\ clock \in Nat
      /\ calls' = IF connected THEN Append(calls, m) ELSE calls
      /\ m.kind = "account" /\ m.time = clock + 1 /\ clock' = clock + 1
      /\ exBalances' = Overlay(m.bals, exBalances)
      /\ UNCHANGED <<status, snapshot, openOrders, seen, exOrders, connected, pc, fetched>>
  BY ReconcilerAssumption DEF OwnTypes, LinkTypes, ExchangeTypes, Callbacks, ChangeBalances, Tick, Report, storeVars,
         exposed, resyncVars
<1>2. InOrder(calls', Range(seen'), clock')
  BY <1>1, ReportInOrder DEF SyncInv
<1>3. CASE ~connected
  BY <1>1, <1>2, <1>3 DEF SyncInv
<1>4. CASE connected
  <2>1. calls' = Append(calls, m)
    BY <1>1, <1>4
  <2>2. \A a \in Assets : exBalances'[a] = IF a \in DOMAIN m.bals THEN m.bals[a] ELSE exBalances[a]
    BY <1>1 DEF Overlay, OwnTypes, ExchangeTypes
  <2>3. calls \in Seq(Callbacks) /\ m \in Callbacks /\ m.kind = "account"
    BY <1>1
  <2>4. /\ TellsBalances(calls, exBalances) => TellsBalances(calls', exBalances')
        /\ \A bals : BalancesTold(bals, calls, exBalances) => BalancesTold(bals, calls', exBalances')
    BY <2>3, <2>1, <2>2, BalancesReported
  <2>5. TellsBalances(calls', exBalances') /\ TellsOrders(calls', exOrders')
    <3>1. TellsBalances(calls', exBalances')
      BY <1>4, <2>4 DEF SyncInv
    <3>2. TellsOrders(calls', exOrders)
      BY <1>1, <1>4, <2>1, QuietForOrders DEF SyncInv
    <3> QED
      BY <1>1, <3>1, <3>2
  <2>6. ASSUME NoMarker(calls') PROVE CaughtUp'
    <3>1. CaughtUp
      BY <1>1, <1>4, <2>1, <2>6, Appended DEF SyncInv
    <3>2. \A b : OrdersTold(b, calls, exOrders) => OrdersTold(b, calls', exOrders')
      BY <1>1, <2>1, QuietForOrders
    <3> QED
      BY <1>1, <2>4, <3>1, <3>2 DEF CaughtUp, Idle, Resyncing
  <2> QED
    BY <1>2, <2>5, <2>6 DEF SyncInv
<1> QED
  BY <1>3, <1>4

LEMMA ChangeOfOrderKeepsSync ==
    ASSUME OwnTypes, SyncInv, NEW m \in Messages, ChangeOrder(m)
    PROVE  SyncInv'
<1>1. /\ calls \in Seq(Callbacks) /\ m \in Callbacks /\ clock \in Nat
      /\ calls' = IF connected THEN Append(calls, m) ELSE calls
      /\ m.kind = "order" /\ m.time = clock + 1 /\ clock' = clock + 1 /\ m.oid # None
      /\ exOrders' = IF m.terminal THEN Drop(m.oid, exOrders)
                     ELSE Overlay([o \in {m.oid} |-> [view |-> m.view, restFields |-> TRUE]],
                                  exOrders)
      /\ UNCHANGED <<status, snapshot, openOrders, seen, exBalances, connected, pc, fetched>>
  BY ReconcilerAssumption DEF OwnTypes, LinkTypes, ExchangeTypes, Callbacks, ChangeOrder, Tick, Report, storeVars,
         exposed, resyncVars
<1>2. InOrder(calls', Range(seen'), clock')
  BY <1>1, ReportInOrder DEF SyncInv
<1>3. CASE ~connected
  BY <1>1, <1>2, <1>3 DEF SyncInv
<1>4. CASE connected
  <2>1. calls' = Append(calls, m)
    BY <1>1, <1>4
  <2>2. OrderSays(m, exOrders') /\ \A o \in OrderIds : m.oid # o => SameOrder(o, exOrders', exOrders)
    BY <1>1, Reduced
  <2>3. calls \in Seq(Callbacks) /\ m \in Callbacks /\ m.kind = "order"
    BY <1>1
  <2>4. /\ TellsOrders(calls, exOrders) => TellsOrders(calls', exOrders')
        /\ \A b : OrdersTold(b, calls, exOrders) => OrdersTold(b, calls', exOrders')
    BY <2>3, <2>1, <2>2, OrderReported
  <2>5. TellsBalances(calls', exBalances') /\ TellsOrders(calls', exOrders')
    <3>1. TellsBalances(calls', exBalances)
      BY <1>1, <1>4, <2>1, QuietForBalances DEF SyncInv
    <3>2. TellsOrders(calls', exOrders')
      BY <1>4, <2>4 DEF SyncInv
    <3> QED
      BY <1>1, <3>1, <3>2
  <2>6. ASSUME NoMarker(calls') PROVE CaughtUp'
    <3>1. CaughtUp
      BY <1>1, <1>4, <2>1, <2>6, Appended DEF SyncInv
    <3>2. \A bals : BalancesTold(bals, calls, exBalances) => BalancesTold(bals, calls', exBalances')
      BY <1>1, <2>1, QuietForBalances
    <3> QED
      BY <1>1, <2>4, <3>1, <3>2 DEF CaughtUp, Idle, Resyncing
  <2> QED
    BY <1>2, <2>5, <2>6 DEF SyncInv
<1> QED
  BY <1>3, <1>4

LEMMA StreamKeepsSync ==
    ASSUME OwnTypes, SyncInv, (\E m \in Messages : EndStream(m)) \/ LoseStream \/ Connect
    PROVE  SyncInv'
<1>0. calls \in Seq(Callbacks) /\ clock \in Nat
  BY ReconcilerAssumption DEF OwnTypes, LinkTypes, ExchangeTypes
<1>1. ASSUME NEW m \in Messages, EndStream(m) PROVE SyncInv'
  <2>1. /\ calls' = Append(calls, m) /\ m.kind = "terminated" /\ m.time = clock + 1
        /\ clock' = clock + 1 /\ connected' = FALSE /\ seen' = seen
    BY <1>1 DEF EndStream, Tick, Report, storeVars
  <2>2. InOrder(calls', Range(seen'), clock')
    BY <1>0, <2>1, ReportInOrder DEF SyncInv
  <2> QED
    BY <2>1, <2>2 DEF SyncInv
<1>2. CASE LoseStream
  <2>1. PICK n \in 0 .. Len(calls) : calls' = Append(SubSeq(calls, 1, n), Lost)
    BY <1>2 DEF LoseStream
  <2> DEFINE kept == SubSeq(calls, 1, n)
  <2>2. kept \in Seq(Callbacks) /\ Len(kept) = n /\ \A i \in 1 .. n : kept[i] = calls[i]
    <3>1. Len(calls) \in Nat /\ n \in Nat /\ n <= Len(calls)
      BY <1>0, LenProperties
    <3>2. \A i \in 1 .. n : calls[i] \in Callbacks
      BY <1>0, <3>1, ElementOfSeq
    <3> QED
      BY <1>0, <3>1, <3>2, SubSeqProperties
  <2> HIDE DEF kept
  <2>3. InOrder(calls', Range(seen), clock)
    <3>1. calls' = Append(kept, Lost) /\ Len(kept) <= Len(calls)
      BY <1>0, <2>1, <2>2, LenProperties DEF kept
    <3> QED
      BY <1>0, <2>2, <3>1, SignalInOrder DEF SyncInv
  <2>4. connected' = FALSE /\ seen' = seen /\ clock' = clock
    BY <1>2 DEF LoseStream, storeVars, exchangeVars
  <2> QED
    BY <2>3, <2>4 DEF SyncInv
<1>3. CASE Connect
  <2>1. calls' = Append(calls, Up) /\ Up \in Callbacks /\ Marker(Up)
        /\ UNCHANGED <<seen, clock>>
    BY <1>3 DEF Connect, Callbacks, Up, Marker, storeVars, exchangeVars
  <2>2. InOrder(calls', Range(seen), clock)
    <3>1. \A i \in 1 .. Len(calls) : calls[i] = calls[i]
      OBVIOUS
    <3>2. Len(calls) <= Len(calls) 
      BY <1>0, LenProperties
    <3> QED
      BY <1>0, <2>1, <3>1, <3>2, SignalInOrder DEF SyncInv
  <2>3. ~NoMarker(calls')
    BY <1>0, <2>1, Appended
  <2>4. TellsBalances(calls', exBalances') /\ TellsOrders(calls', exOrders')
    <3>1. /\ Len(calls) \in Nat /\ Len(calls') = Len(calls) + 1 /\ calls'[Len(calls')] = Up
          /\ Len(calls') \in 1 .. Len(calls')
          /\ \A i \in 1 .. Len(calls') : i < Len(calls') \/ i = Len(calls')
      BY <1>0, <2>1, Appended
    <3>2. \A a : ~Mentions(Up, a) /\ ~Concerns(Up, a)
      BY DEF Mentions, Concerns, Up
    <3>3. TellsBalances(calls', exBalances')
      BY <2>1, <3>1, <3>2 DEF TellsBalances
    <3>4. TellsOrders(calls', exOrders')
      BY <2>1, <3>1, <3>2 DEF TellsOrders
    <3> QED
      BY <3>3, <3>4
  <2> QED
    BY <2>1, <2>2, <2>3, <2>4 DEF SyncInv
<1> QED
  BY <1>1, <1>2, <1>3

\* An event that was not seen before leaves an open store open only by being applied.
LEMMA EventApplied ==
    ASSUME StoreInv, NEW m \in Messages, ~IsDuplicate(m, seen), ApplyPrivateEvent(m),
           status' = "RECONCILED"
    PROVE  /\ status = "RECONCILED"
           /\ m.kind \in {"account", "order"}
           /\ snapshot \in Snapshot
           /\ IF m.kind = "account"
              THEN snapshot'.balances = Overlay(m.bals, snapshot.balances)
              ELSE snapshot' = snapshot
           /\ openOrders' = IF m.kind = "order" THEN ReduceOrder(m) ELSE openOrders
  <1>1. Normalizable(m) /\ m.kind \in {"account", "order", "terminated"}
    BY MessageKinds, ReconcilerAssumption
  <1>2. ~IgnoreEvent(m)
    BY <1>1 DEF IgnoreEvent
  <1>3. ~StreamTerminated(m)
    BY DEF StreamTerminated
  <1>4. ~EventBeforeBaseline(m)
    BY DEF EventBeforeBaseline, exposed, StoreInv, PhaseMatchesStatus
  <1>5. ReduceEvent(m)
    BY <1>2, <1>3, <1>4 DEF ApplyPrivateEvent
  <1>6. status = "RECONCILED" /\ snapshot # None /\ snapshot \in Snapshot \cup {None}
    BY <1>5 DEF ReduceEvent, StoreInv, StoreTypeOK, PhaseMatchesStatus
  <1>7. m.kind = "account" => ReduceBalances(m.bals).balances = Overlay(m.bals, snapshot.balances)
    BY <1>6, MessageFields, ReduceBalancesType
  <1> QED
    BY <1>1, <1>5, <1>6, <1>7 DEF ReduceEvent

\* Only an event that is applied is remembered.
LEMMA EventRemembered ==
    ASSUME StoreInv, NEW m \in Messages, ApplyPrivateEvent(m)
    PROVE  \A id \in Range(seen') : id \in Range(seen) \/ id = EventId(m)
  <1>1. CASE seen' = seen
    BY <1>1
  <1>2. CASE RecordEvent(m)
    <2>1. EventId(m) \in StoredIds /\ seen \in Seq(StoredIds) /\ MaxEventIds \in Nat
      BY <1>2, StoreAssumption DEF StoredIds, RecordEvent, StoreInv, StoreTypeOK
    <2>2. Range(Remember(seen, EventId(m), MaxEventIds)) \subseteq Range(seen) \cup {EventId(m)}
      BY <2>1, RememberElements
    <2> QED
      BY <1>2, <2>2 DEF RecordEvent
  <1> QED
    BY <1>1, <1>2 DEF ApplyPrivateEvent, IgnoreEvent, StreamTerminated, EventBeforeBaseline,
                      ReduceEvent, storeVars

LEMMA DeliveryKeepsSync ==
    ASSUME Serialised, OwnTypes, StoreInv, SyncInv, NEW m \in Messages, DeliverMessage(m)
    PROVE  SyncInv'
<1>1. /\ calls \in Seq(Callbacks) /\ calls # <<>> /\ Head(calls) = m /\ calls' = Tail(calls)
      /\ ApplyPrivateEvent(m) /\ Idle /\ clock \in Nat
      /\ UNCHANGED <<exBalances, exOrders, clock, connected, pc, fetched>>
  BY ReconcilerAssumption DEF OwnTypes, LinkTypes, ExchangeTypes, DeliverMessage, Take, MayRun, Idle,
         exchangeVars, resyncVars
<1>2. calls[1] = m /\ 1 \in 1 .. Len(calls) /\ Head(calls) \in Messages
  BY <1>1, Taken
<1>3. InOrder(calls', Range(seen'), clock)
  BY <1>1, <1>2, EventRemembered, RestInOrder DEF SyncInv
<1>4. ~IsDuplicate(m, seen)
  BY <1>1, <1>2, NeverDuplicate DEF SyncInv
<1>5. CASE ~connected
  BY <1>1, <1>3, <1>5 DEF SyncInv
<1>6. CASE connected
  <2>1. TellsBalances(calls', exBalances) /\ TellsOrders(calls', exOrders)
    BY <1>1, <1>6, RestTells DEF SyncInv
  <2>2. ASSUME NoMarker(calls') PROVE CaughtUp'
    <3>1. \A r \in Resyncers : pc'[r] = "idle"
      BY <1>1 DEF Idle, Resyncing
    <3> SUFFICES ASSUME status' = "RECONCILED"
                 PROVE  /\ BalancesTold(snapshot'.balances, calls', exBalances)
                        /\ OrdersTold(openOrders', calls', exOrders)
      BY <1>1, <3>1 DEF CaughtUp
    <3>2. /\ status = "RECONCILED" /\ m.kind \in {"account", "order"}
          /\ IF m.kind = "account"
             THEN snapshot'.balances = Overlay(m.bals, snapshot.balances)
             ELSE snapshot' = snapshot
          /\ openOrders' = IF m.kind = "order" THEN ReduceOrder(m) ELSE openOrders
      BY <1>1, <1>4, EventApplied
    <3>3. CaughtUp
      <4>1. NoMarker(calls)
        BY <1>1, <2>2, <3>2, Taken DEF Marker
      <4> QED
        BY <1>6, <4>1 DEF SyncInv
    <3>4. BalancesTold(snapshot'.balances, calls', exBalances)
      <4>1. /\ \A a \in Assets : Mentions(m, a) =>
                   /\ a \in DOMAIN snapshot'.balances
                   /\ snapshot'.balances[a] = m.bals[a]
            /\ \A a \in Assets : ~Mentions(m, a) /\ a \in DOMAIN snapshot.balances =>
                   /\ a \in DOMAIN snapshot'.balances
                   /\ snapshot'.balances[a] = snapshot.balances[a]
        BY <3>2 DEF Mentions, Overlay
      <4>2. TellsBalances(calls, exBalances) /\ BalancesTold(snapshot.balances, calls, exBalances)
        BY <1>1, <1>6, <3>2, <3>3 DEF SyncInv, CaughtUp
      <4> QED
        BY <1>1, <2>2, <4>1, <4>2, BalancesCatchUp
    <3>5. OrdersTold(openOrders', calls', exOrders)
      <4>1. TellsOrders(calls, exOrders) /\ OrdersTold(openOrders, calls, exOrders)
        BY <1>1, <1>6, <3>2, <3>3 DEF SyncInv, CaughtUp
      <4>2. /\ \A o \in OrderIds : Concerns(m, o) => OrderSays(m, openOrders')
            /\ \A o \in OrderIds : ~Concerns(m, o) => SameOrder(o, openOrders', openOrders)
        <5>1. CASE m.kind = "order"
          <6>1. m.oid # None
            BY <1>2, <5>1 DEF SyncInv, InOrder
          <6> DEFINE fields == m.oid \in DOMAIN openOrders /\ openOrders[m.oid].restFields
          <6>2. openOrders' =
                  IF m.terminal THEN Drop(m.oid, openOrders)
                  ELSE Overlay([o \in {m.oid} |-> [view |-> m.view, restFields |-> fields]],
                               openOrders)
            BY <3>2, <5>1, <6>1 DEF ReduceOrder
          <6> HIDE DEF fields
          <6>3. OrderSays(m, openOrders')
                /\ \A o : m.oid # o => SameOrder(o, openOrders', openOrders)
            BY <6>2, Reduced
          <6> QED
            BY <5>1, <6>3 DEF Concerns
        <5>2. CASE m.kind # "order"
          BY <3>2, <5>2 DEF Concerns, SameOrder
        <5> QED
          BY <5>1, <5>2
      <4> QED
        BY <1>1, <2>2, <4>1, <4>2, OrdersCatchUp
    <3> QED
      BY <3>4, <3>5
  <2> QED
    BY <1>1, <1>3, <2>1, <2>2 DEF SyncInv
<1> QED
  BY <1>5, <1>6

\* At the start nothing waits and nothing was seen.
LEMMA NothingInOrder == \A now : InOrder(<<>>, Range(<<>>), now)
  <1>1. Len(<<>>) = 0 /\ Range(<<>>) = {}
    BY DEF Range
  <1> QED
    BY <1>1 DEF InOrder

LEMMA LossKeepsSync ==
    ASSUME Serialised, OwnTypes, SyncInv, DeliverLost
    PROVE  SyncInv'
<1>1. /\ calls \in Seq(Callbacks) /\ calls # <<>> /\ calls' = Tail(calls)
      /\ Idle /\ status' = "STALE"
      /\ UNCHANGED <<exBalances, exOrders, clock, connected, pc, fetched, seen>>
  BY DEF OwnTypes, LinkTypes, DeliverLost, Take, MayRun, Idle, MarkStale, Mark, exchangeVars,
         resyncVars
<1>2. InOrder(calls', Range(seen), clock)
  BY <1>1, RestInOrder DEF SyncInv
<1>3. connected => TellsBalances(calls', exBalances) /\ TellsOrders(calls', exOrders)
  BY <1>1, RestTells DEF SyncInv
<1>4. CaughtUp'
  BY <1>1 DEF CaughtUp, Idle, Resyncing
<1> QED
  BY <1>1, <1>2, <1>3, <1>4 DEF SyncInv

\* A resync begins, on its own or because the stream is back.
LEMMA BeginKeepsSync ==
    ASSUME Serialised, OwnTypes, SyncInv, NEW r \in Resyncers, DeliverUp(r) \/ RequestResync(r)
    PROVE  SyncInv'
<1>1. /\ calls \in Seq(Callbacks)
      /\ calls' = calls \/ (calls # <<>> /\ calls' = Tail(calls))
      /\ Idle /\ pc' = [pc EXCEPT ![r] = "account"] /\ pc \in [Resyncers -> Places]
      /\ UNCHANGED <<exBalances, exOrders, clock, connected, seen>>
  BY DEF OwnTypes, LinkTypes, ResyncTypes, DeliverUp, RequestResync, Take, Begin, GoTo, MayRun, Idle,
         exchangeVars, storeVars
<1>2. InOrder(calls', Range(seen), clock)
  BY <1>1, RestInOrder DEF SyncInv
<1>3. connected => TellsBalances(calls', exBalances) /\ TellsOrders(calls', exOrders)
  BY <1>1, RestTells DEF SyncInv
<1>4. CaughtUp'
  <2>1. pc'[r] = "account" /\ \A q \in Resyncers : pc'[q] \in {"idle", "account"}
    BY <1>1 DEF Idle, Resyncing
  <2> QED
    BY <2>1 DEF CaughtUp, Idle, Resyncing
<1> QED
  BY <1>1, <1>2, <1>3, <1>4 DEF SyncInv

\* What a resync fetches is told but for the queue, and then the store has it.
LEMMA ResyncKeepsSync ==
    ASSUME OwnTypes, StoreInv, SyncInv, NEW r \in Resyncers, ResyncStep(r)
    PROVE  SyncInv'
<1>1. UNCHANGED <<exBalances, exOrders, clock, connected, calls>>
  BY ResyncLeaves DEF exchangeVars, linkVars
<1>2. seen' = seen
  BY DEF ResyncStep, GetAccount, GetOrders, RestFails, CheckFails, Apply, MarkRestError,
         MarkAndRaise, MarkUnknown, Mark, ApplyRestSnapshot, storeVars
<1>3. pc \in [Resyncers -> Places]
      /\ fetched \in [Resyncers -> [balances : Balances, orders : RestOrders]]
  BY DEF OwnTypes, ResyncTypes
<1> SUFFICES ASSUME CaughtUp PROVE CaughtUp'
  BY <1>1, <1>2 DEF SyncInv
<1>4. CASE GetAccount(r)
  <2>1. fetched' = [fetched EXCEPT ![r].balances = exBalances]
    BY <1>4, FetchIsExact DEF OwnTypes
  <2>2. pc' = [pc EXCEPT ![r] = "orders"] /\ UNCHANGED storeVars
    BY <1>4 DEF GetAccount, GoTo
  <2>3. BalancesTold(exBalances, calls, exBalances)
    BY DEF BalancesTold, OwnTypes, ExchangeTypes
  <2>4. ~Idle'
    BY <1>3, <2>2 DEF Idle, Resyncing
  <2>5. ASSUME NEW q \in Resyncers
        PROVE  /\ pc'[q] \in {"orders", "apply"} => BalancesTold(fetched'[q].balances, calls, exBalances)
               /\ pc'[q] = "apply" => OrdersTold(fetched'[q].orders, calls, exOrders)
    <3>1. CASE q = r
      <4>1. pc'[q] = "orders" /\ fetched'[q].balances = exBalances
        BY <1>3, <2>1, <2>2, <3>1
      <4> QED
        BY <2>3, <4>1
    <3>2. CASE q # r
      <4>1. pc'[q] = pc[q] /\ fetched'[q] = fetched[q]
        BY <1>3, <2>1, <2>2, <3>2
      <4> QED
        BY <4>1 DEF CaughtUp
    <3> QED
      BY <3>1, <3>2
  <2> QED
    BY <1>1, <2>4, <2>5 DEF CaughtUp
<1>5. CASE GetOrders(r)
  <2>1. fetched' = [fetched EXCEPT ![r].orders = exOrders]
    BY <1>5, FetchIsExact DEF OwnTypes
  <2>2. pc[r] = "orders" /\ pc' = [pc EXCEPT ![r] = "apply"] /\ UNCHANGED storeVars
    BY <1>5 DEF GetOrders, GoTo
  <2>3. OrdersTold(exOrders, calls, exOrders)
    BY DEF OrdersTold, SameOrder
  <2>4. ~Idle'
    BY <1>3, <2>2 DEF Idle, Resyncing
  <2>5. ASSUME NEW q \in Resyncers
        PROVE  /\ pc'[q] \in {"orders", "apply"} => BalancesTold(fetched'[q].balances, calls, exBalances)
               /\ pc'[q] = "apply" => OrdersTold(fetched'[q].orders, calls, exOrders)
    <3>1. CASE q = r
      <4>1. fetched'[q].orders = exOrders /\ fetched'[q].balances = fetched[q].balances
        BY <1>3, <2>1, <3>1
      <4> QED
        BY <2>2, <2>3, <3>1, <4>1 DEF CaughtUp
    <3>2. CASE q # r
      <4>1. pc'[q] = pc[q] /\ fetched'[q] = fetched[q]
        BY <1>3, <2>1, <2>2, <3>2
      <4> QED
        BY <4>1 DEF CaughtUp
    <3> QED
      BY <3>1, <3>2
  <2> QED
    BY <1>1, <2>4, <2>5 DEF CaughtUp
<1>6. CASE Apply(r)
  <2>1. /\ pc[r] = "apply" /\ pc' = [pc EXCEPT ![r] = "idle"]
        /\ fetched' = [fetched EXCEPT ![r] = NotFetched]
        /\ snapshot'.balances = fetched[r].balances /\ openOrders' = fetched[r].orders
    BY <1>6 DEF Apply, ApplyRestSnapshot, End, GoTo
  <2>2. /\ BalancesTold(snapshot'.balances, calls, exBalances)
        /\ OrdersTold(openOrders', calls, exOrders)
    BY <2>1 DEF CaughtUp
  <2>3. \A q \in Resyncers : pc'[q] = "idle" \/ (pc'[q] = pc[q] /\ fetched'[q] = fetched[q])
    BY <1>3, <2>1
  <2> QED
    BY <1>1, <2>2, <2>3 DEF CaughtUp
<1>7. CASE RestFails(r) \/ CheckFails(r) \/ MarkRestError(r)
  <2>1. /\ pc' = [pc EXCEPT ![r] = "error"] \/ pc' = [pc EXCEPT ![r] = "mark"]
        /\ fetched' = fetched
    BY <1>7 DEF RestFails, CheckFails, MarkRestError, GoTo
  <2>2. ~Idle' /\ \A q \in Resyncers : pc'[q] \in {"error", "mark"} \/ pc'[q] = pc[q]
    BY <1>3, <2>1 DEF Idle, Resyncing
  <2> QED
    BY <1>1, <2>1, <2>2 DEF CaughtUp
<1>8. CASE MarkAndRaise(r)
  <2>1. /\ pc' = [pc EXCEPT ![r] = "idle"] /\ fetched' = [fetched EXCEPT ![r] = NotFetched]
        /\ status' = "UNKNOWN"
    BY <1>8 DEF MarkAndRaise, MarkUnknown, Mark, End, GoTo
  <2>2. \A q \in Resyncers : pc'[q] = "idle" \/ (pc'[q] = pc[q] /\ fetched'[q] = fetched[q])
    BY <1>3, <2>1
  <2> QED
    BY <1>1, <2>1, <2>2 DEF CaughtUp
<1> QED
  BY <1>4, <1>5, <1>6, <1>7, <1>8 DEF ResyncStep

LEMMA StepKeepsSync ==
    ASSUME Serialised, OwnTypes, StoreInv, SyncInv, [ReconcilerNext]_reconcilerVars
    PROVE  SyncInv'
<1>1. ASSUME NEW m \in Messages, ChangeBalances(m) \/ ChangeOrder(m) \/ EndStream(m)
      PROVE  SyncInv'
  BY <1>1, ChangeOfBalancesKeepsSync, ChangeOfOrderKeepsSync, StreamKeepsSync
<1>2. CASE LoseStream \/ Connect
  BY <1>2, StreamKeepsSync
<1>3. CASE Deliver
  BY <1>3, DeliveryKeepsSync, LossKeepsSync, BeginKeepsSync DEF Deliver
<1>4. ASSUME NEW r \in Resyncers, RequestResync(r) \/ ResyncStep(r) PROVE SyncInv'
  BY <1>4, BeginKeepsSync, ResyncKeepsSync
<1>5. CASE GoLive
  BY <1>5 DEF GoLive, BeginLiveStreaming, SyncInv, CaughtUp, Idle, Resyncing, exchangeVars, linkVars,
              resyncVars
<1>6. CASE ReportGap
  BY <1>6 DEF ReportGap, MarkUnknown, Mark, SyncInv, CaughtUp, Idle, Resyncing, MayRun, exchangeVars,
              linkVars, resyncVars
<1>7. CASE Restart
  <2>1. calls' = <<>> /\ seen' = <<>> /\ connected' = FALSE
    BY <1>7 DEF Restart, RestartClear
  <2> QED
    BY <2>1, NothingInOrder DEF SyncInv
<1>8. CASE UNCHANGED reconcilerVars
  BY <1>8 DEF reconcilerVars, storeVars, exposed, exchangeVars, linkVars, resyncVars, SyncInv, CaughtUp,
              Idle, Resyncing
<1> QED
  BY <1>1, <1>2, <1>3, <1>4, <1>5, <1>6, <1>7, <1>8 DEF ReconcilerNext

(***************************************************************************)
(* With one thread for every callback and every resync, an open store holds*)
(* the account the exchange holds once every report has been delivered,    *)
(* whatever was lost, failed or restarted before (reconciler.py:30-86).    *)
(***************************************************************************)
THEOREM Convergence == Serialised => (ReconcilerSafety => []Converged)
<1> SUFFICES ASSUME Serialised PROVE ReconcilerSafety => []Converged
  OBVIOUS
<1>1. ReconcilerInit => SyncInv
  BY NothingInOrder DEF ReconcilerInit, StoreInit, SyncInv
<1>2. OwnTypes /\ StoreInv /\ SyncInv /\ [ReconcilerNext]_reconcilerVars => SyncInv'
  BY StepKeepsSync
<1>3. OwnTypes /\ StoreInv /\ SyncInv => Converged
  <2> SUFFICES ASSUME OwnTypes, StoreInv, SyncInv, Quiescent, Open
               PROVE  /\ snapshot.balances = exBalances
                      /\ DOMAIN openOrders = DOMAIN exOrders
                      /\ \A o \in DOMAIN exOrders : openOrders[o].view = exOrders[o].view
    BY DEF Converged
  <2>1. connected /\ calls = <<>> /\ Idle /\ Len(calls) = 0 /\ NoMarker(calls)
    BY DEF Quiescent, Idle, NoMarker
  <2>2. status = "RECONCILED" /\ snapshot \in Snapshot
    BY DEF Open, BalancesForRisk, StoreInv, StoreTypeOK
  <2>3. /\ \A a \in Assets : a \in DOMAIN snapshot.balances /\ snapshot.balances[a] = exBalances[a]
        /\ \A o \in OrderIds : SameOrder(o, openOrders, exOrders)
    BY <2>1, <2>2 DEF SyncInv, CaughtUp, BalancesTold, OrdersTold
  <2>4. snapshot.balances = exBalances
    <3>1. /\ DOMAIN snapshot.balances \in SUBSET Assets
          /\ snapshot.balances \in [DOMAIN snapshot.balances -> Amounts]
      BY <2>2, DictsDomain DEF Snapshot, Balances
    <3>2. exBalances \in [Assets -> Amounts]
      BY DEF OwnTypes, ExchangeTypes
    <3> QED
      BY <2>3, <3>1, <3>2
  <2>5. DOMAIN openOrders \in SUBSET OrderIds /\ DOMAIN exOrders \in SUBSET OrderIds
    BY DictsDomain DEF OwnTypes, ExchangeTypes, RestOrders, StoreInv, StoreTypeOK, OrderBook
  <2> QED
    BY <2>3, <2>4, <2>5 DEF SameOrder
<1> QED
  BY <1>1, <1>2, <1>3, ReconcilerImplementsStore, StoreInvariant, OwnTypesHold, PTL DEF ReconcilerSafety
=============================================================================
