------------------------- MODULE StelloEventsProofs --------------------------
(***************************************************************************)
(* What the events say, for every set of bookings and calls.  The stream   *)
(* always explains the difference between what the indexer knows and what  *)
(* the contract stores: applied to the one, one after the other, its       *)
(* events lead to the other.                                               *)
(***************************************************************************)
EXTENDS StelloEvents, StelloBookingProofs

\* What an indexer has derived, and what it derives from the next event.
Known == [index |-> index, books |-> books]

After(x, e) ==
    LET old == x.index[e.booking_id]
    IN  [index |-> Put(x.index, e.booking_id, Entry(old, e)),
         books |-> Booked(x.books, old, e)]

\* An event may follow: its booking is not settled yet, and a settlement
\* settles it.
Follows(x, e) ==
    /\ e.booking_id \in DOMAIN x.index => ~x.index[e.booking_id].settled
    /\ e.type = "SettlementExecuted" => After(x, e).index[e.booking_id].settled

\* No booking is forgotten, and none is settled no more.
Grows(x, y) ==
    \A id \in DOMAIN x.index :
        id \in DOMAIN y.index /\ (x.index[id].settled => y.index[id].settled)

\* h[0], h[1], ... is what the indexer derives from the events s in turn.
Derives(h, s) ==
    /\ \A i \in 1 .. Len(s) : Follows(h[i - 1], s[i]) /\ h[i] = After(h[i - 1], s[i])
    /\ \A i, k \in 0 .. Len(s) : i <= k => Grows(h[i], h[k])

\* What the indexer will have derived once it has caught up: the records as
\* the contract stores them, and the balances as the token does, but for what
\* each address has given to the contract directly, which no event of the
\* contract reports; of the contract itself, the escrow it accounts for.
Stored == [id \in DOMAIN booking |-> Seen(booking[id])]

Gifts == { g \in [Address -> Nat] : Donations = {} => \A a \in Address : g[a] = 0 }

InBooks(bal, g, total) ==
    [a \in Address |-> IF a = Contract THEN total ELSE bal[a] + g[a]]

Balances(g) == InBooks(balance, g, total_escrowed)

Mirrors(x) == x.index = Stored /\ \E g \in Gifts : x.books = Balances(g)

\* The events s lead from x to y.
Leads(s, x, y) ==
    \E h : Derives(h, s) /\ h[0] = x /\ h[Len(s)] = y

\* The events of the stream lead from what is known to what is stored.
StreamExplains ==
    \E S, s, x, y : /\ s \in Seq(S) /\ s = stream /\ x = Known
                    /\ Leads(s, x, y) /\ Mirrors(y)

EventsInv == Inv /\ StreamExplains

-----------------------------------------------------------------------------
(* Sequences of events.                                                    *)

\* What an event that may follow leads to has grown.
LEMMA AfterGrows ==
    ASSUME NEW x, NEW e, Follows(x, e)
    PROVE  Grows(x, After(x, e))
  <1> DEFINE entry == Entry(x.index[e.booking_id], e)
  <1>1. After(x, e).index = Put(x.index, e.booking_id, entry)
    BY DEF After
  <1> HIDE DEF entry
  <1>2. \A id \in DOMAIN x.index : id \in DOMAIN After(x, e).index
    BY <1>1 DEF Put
  <1>3. \A id \in DOMAIN x.index : id # e.booking_id =>
           After(x, e).index[id] = x.index[id]
    BY <1>1 DEF Put
  <1> QED
    BY <1>2, <1>3 DEF Grows, Follows

\* Nothing to read leads nowhere else.
LEMMA LeadsEmpty ==
    ASSUME NEW x
    PROVE  Leads(<<>>, x, x)
  <1> DEFINE h == [i \in {0} |-> x]
  <1>1. Derives(h, <<>>)
    BY DEF Derives, Grows
  <1> QED
    BY <1>1 DEF Leads

\* One more event that may follow leads one step further.
LEMMA LeadsAppend ==
    ASSUME NEW S, NEW s \in Seq(S), NEW x, NEW y, Leads(s, x, y),
           NEW e, Follows(y, e)
    PROVE  Leads(Append(s, e), x, After(y, e))
  <1> DEFINE n == Len(s)
             z == After(y, e)
             t == Append(s, e)
  <1>1. PICK h : Derives(h, s) /\ h[0] = x /\ h[n] = y
    BY DEF Leads
  <1> DEFINE g == [i \in 0 .. n + 1 |-> IF i = n + 1 THEN z ELSE h[i]]
  <1>2. n \in Nat /\ Len(t) = n + 1
    OBVIOUS
  <1>3. t[n + 1] = e /\ \A i \in 1 .. n : t[i] = s[i]
    OBVIOUS
  <1>4. g[0] = x /\ g[n + 1] = z /\ \A i \in 0 .. n : g[i] = h[i]
    BY <1>1, <1>2
  <1>5. Grows(y, z)
    BY AfterGrows
  <1> HIDE DEF g, z, t, n
  <1>6. \A i \in 1 .. n + 1 : Follows(g[i - 1], t[i]) /\ g[i] = After(g[i - 1], t[i])
    <2>1. Follows(g[n], t[n + 1]) /\ g[n + 1] = After(g[n], t[n + 1])
      BY <1>1, <1>2, <1>3, <1>4 DEF z
    <2>2. ASSUME NEW i \in 1 .. n
          PROVE  Follows(g[i - 1], t[i]) /\ g[i] = After(g[i - 1], t[i])
      <3>1. Follows(h[i - 1], s[i]) /\ h[i] = After(h[i - 1], s[i])
        BY <1>1, <2>2 DEF Derives, n
      <3>2. g[i - 1] = h[i - 1] /\ g[i] = h[i] /\ t[i] = s[i]
        BY <1>2, <1>3, <1>4, <2>2
      <3> QED
        BY <3>1, <3>2
    <2>3. \A i \in 1 .. n + 1 : i = n + 1 \/ i \in 1 .. n
      BY <1>2
    <2> QED
      BY <1>2, <2>1, <2>2, <2>3
  <1>7. \A i, k \in 0 .. n + 1 : i <= k => Grows(g[i], g[k])
    <2>1. \A i, k \in 0 .. n : i <= k => Grows(g[i], g[k])
      BY <1>1, <1>4 DEF Derives, n
    <2>2. \A i \in 0 .. n : Grows(g[i], z)
      <3>1. \A i \in 0 .. n : Grows(g[i], y)
        BY <1>1, <1>2, <1>4, <2>1
      <3> QED
        BY <1>5, <3>1 DEF Grows
    <2>3. Grows(z, z)
      BY DEF Grows
    <2>4. \A i \in 0 .. n + 1 : i = n + 1 \/ i \in 0 .. n
      BY <1>2
    <2>5. \A i \in 0 .. n : ~(n + 1 <= i)
      BY <1>2
    <2> QED
      BY <1>4, <2>1, <2>2, <2>3, <2>4, <2>5
  <1>8. Derives(g, t)
    BY <1>2, <1>6, <1>7 DEF Derives
  <1> QED
    BY <1>2, <1>4, <1>8 DEF Leads, t, z

\* Once the first event is read, the rest leads to the same end.
LEMMA LeadsTail ==
    ASSUME NEW S, NEW s \in Seq(S), s # <<>>, NEW x, NEW y, Leads(s, x, y)
    PROVE  Leads(Tail(s), After(x, Head(s)), y)
  <1> DEFINE n == Len(s)
             t == Tail(s)
  <1>1. PICK h : Derives(h, s) /\ h[0] = x /\ h[n] = y
    BY DEF Leads
  <1> DEFINE g == [i \in 0 .. n - 1 |-> h[i + 1]]
  <1>2. n \in Nat /\ n >= 1 /\ Len(t) = n - 1 /\ Head(s) = s[1]
    OBVIOUS
  <1>3. \A i \in 1 .. n - 1 : t[i] = s[i + 1]
    BY <1>2
  <1>4. g[0] = h[1] /\ g[n - 1] = y /\ \A i \in 0 .. n - 1 : g[i] = h[i + 1]
    BY <1>1, <1>2
  <1>5. h[1] = After(x, Head(s))
    <2>1. 1 \in 1 .. n /\ 1 - 1 = 0
      BY <1>2
    <2> QED
      BY <1>1, <1>2, <2>1 DEF Derives
  <1> HIDE DEF g, t, n
  <1>6. ASSUME NEW i \in 1 .. n - 1
        PROVE  Follows(g[i - 1], t[i]) /\ g[i] = After(g[i - 1], t[i])
    <2>1. i + 1 \in 1 .. n /\ (i + 1) - 1 = i /\ i - 1 \in 0 .. n - 1
             /\ i \in 0 .. n - 1 /\ (i - 1) + 1 = i
      BY <1>2, <1>6
    <2>2. Follows(h[i], s[i + 1]) /\ h[i + 1] = After(h[i], s[i + 1])
      BY <1>1, <2>1 DEF Derives, n
    <2>3. g[i - 1] = h[i] /\ g[i] = h[i + 1] /\ t[i] = s[i + 1]
      BY <1>3, <1>4, <1>6, <2>1
    <2> QED
      BY <2>2, <2>3
  <1>7. ASSUME NEW i \in 0 .. n - 1, NEW k \in 0 .. n - 1, i <= k
        PROVE  Grows(g[i], g[k])
    <2>1. i + 1 \in 0 .. n /\ k + 1 \in 0 .. n /\ i + 1 <= k + 1
      BY <1>2, <1>7
    <2>2. Grows(h[i + 1], h[k + 1])
      BY <1>1, <2>1 DEF Derives, n
    <2> QED
      BY <1>4, <1>7, <2>2
  <1>8. Derives(g, t)
    BY <1>2, <1>6, <1>7 DEF Derives
  <1> QED
    BY <1>2, <1>4, <1>5, <1>8 DEF Leads, t

\* The same for the one, two or three events that a call publishes.
LEMMA LeadsOnOne ==
    ASSUME NEW S, NEW s \in Seq(S), NEW x, NEW y, Leads(s, x, y),
           NEW e1, NEW z1, z1 = After(y, e1), Follows(y, e1)
    PROVE  Leads(s \o <<e1>>, x, z1) /\ s \o <<e1>> \in Seq(S \cup {e1})
  <1>1. s \o <<e1>> = Append(s, e1)
    OBVIOUS
  <1>2. Append(s, e1) \in Seq(S \cup {e1})
    OBVIOUS
  <1> QED
    BY <1>1, <1>2, LeadsAppend

\* Two events: the cancellation or resolution, then its settlement.
LEMMA LeadsOnTwo ==
    ASSUME NEW S, NEW s \in Seq(S), NEW x, NEW y, Leads(s, x, y),
           NEW e1, NEW z1, z1 = After(y, e1), Follows(y, e1),
           NEW e2, NEW z2, z2 = After(z1, e2), Follows(z1, e2)
    PROVE  Leads(s \o <<e1, e2>>, x, z2) /\ \E T : s \o <<e1, e2>> \in Seq(T)
  <1> DEFINE t == s \o <<e1>>
  <1>1. Leads(t, x, z1) /\ t \in Seq(S \cup {e1})
    BY LeadsOnOne
  <1>2. s \o <<e1, e2>> = t \o <<e2>>
    OBVIOUS
  <1> HIDE DEF t
  <1>3. Leads(t \o <<e2>>, x, z2) /\ t \o <<e2>> \in Seq((S \cup {e1}) \cup {e2})
    BY <1>1, LeadsOnOne
  <1> QED
    BY <1>2, <1>3

\* Three events: the host's fee comes first.
LEMMA LeadsOnThree ==
    ASSUME NEW S, NEW s \in Seq(S), NEW x, NEW y, Leads(s, x, y),
           NEW e1, NEW z1, z1 = After(y, e1), Follows(y, e1),
           NEW e2, NEW z2, z2 = After(z1, e2), Follows(z1, e2),
           NEW e3, NEW z3, z3 = After(z2, e3), Follows(z2, e3)
    PROVE  Leads(s \o <<e1, e2, e3>>, x, z3) /\ \E T : s \o <<e1, e2, e3>> \in Seq(T)
  <1> DEFINE t == s \o <<e1>>
  <1>1. Leads(t, x, z1) /\ t \in Seq(S \cup {e1})
    BY LeadsOnOne
  <1>2. s \o <<e1, e2, e3>> = t \o <<e2, e3>>
    OBVIOUS
  <1> HIDE DEF t
  <1>3. Leads(t \o <<e2, e3>>, x, z3) /\ \E T : t \o <<e2, e3>> \in Seq(T)
    BY <1>1, LeadsOnTwo
  <1> QED
    BY <1>2, <1>3

\* What events lead to depends on no variable but the fixed configuration.
LEMMA LeadsConstant ==
    ASSUME config' = config, NEW s, NEW x, NEW y, Leads(s, x, y)
    PROVE  Leads(s, x, y)'
  <1>1. \A b : Payee(b)' = Payee(b)
    BY DEF Payee
  <1>2. \A sums, old, e : Booked(sums, old, e)' = Booked(sums, old, e)
    BY <1>1 DEF Booked
  <1>3. \A v, e : After(v, e)' = After(v, e)
    BY <1>2 DEF After
  <1>4. \A v, e : Follows(v, e) => Follows(v, e)'
    BY <1>3 DEF Follows
  <1>5. \A h : Derives(h, s) => Derives(h, s)'
    BY <1>3, <1>4 DEF Derives
  <1> QED
    BY <1>5 DEF Leads

-----------------------------------------------------------------------------
(* What the events of a call do to the indexer's view of its booking.      *)

\* x agrees with what is stored, but for booking id, of which it says u, and
\* for the balances, of which it says bal.
MirrorsAs(x, id, u, bal) ==
    x.index = Put(Stored, id, u) /\ x.books = bal

\* Before the call the view agrees.
LEMMA MirrorsBefore ==
    ASSUME NEW id \in DOMAIN booking, NEW x, Mirrors(x)
    PROVE  \E g \in Gifts : MirrorsAs(x, id, Seen(booking[id]), Balances(g))
  BY DEF Mirrors, MirrorsAs, Stored, Put

\* An event may follow as long as the booking is not settled.
LEMMA EventFollows ==
    ASSUME NEW id \in DOMAIN booking, NEW u, NEW bal, NEW x,
           MirrorsAs(x, id, u, bal), ~u.settled,
           NEW e, e.booking_id = id,
           e.type = "SettlementExecuted" => Entry(u, e).settled
    PROVE  Follows(x, e)
  <1>1. x.index[id] = u
    BY DEF MirrorsAs, Put
  <1>2. After(x, e).index = Put(x.index, id, Entry(u, e))
    BY <1>1 DEF After
  <1>3. After(x, e).index[id] = Entry(u, e)
    BY <1>2 DEF Put
  <1> QED
    BY <1>1, <1>3 DEF Follows

\* One event turns the entry and the balances over.
LEMMA EventTurns ==
    ASSUME NEW id \in DOMAIN booking, NEW u, NEW bal, NEW x,
           MirrorsAs(x, id, u, bal), ~u.settled,
           NEW e, e.booking_id = id,
           NEW v, v = Entry(u, e), NEW sums, sums = Booked(bal, u, e),
           e.type = "SettlementExecuted" => v.settled,
           NEW z, z = After(x, e)
    PROVE  Follows(x, e) /\ MirrorsAs(z, id, v, sums)
  <1>1. x.index[id] = u
    BY DEF MirrorsAs, Put
  <1>2. z.index = Put(x.index, id, v)
    BY <1>1 DEF After
  <1>3. z.index = Put(Stored, id, v)
    BY <1>2 DEF MirrorsAs, Put
  <1>4. z.books = Booked(x.books, u, e)
    BY <1>1 DEF After
  <1>5. Follows(x, e)
    BY EventFollows
  <1> QED
    BY <1>3, <1>4, <1>5 DEF MirrorsAs

\* After the call the view agrees again.
LEMMA MirrorsAfter ==
    ASSUME NEW id \in DOMAIN booking, NEW record, NEW x, NEW bal,
           booking' = [booking EXCEPT ![id] = record],
           MirrorsAs(x, id, Seen(record), bal),
           NEW g \in Gifts, bal = Balances(g)'
    PROVE  Mirrors(x)'
  <1>1. Stored' = Put(Stored, id, Seen(record))
    BY DEF Stored, Put
  <1> QED
    BY <1>1 DEF Mirrors, MirrorsAs

\* A transfer between others leaves the contract's place in the books.
LEMMA TransferInBooks ==
    ASSUME NEW bal \in [Address -> Nat], NEW g \in Gifts, NEW total \in Int,
           NEW from \in Address \ {Contract}, NEW to \in Address \ {Contract},
           NEW amount \in Nat
    PROVE  Transfer(InBooks(bal, g, total), from, to, amount)
             = InBooks(Transfer(bal, from, to, amount), g, total)
  <1> DEFINE lhs == Transfer(InBooks(bal, g, total), from, to, amount)
             rhs == InBooks(Transfer(bal, from, to, amount), g, total)
  <1>1. \A a \in Address : bal[a] \in Nat /\ g[a] \in Nat
    BY DEF Gifts
  <1>2. \A a \in Address : lhs[a] = rhs[a]
    BY <1>1 DEF Transfer, InBooks
  <1> QED
    BY <1>2 DEF Transfer, InBooks

\* What a traveller locks adds to it, whatever else the contract owns.
LEMMA DepositInBooks ==
    ASSUME NEW bal \in [Address -> Nat], NEW g \in Gifts, NEW total \in Int,
           NEW from \in Address \ {Contract}, NEW amount \in Nat
    PROVE  Transfer(InBooks(bal, g, total), from, Contract, amount)
             = InBooks(Transfer(bal, from, Contract, amount), g, total + amount)
  <1> DEFINE lhs == Transfer(InBooks(bal, g, total), from, Contract, amount)
             rhs == InBooks(Transfer(bal, from, Contract, amount), g, total + amount)
  <1>1. /\ Contract \in Address
        /\ \A a \in Address : bal[a] \in Nat /\ g[a] \in Nat
    BY LedgerAssumption DEF Gifts
  <1>2. \A a \in Address : lhs[a] = rhs[a]
    BY <1>1 DEF Transfer, InBooks
  <1> QED
    BY <1>2 DEF Transfer, InBooks

\* What the contract pays out leaves its place by the sum of the shares.
LEMMA PushInBooks ==
    ASSUME NEW bal \in [Address -> Nat], NEW g \in Gifts, NEW total \in Int,
           NEW shares \in Shares, NEW payee, \A r \in Roles : payee[r] # Contract
    PROVE  Push(InBooks(bal, g, total), shares, payee)
             = InBooks(Push(bal, shares, payee), g, total - Sum(shares))
  <1> DEFINE lhs == Push(InBooks(bal, g, total), shares, payee)
             rhs == InBooks(Push(bal, shares, payee), g, total - Sum(shares))
  <1>1. Contract \in Address /\ Sum(shares) \in Nat
    BY LedgerAssumption, SumBounds
  <1>2. Received(shares, payee, Contract) = 0
    BY ReceivedNat
  <1>3. \A a \in Address : /\ bal[a] \in Nat /\ g[a] \in Nat
                          /\ Received(shares, payee, a) \in Nat
    BY ReceivedNat DEF Gifts
  <1>4. \A a \in Address : lhs[a] = rhs[a]
    BY <1>1, <1>2, <1>3 DEF Push, InBooks
  <1> QED
    BY <1>4 DEF Push, InBooks

-----------------------------------------------------------------------------
(* What each event says.                                                   *)

\* An entry u with new terms, in another state, funded, or settled.
Reterm(u, host, amount, start_time) ==
    [u EXCEPT !.host = host, !.amount = amount, !.start_time = start_time]

InState(u, state) == [u EXCEPT !.state = state]

Fund(u, amount) == [u EXCEPT !.state = "Escrowed", !.escrow_amount = amount]

PayOut(u, shares) ==
    [u EXCEPT !.escrow_amount = u.escrow_amount - Sum(shares), !.settled = TRUE]

\* The record itself, after the same rewrites.
Retermed(b, host, amount, start_time) ==
    [b EXCEPT !.host = host, !.amount = amount, !.start_time = start_time]

Funding(b, amount) ==
    [b EXCEPT !.state = "Escrowed", !.escrow_locked = TRUE, !.escrow_amount = amount]

\* What an indexer keeps of a record.
Kept == {"booking_ref", "traveller", "host", "amount", "token", "start_time",
         "state", "escrow_amount", "settled"}

\* An entry that agrees with a record field by field is that record's entry.
LEMMA SeenByField ==
    ASSUME NEW r, NEW v, v = [f \in Kept |-> v[f]],
           v.booking_ref = r.booking_ref, v.traveller = r.traveller,
           v.host = r.host, v.amount = r.amount, v.token = r.token,
           v.start_time = r.start_time, v.state = r.state,
           v.escrow_amount = r.escrow_amount, v.settled = r.settled
    PROVE  Seen(r) = v
  <1>1. \A f \in Kept : Seen(r)[f] = v[f]
    BY DEF Seen, Kept
  <1>2. Seen(r) = [f \in Kept |-> Seen(r)[f]]
    BY DEF Seen, Kept
  <1>3. [f \in Kept |-> Seen(r)[f]] = [f \in Kept |-> v[f]]
    BY <1>1
  <1> QED
    BY <1>2, <1>3

\* The rewrites of an entry and those of the record are the same: new terms,
LEMMA SeenRetermed ==
    ASSUME NEW b \in Bookings, NEW host, NEW amount, NEW start_time
    PROVE  Seen(Retermed(b, host, amount, start_time))
             = Reterm(Seen(b), host, amount, start_time)
  <1> DEFINE v == Reterm(Seen(b), host, amount, start_time)
             r == Retermed(b, host, amount, start_time)
  <1>1. v = [f \in Kept |-> v[f]]
    BY DEF Reterm, Seen, Kept
  <1>2. /\ v.host = host /\ v.amount = amount /\ v.start_time = start_time
        /\ v.booking_ref = b.booking_ref /\ v.traveller = b.traveller
        /\ v.token = b.token /\ v.state = b.state
        /\ v.escrow_amount = b.escrow_amount /\ v.settled = b.settled
    BY DEF Reterm, Seen
  <1>3. /\ r.host = host /\ r.amount = amount /\ r.start_time = start_time
        /\ r.booking_ref = b.booking_ref /\ r.traveller = b.traveller
        /\ r.token = b.token /\ r.state = b.state
        /\ r.escrow_amount = b.escrow_amount /\ r.settled = b.settled
    BY DEF Bookings, Retermed
  <1> HIDE DEF v, r
  <1>4. Seen(r) = v
    BY <1>1, <1>2, <1>3, SeenByField
  <1> QED
    BY <1>4 DEF v, r

\* a new state, checked in or not,
LEMMA SeenInState ==
    ASSUME NEW b \in Bookings, NEW state
    PROVE  /\ Seen([b EXCEPT !.state = state]) = InState(Seen(b), state)
           /\ Seen([b EXCEPT !.state = state, !.checked_in = TRUE])
                = InState(Seen(b), state)
  BY DEF Seen, Bookings, InState

\* and the traveller's funds.
LEMMA SeenFunded ==
    ASSUME NEW b \in Bookings, NEW amount
    PROVE  Seen(Funding(b, amount)) = Fund(Seen(b), amount)
  <1> DEFINE v == Fund(Seen(b), amount)
             r == Funding(b, amount)
  <1>1. v = [f \in Kept |-> v[f]]
    BY DEF Fund, Seen, Kept
  <1>2. /\ v.state = "Escrowed" /\ v.escrow_amount = amount
        /\ v.booking_ref = b.booking_ref /\ v.traveller = b.traveller
        /\ v.host = b.host /\ v.amount = b.amount /\ v.token = b.token
        /\ v.start_time = b.start_time /\ v.settled = b.settled
    BY DEF Fund, Seen
  <1>3. /\ r.state = "Escrowed" /\ r.escrow_amount = amount
        /\ r.booking_ref = b.booking_ref /\ r.traveller = b.traveller
        /\ r.host = b.host /\ r.amount = b.amount /\ r.token = b.token
        /\ r.start_time = b.start_time /\ r.settled = b.settled
    BY DEF Bookings, Funding
  <1> HIDE DEF v, r
  <1>4. Seen(r) = v
    BY <1>1, <1>2, <1>3, SeenByField
  <1> QED
    BY <1>4 DEF v, r

\* A settlement leaves no escrow, in the record and in the entry.
LEMMA SeenClosed ==
    ASSUME NEW b \in Bookings, NEW state, NEW shares, Sum(shares) = b.escrow_amount,
           NEW closed \in Bookings, closed.state = state,
           TermsOf(closed) = TermsOf(b)
    PROVE  Seen(Closed(closed)) = PayOut(InState(Seen(b), state), shares)
  <1> DEFINE v == PayOut(InState(Seen(b), state), shares)
             r == Closed(closed)
  <1>1. v = [f \in Kept |-> v[f]]
    BY DEF PayOut, InState, Seen, Kept
  <1>2. b.escrow_amount - Sum(shares) = 0
    BY I128Range DEF Bookings
  <1>3. /\ v.state = state /\ v.settled = TRUE
        /\ v.escrow_amount = b.escrow_amount - Sum(shares)
        /\ v.booking_ref = b.booking_ref /\ v.traveller = b.traveller
        /\ v.host = b.host /\ v.amount = b.amount /\ v.token = b.token
        /\ v.start_time = b.start_time
    BY DEF PayOut, InState, Seen
  <1>4. /\ r.state = state /\ r.settled = TRUE /\ r.escrow_amount = 0
        /\ r.booking_ref = b.booking_ref /\ r.traveller = b.traveller
        /\ r.host = b.host /\ r.amount = b.amount /\ r.token = b.token
        /\ r.start_time = b.start_time
    BY DEF Closed, Bookings, TermsOf
  <1> HIDE DEF v, r
  <1>5. Seen(r) = v
    BY <1>1, <1>2, <1>3, <1>4, SeenByField
  <1> QED
    BY <1>5 DEF v, r

\* The announcement of an update rewrites the terms and stands for no payment.
LEMMA UpdatedSays ==
    ASSUME NEW u, NEW id, NEW bal, NEW host, NEW amount, NEW start_time,
           NEW e, e = BookingUpdated(id, host, amount, start_time)
    PROVE  /\ e.booking_id = id /\ e.type # "SettlementExecuted"
           /\ Entry(u, e) = Reterm(u, host, amount, start_time)
           /\ Booked(bal, u, e) = bal
  BY DEF Entry, Booked, Event, BookingUpdated, Reterm

\* check_in, complete and open_dispute announce where the booking is now.
LEMMA LifecycleSays ==
    ASSUME NEW u, NEW id, NEW bal, NEW e, NEW state,
           \/ e = Lifecycle("BookingCheckedIn", id) /\ state = "CheckedIn"
           \/ e = Lifecycle("BookingCompleted", id) /\ state = "Completed"
           \/ e = Lifecycle("DisputeOpened", id)    /\ state = "Disputed"
    PROVE  /\ e.booking_id = id /\ e.type # "SettlementExecuted"
           /\ Entry(u, e) = InState(u, state)
           /\ Booked(bal, u, e) = bal
  BY DEF Entry, Booked, Event, Lifecycle, InState

\* The resolution of a dispute completes the entry.
LEMMA ResolvedSays ==
    ASSUME NEW u, NEW id, NEW bal, NEW bps, NEW e, e = Event("DisputeResolved", id, bps)
    PROVE  /\ e.booking_id = id /\ e.type # "SettlementExecuted"
           /\ Entry(u, e) = InState(u, "Completed")
           /\ Booked(bal, u, e) = bal
  BY DEF Entry, Booked, Event, InState

\* A cancellation closes the entry and stands for no payment either.
LEMMA CancelledSays ==
    ASSUME NEW u, NEW bal, NEW e, e.type = "BookingCancelled"
    PROVE  /\ Entry(u, e) = InState(u, "Cancelled")
           /\ Booked(bal, u, e) = bal
  BY DEF Entry, Booked, InState

\* The host's fee is a payment that leaves the entry alone.
LEMMA FeePaidSays ==
    ASSUME NEW u, NEW id, NEW bal, NEW host, NEW ops, NEW fee,
           NEW e, e = HostCancellationFeePaid(id, host, ops, fee)
    PROVE  /\ e.booking_id = id /\ e.type # "SettlementExecuted"
           /\ Entry(u, e) = u
           /\ Booked(bal, u, e) = Transfer(bal, host, ops, fee)
  BY DEF Entry, Booked, Event, HostCancellationFeePaid

\* A lock is the traveller's payment.
LEMMA LockedSays ==
    ASSUME NEW u, NEW id, NEW bal, NEW amount, NEW e, e = EscrowLocked(id, amount)
    PROVE  /\ e.booking_id = id /\ e.type # "SettlementExecuted"
           /\ Entry(u, e) = Fund(u, amount)
           /\ Booked(bal, u, e) = Transfer(bal, u.traveller, Contract, amount)
  BY DEF Entry, Booked, Event, EscrowLocked, Fund

\* A settlement divides the escrow the indexer knows of, as the contract does.
LEMMA SettledSays ==
    ASSUME NEW u, NEW id, NEW bal, NEW type, NEW shares,
           NEW e, e = SettlementExecuted(id, type, shares)
    PROVE  /\ e.booking_id = id
           /\ Entry(u, e) = PayOut(u, shares)
           /\ Booked(bal, u, e) = Push(bal, shares, Payee(u))
  BY DEF Entry, Booked, Event, SettlementExecuted, PayOut

-----------------------------------------------------------------------------
(* The calls that move no tokens.                                          *)

\* An event that says what a rewrite of the record does.
LEMMA RewriteMirrors ==
    ASSUME NEW id \in DOMAIN booking, ~booking[id].settled, NEW record,
           StelloSets(id, record),
           NEW e, e.booking_id = id, e.type # "SettlementExecuted",
           Entry(Seen(booking[id]), e) = Seen(record),
           \A bal : Booked(bal, Seen(booking[id]), e) = bal,
           NEW x, Mirrors(x), NEW z, z = After(x, e)
    PROVE  Follows(x, e) /\ Mirrors(z)'
  <1>1. PICK g \in Gifts : MirrorsAs(x, id, Seen(booking[id]), Balances(g))
    BY MirrorsBefore
  <1>2. /\ booking' = [booking EXCEPT ![id] = record]
        /\ Balances(g)' = Balances(g)
    BY DEF StelloSets, Balances
  <1>3. ~Seen(booking[id]).settled
    BY DEF Seen
  <1>4. PICK u, v, bal : u = Seen(booking[id]) /\ v = Seen(record) /\ bal = Balances(g)
    OBVIOUS
  <1>5. Follows(x, e) /\ MirrorsAs(z, id, v, bal)
    <2>1. v = Entry(u, e) /\ bal = Booked(bal, u, e)
      BY <1>4
    <2>2. MirrorsAs(x, id, u, bal) /\ ~u.settled
      BY <1>1, <1>3, <1>4
    <2> QED
      BY <2>1, <2>2, EventTurns
  <1> QED
    BY <1>2, <1>4, <1>5, MirrorsAfter

\* update_booking is announced with what it sets.
LEMMA UpdateMirrors ==
    ASSUME Inv, NEW id \in DOMAIN booking, NEW host, NEW amount, NEW start_time,
           UpdateBooking(id, host, amount, start_time),
           NEW x, Mirrors(x),
           NEW e, e = BookingUpdated(id, host, amount, start_time),
           NEW z, z = After(x, e)
    PROVE  Follows(x, e) /\ Mirrors(z)'
  <1> DEFINE record == Retermed(booking[id], host, amount, start_time)
  <1>1. StelloSets(id, record)
    BY DEF UpdateBooking, Retermed
  <1>2. booking[id] \in Bookings /\ ~booking[id].settled
    BY InvRecord, UpdateBookingStep DEF RecordOK, Rewritten
  <1>3. Seen(record) = Reterm(Seen(booking[id]), host, amount, start_time)
    BY <1>2, SeenRetermed
  <1> HIDE DEF record
  <1>4. PICK u : u = Seen(booking[id])
    OBVIOUS
  <1>5. /\ e.booking_id = id /\ e.type # "SettlementExecuted"
        /\ Entry(u, e) = Seen(record) /\ \A bal : Booked(bal, u, e) = bal
    <2>1. /\ e.booking_id = id /\ e.type # "SettlementExecuted"
          /\ Entry(u, e) = Reterm(u, host, amount, start_time)
          /\ \A bal : Booked(bal, u, e) = bal
      BY UpdatedSays
    <2> QED
      BY <1>3, <1>4, <2>1
  <1> QED
    BY <1>1, <1>2, <1>4, <1>5, RewriteMirrors

\* check_in is announced by the event's type.
LEMMA CheckInMirrors ==
    ASSUME Inv, NEW id \in DOMAIN booking, CheckIn(id), NEW x, Mirrors(x),
           NEW e, e = Lifecycle("BookingCheckedIn", id), NEW z, z = After(x, e)
    PROVE  Follows(x, e) /\ Mirrors(z)'
  <1> DEFINE record == [booking[id] EXCEPT !.state = "CheckedIn", !.checked_in = TRUE]
  <1>1. StelloSets(id, record)
    BY DEF CheckIn
  <1>2. booking[id] \in Bookings /\ ~booking[id].settled
    BY InvRecord, CheckInStep DEF RecordOK, Rewritten
  <1>3. Seen(record) = InState(Seen(booking[id]), "CheckedIn")
    BY <1>2, SeenInState
  <1> HIDE DEF record
  <1>4. PICK u : u = Seen(booking[id])
    OBVIOUS
  <1>5. /\ e.booking_id = id /\ e.type # "SettlementExecuted"
        /\ Entry(u, e) = Seen(record) /\ \A bal : Booked(bal, u, e) = bal
    <2>1. /\ e.booking_id = id /\ e.type # "SettlementExecuted"
          /\ Entry(u, e) = InState(u, "CheckedIn")
          /\ \A bal : Booked(bal, u, e) = bal
      BY LifecycleSays
    <2> QED
      BY <1>3, <1>4, <2>1
  <1> QED
    BY <1>1, <1>2, <1>4, <1>5, RewriteMirrors

\* A checked-in booking, or a disputed one, is announced complete.
LEMMA CompleteMirrors ==
    ASSUME Inv, NEW id \in DOMAIN booking, Complete(id), NEW x, Mirrors(x),
           NEW e, e = Lifecycle("BookingCompleted", id), NEW z, z = After(x, e)
    PROVE  Follows(x, e) /\ Mirrors(z)'
  <1> DEFINE record == [booking[id] EXCEPT !.state = "Completed"]
  <1>1. StelloSets(id, record)
    BY DEF Complete
  <1>2. booking[id] \in Bookings /\ ~booking[id].settled
    BY InvRecord, CompleteStep DEF RecordOK, Rewritten
  <1>3. Seen(record) = InState(Seen(booking[id]), "Completed")
    BY <1>2, SeenInState
  <1> HIDE DEF record
  <1>4. PICK u : u = Seen(booking[id])
    OBVIOUS
  <1>5. /\ e.booking_id = id /\ e.type # "SettlementExecuted"
        /\ Entry(u, e) = Seen(record) /\ \A bal : Booked(bal, u, e) = bal
    <2>1. /\ e.booking_id = id /\ e.type # "SettlementExecuted"
          /\ Entry(u, e) = InState(u, "Completed")
          /\ \A bal : Booked(bal, u, e) = bal
      BY LifecycleSays
    <2> QED
      BY <1>3, <1>4, <2>1
  <1> QED
    BY <1>1, <1>2, <1>4, <1>5, RewriteMirrors

\* A dispute is announced before anything can settle it.
LEMMA OpenDisputeMirrors ==
    ASSUME Inv, NEW id \in DOMAIN booking, OpenDispute(id), NEW x, Mirrors(x),
           NEW e, e = Lifecycle("DisputeOpened", id), NEW z, z = After(x, e)
    PROVE  Follows(x, e) /\ Mirrors(z)'
  <1> DEFINE record == [booking[id] EXCEPT !.state = "Disputed"]
  <1>1. StelloSets(id, record)
    BY DEF OpenDispute
  <1>2. booking[id] \in Bookings /\ ~booking[id].settled
    BY InvRecord, OpenDisputeStep DEF RecordOK, Rewritten
  <1>3. Seen(record) = InState(Seen(booking[id]), "Disputed")
    BY <1>2, SeenInState
  <1> HIDE DEF record
  <1>4. PICK u : u = Seen(booking[id])
    OBVIOUS
  <1>5. /\ e.booking_id = id /\ e.type # "SettlementExecuted"
        /\ Entry(u, e) = Seen(record) /\ \A bal : Booked(bal, u, e) = bal
    <2>1. /\ e.booking_id = id /\ e.type # "SettlementExecuted"
          /\ Entry(u, e) = InState(u, "Disputed")
          /\ \A bal : Booked(bal, u, e) = bal
      BY LifecycleSays
    <2> QED
      BY <1>3, <1>4, <2>1
  <1> QED
    BY <1>1, <1>2, <1>4, <1>5, RewriteMirrors

\* book is announced with every term of the new booking.
LEMMA BookMirrors ==
    ASSUME Inv, NEW ref, NEW traveller, NEW host, NEW amount, NEW start_time,
           Book(ref, traveller, host, amount, start_time),
           NEW x, Mirrors(x),
           NEW e, e = BookingCreated(next_booking_id,
                        NewBooking(ref, traveller, host, amount, start_time)),
           NEW z, z = After(x, e)
    PROVE  Follows(x, e) /\ Mirrors(z)'
  <1> DEFINE new    == next_booking_id
             record == NewBooking(ref, traveller, host, amount, start_time)
             old    == x.index[new]
  <1>1. /\ booking' = Put(booking, new, record)
        /\ UNCHANGED <<total_escrowed, balance>>
    BY DEF Book, AddBooking
  <1>2. new \notin DOMAIN booking
    BY DEF Inv, TypeOK, RefIndexSound
  <1>3. e.booking_id = new /\ e.type = "BookingCreated"
    BY DEF BookingCreated, Event
  <1>4. Entry(old, e) = Seen(record)
    BY <1>3 DEF Entry, BookingCreated, Event, NewBooking, Seen
  <1>5. Booked(x.books, old, e) = x.books
    BY <1>3 DEF Booked
  <1> HIDE DEF record, old
  <1>6. z.index = Put(x.index, new, Seen(record)) /\ z.books = x.books
    BY <1>3, <1>4, <1>5 DEF After, old
  <1>7. /\ Stored' = Put(Stored, new, Seen(record))
        /\ \A g \in Gifts : Balances(g)' = Balances(g)
    BY <1>1, <1>2 DEF Stored, Balances, Put
  <1>8. Follows(x, e)
    BY <1>2, <1>3 DEF Follows, Mirrors, Stored
  <1> QED
    BY <1>6, <1>7, <1>8 DEF Mirrors

-----------------------------------------------------------------------------
(* The calls that move tokens.                                             *)

\* lock_escrow is announced with the traveller's payment.
LEMMA LockMirrors ==
    ASSUME Inv, NEW id \in DOMAIN booking, NEW amount, LockEscrow(id, amount),
           NEW x, Mirrors(x),
           NEW e, e = EscrowLocked(id, amount), NEW z, z = After(x, e)
    PROVE  Follows(x, e) /\ Mirrors(z)'
  <1> DEFINE b      == booking[id]
             record == Funding(b, amount)
  <1>1. /\ booking' = [booking EXCEPT ![id] = record]
        /\ total_escrowed' = total_escrowed + amount
        /\ b.amount = amount
    BY LockEscrowInv DEF Funding
  <1>2. /\ b \in Bookings /\ ~b.settled
        /\ b.traveller \in Address \ {Contract} /\ amount \in Nat
    BY <1>1, InvRecord, I128Range
       DEF LockEscrow, RecordOK, Bookings, ValidateParties
  <1>3. balance' = Transfer(balance, b.traveller, Contract, amount)
    BY DEF LockEscrow
  <1>4. Seen(record) = Fund(Seen(b), amount)
    BY <1>2, SeenFunded
  <1>5. balance \in [Address -> Nat] /\ total_escrowed \in Int
    BY DEF Inv, TypeOK, TokenTypeOK
  <1> HIDE DEF record
  <1>6. PICK g, u, bal, t :
           /\ g \in Gifts /\ u = Seen(b) /\ bal = Balances(g) /\ t = b.traveller
           /\ MirrorsAs(x, id, u, bal)
    BY MirrorsBefore
  <1>7. u.traveller = t /\ ~u.settled
    BY <1>2, <1>6 DEF Seen
  <1>8. Transfer(bal, t, Contract, amount) = Balances(g)'
    <2>1. Transfer(bal, t, Contract, amount)
            = InBooks(Transfer(balance, t, Contract, amount), g,
                      total_escrowed + amount)
      BY <1>2, <1>5, <1>6, DepositInBooks DEF Balances
    <2> QED
      BY <1>1, <1>3, <1>6, <2>1 DEF Balances
  <1>9. /\ e.booking_id = id /\ e.type # "SettlementExecuted"
        /\ Entry(u, e) = Fund(u, amount)
        /\ Booked(bal, u, e) = Transfer(bal, u.traveller, Contract, amount)
    BY LockedSays
  <1>10. PICK v, sums : v = Seen(record) /\ sums = Balances(g)'
    OBVIOUS
  <1>11. v = Entry(u, e) /\ sums = Booked(bal, u, e)
    BY <1>4, <1>6, <1>7, <1>8, <1>9, <1>10
  <1>12. Follows(x, e) /\ MirrorsAs(z, id, v, sums)
    BY <1>6, <1>7, <1>9, <1>11, EventTurns
  <1> QED
    <2>1. g \in Gifts
      BY <1>6
    <2> QED
      BY <1>1, <1>10, <1>12, <2>1, MirrorsAfter

\* The settlement of a booking, whatever led to it: u is what the events
\* before it have made of the entry, and paid what they have made of the
\* token's balances.
LEMMA SettlementMirrors ==
    ASSUME Inv, NEW id \in DOMAIN booking, NEW shares \in Shares,
           NEW closed \in Bookings, TermsOf(closed) = TermsOf(booking[id]),
           NEW paid \in [Address -> Nat], Settle(id, closed, shares, paid),
           NEW u, u = InState(Seen(booking[id]), closed.state),
           NEW g \in Gifts, NEW bal, bal = InBooks(paid, g, total_escrowed),
           NEW x, MirrorsAs(x, id, u, bal),
           NEW type, NEW e, e = SettlementExecuted(id, type, shares),
           NEW z, z = After(x, e)
    PROVE  Follows(x, e) /\ Mirrors(z)'
  <1> DEFINE b      == booking[id]
             record == Closed(closed)
  <1>1. /\ booking' = [booking EXCEPT ![id] = record]
        /\ Sum(shares) = b.escrow_amount
        /\ balance' = Push(paid, shares, Payee(b))
    BY SettleEffect
  <1>2. total_escrowed' = total_escrowed - Sum(shares)
    BY <1>1 DEF Settle, DecreaseTotalEscrowed
  <1>3. b \in Bookings
    BY InvRecord DEF RecordOK
  <1>4. Seen(record) = PayOut(u, shares)
    BY <1>1, <1>3, SeenClosed
  <1>5. Payee(u) = Payee(b) /\ ~u.settled
    <2>1. u.traveller = b.traveller /\ u.host = b.host /\ u.settled = b.settled
      BY DEF InState, Seen
    <2> QED
      BY <2>1 DEF Payee, Settle
  <1>6. total_escrowed \in Int
    BY DEF Inv, TypeOK
  <1>7. Push(bal, shares, Payee(b)) = Balances(g)'
    <2>1. PICK payee : payee = Payee(b)
      OBVIOUS
    <2>2. \A r \in Roles : payee[r] # Contract
      BY <2>1, PayeesOutside
    <2>3. Push(bal, shares, payee)
            = InBooks(Push(paid, shares, payee), g, total_escrowed - Sum(shares))
      BY <1>6, <2>2, PushInBooks
    <2> QED
      BY <1>1, <1>2, <2>1, <2>3 DEF Balances
  <1>8. /\ e.booking_id = id
        /\ Entry(u, e) = PayOut(u, shares)
        /\ Booked(bal, u, e) = Push(bal, shares, Payee(u))
    BY SettledSays
  <1> HIDE DEF record
  <1>9. PICK v, sums : v = Seen(record) /\ sums = Balances(g)'
    OBVIOUS
  <1>10. v = Entry(u, e) /\ sums = Booked(bal, u, e)
    BY <1>4, <1>5, <1>7, <1>8, <1>9
  <1>11. v.settled
    BY <1>4, <1>9 DEF PayOut, InState, Seen
  <1>12. Follows(x, e) /\ MirrorsAs(z, id, v, sums)
    BY <1>5, <1>8, <1>10, <1>11, EventTurns
  <1> QED
    BY <1>1, <1>9, <1>12, MirrorsAfter

\* execute_split is announced as the settlement of a completed booking.
LEMMA SplitMirrors ==
    ASSUME Inv, NEW id \in DOMAIN booking, ExecuteSplit(id),
           NEW x, Mirrors(x),
           NEW shares, shares = CompletionSplit(booking[id].escrow_amount),
           NEW e, e = SettlementExecuted(id, "Completed", shares),
           NEW z, z = After(x, e)
    PROVE  Follows(x, e) /\ Mirrors(z)'
  <1>1. PICK b : b = booking[id]
    OBVIOUS
  <1>2. b \in Bookings
    BY <1>1, InvRecord DEF RecordOK
  <1>3. Settle(id, b, shares, balance) /\ b.escrow_amount > 0
    BY <1>1 DEF ExecuteSplit, Settle
  <1>4. shares \in Shares
    BY <1>1, <1>3, EscrowShares
  <1>5. balance \in [Address -> Nat]
    BY DEF Inv, TypeOK, TokenTypeOK
  <1>6. PICK g, u, bal :
           /\ g \in Gifts /\ u = Seen(b) /\ bal = Balances(g)
           /\ MirrorsAs(x, id, u, bal)
    BY <1>1, MirrorsBefore
  <1>7. u = InState(Seen(b), b.state)
    BY <1>6 DEF Seen, InState
  <1>8. bal = InBooks(balance, g, total_escrowed)
    BY <1>6 DEF Balances
  <1> QED
    BY <1>1, <1>2, <1>3, <1>4, <1>5, <1>6, <1>7, <1>8, SettlementMirrors

\* resolve_dispute announces the resolution, then the settlement.
LEMMA ResolveMirrors ==
    ASSUME Inv, NEW id \in DOMAIN booking, NEW bps \in BpsArgs, ResolveDispute(id, bps),
           NEW x, Mirrors(x),
           NEW shares, shares = BpsAmounts(booking[id].escrow_amount, bps),
           NEW e1, e1 = Event("DisputeResolved", id, bps), NEW y, y = After(x, e1),
           NEW e2, e2 = SettlementExecuted(id, "Dispute", shares),
           NEW z, z = After(y, e2)
    PROVE  Follows(x, e1) /\ Follows(y, e2) /\ Mirrors(z)'
  <1>1. PICK b : b = booking[id]
    OBVIOUS
  <1>2. b \in Bookings
    BY <1>1, InvRecord DEF RecordOK
  <1>3. PICK closed : closed = [b EXCEPT !.state = "Completed"]
    OBVIOUS
  <1>4. /\ Settle(id, closed, shares, balance) /\ b.escrow_amount > 0
        /\ ValidBps(bps) /\ ~b.settled
    BY <1>1, <1>3 DEF ResolveDispute, Settle
  <1>5. shares \in Shares
    BY <1>1, <1>4, EscrowShares
  <1>6. /\ closed \in Bookings /\ TermsOf(closed) = TermsOf(b)
        /\ closed.state = "Completed"
    BY <1>2, <1>3 DEF Bookings, States, TermsOf
  <1>7. balance \in [Address -> Nat]
    BY DEF Inv, TypeOK, TokenTypeOK
  <1>8. PICK g, u, v, bal :
           /\ g \in Gifts /\ u = Seen(b) /\ bal = Balances(g)
           /\ v = InState(Seen(b), "Completed")
           /\ MirrorsAs(x, id, u, bal)
    BY <1>1, MirrorsBefore
  <1>9. bal = InBooks(balance, g, total_escrowed) /\ ~u.settled
    BY <1>4, <1>8 DEF Balances, Seen
  <1>10. MirrorsAs(x, id, u, bal)
    BY <1>8
  <1>11. /\ e1.booking_id = id /\ e1.type # "SettlementExecuted"
         /\ v = Entry(u, e1) /\ bal = Booked(bal, u, e1)
    BY <1>8, ResolvedSays
  <1>12. Follows(x, e1) /\ MirrorsAs(y, id, v, bal)
    BY <1>9, <1>10, <1>11, EventTurns
  <1> QED
    BY <1>1, <1>4, <1>5, <1>6, <1>7, <1>8, <1>9, <1>12, SettlementMirrors

\* Stello's cancellation for the traveller announces itself, then the
\* settlement that divides the escrow.
LEMMA TravellerCancelMirrors ==
    ASSUME Inv, NEW id \in DOMAIN booking, CancelByTraveller(id),
           NEW x, Mirrors(x),
           NEW shares, shares = TravellerRefund(booking[id].escrow_amount,
                                                booking[id].start_time, now),
           NEW e1, e1.type = "BookingCancelled", e1.booking_id = id,
           NEW y, y = After(x, e1),
           NEW e2, e2 = SettlementExecuted(id, "TravellerCancel", shares),
           NEW z, z = After(y, e2)
    PROVE  Follows(x, e1) /\ Follows(y, e2) /\ Mirrors(z)'
  <1>1. PICK b : b = booking[id]
    OBVIOUS
  <1>2. b \in Bookings
    BY <1>1, InvRecord DEF RecordOK
  <1>3. PICK closed : closed = CancelledRecord(b, "Traveller")
    OBVIOUS
  <1>4. /\ Settle(id, closed, shares, balance) /\ b.escrow_amount > 0
        /\ ~b.settled
    BY <1>1, <1>3 DEF CancelByTraveller, Settle
  <1>5. shares \in Shares
    BY <1>1, <1>4, EscrowShares
  <1>6. /\ closed \in Bookings /\ TermsOf(closed) = TermsOf(b)
        /\ closed.state = "Cancelled"
    BY <1>2, <1>3 DEF Bookings, States, TermsOf, CancelledRecord
  <1>7. balance \in [Address -> Nat]
    BY DEF Inv, TypeOK, TokenTypeOK
  <1>8. PICK g, u, v, bal :
           /\ g \in Gifts /\ u = Seen(b) /\ bal = Balances(g)
           /\ v = InState(Seen(b), "Cancelled")
           /\ MirrorsAs(x, id, u, bal)
    BY <1>1, MirrorsBefore
  <1>9. bal = InBooks(balance, g, total_escrowed) /\ ~u.settled
    BY <1>4, <1>8 DEF Balances, Seen
  <1>10. MirrorsAs(x, id, u, bal)
    BY <1>8
  <1>11. /\ e1.booking_id = id /\ e1.type # "SettlementExecuted"
         /\ v = Entry(u, e1) /\ bal = Booked(bal, u, e1)
    <2>1. Entry(u, e1) = InState(u, "Cancelled") /\ Booked(bal, u, e1) = bal
      BY CancelledSays
    <2> QED
      BY <1>8, <2>1
  <1>12. Follows(x, e1) /\ MirrorsAs(y, id, v, bal)
    BY <1>9, <1>10, <1>11, EventTurns
  <1> QED
    BY <1>1, <1>4, <1>5, <1>6, <1>7, <1>8, <1>9, <1>12, SettlementMirrors

\* The host's cancellation announces the fee before both: the settlement is
\* booked on balances the fee has already changed, as it is executed.
LEMMA HostCancelMirrors ==
    ASSUME Inv, NEW id \in DOMAIN booking, CancelByHost(id),
           NEW x, Mirrors(x),
           NEW shares, shares = HostCancelRefund(booking[id].escrow_amount),
           NEW e1, e1 = HostCancellationFeePaid(id, booking[id].host, config.ops_pool,
                                                config.host_cancel_fee),
           NEW w, w = After(x, e1),
           NEW e2, e2.type = "BookingCancelled", e2.booking_id = id,
           NEW y, y = After(w, e2),
           NEW e3, e3 = SettlementExecuted(id, "HostCancel", shares),
           NEW z, z = After(y, e3)
    PROVE  Follows(x, e1) /\ Follows(w, e2) /\ Follows(y, e3) /\ Mirrors(z)'
  <1>1. PICK b, ops, fee : /\ b = booking[id] /\ ops = config.ops_pool
                           /\ fee = config.host_cancel_fee
    OBVIOUS
  <1>2. RecordOK(b) /\ b \in Bookings
    BY <1>1, InvRecord DEF RecordOK
  <1>3. PICK closed, paid : closed = CancelledRecord(b, "Host") /\ paid = FeePaid(b)
    OBVIOUS
  <1>4. /\ Settle(id, closed, shares, paid) /\ b.escrow_amount > 0
        /\ ~b.settled /\ balance[b.host] >= fee
    BY <1>1, <1>3 DEF CancelByHost, HostCancels, Settle, CanTransfer
  <1>5. shares \in Shares
    BY <1>1, <1>4, EscrowShares
  <1>6. /\ closed \in Bookings /\ TermsOf(closed) = TermsOf(b)
        /\ closed.state = "Cancelled"
    BY <1>2, <1>3 DEF Bookings, States, TermsOf, CancelledRecord
  <1>7. /\ balance \in [Address -> Nat] /\ total_escrowed \in Int
        /\ b.host \in Address \ {Contract} /\ ops \in Address \ {Contract}
        /\ b.host # ops /\ fee \in Nat
    BY <1>1, <1>2, ConfigFacts
       DEF RecordOK, Bookings, ValidateParties, Sinks, Inv, TypeOK, TokenTypeOK
  <1>8. paid = Transfer(balance, b.host, ops, fee)
    BY <1>1, <1>3 DEF FeePaid
  <1>9. paid \in [Address -> Nat]
    BY <1>4, <1>7, <1>8, TransferType
  <1>10. PICK g, u, v, bal, sums :
           /\ g \in Gifts /\ u = Seen(b) /\ bal = Balances(g)
           /\ v = InState(Seen(b), "Cancelled")
           /\ sums = InBooks(paid, g, total_escrowed)
           /\ MirrorsAs(x, id, u, bal)
    BY <1>1, MirrorsBefore
  <1>11. ~u.settled
    BY <1>4, <1>10 DEF Seen
  <1>12. MirrorsAs(x, id, u, bal)
    BY <1>10
  <1>13. /\ e1.booking_id = id /\ e1.type # "SettlementExecuted"
         /\ u = Entry(u, e1) /\ sums = Booked(bal, u, e1)
    <2>1. /\ e1.booking_id = id /\ e1.type # "SettlementExecuted"
          /\ Entry(u, e1) = u /\ Booked(bal, u, e1) = Transfer(bal, b.host, ops, fee)
      BY <1>1, FeePaidSays
    <2>2. Transfer(bal, b.host, ops, fee) = sums
      BY <1>7, <1>8, <1>10, TransferInBooks DEF Balances
    <2> QED
      BY <2>1, <2>2
  <1>14. Follows(x, e1) /\ MirrorsAs(w, id, u, sums)
    BY <1>11, <1>12, <1>13, EventTurns
  <1>15. /\ e2.booking_id = id /\ e2.type # "SettlementExecuted"
         /\ v = Entry(u, e2) /\ sums = Booked(sums, u, e2)
    <2>1. Entry(u, e2) = InState(u, "Cancelled") /\ Booked(sums, u, e2) = sums
      BY CancelledSays
    <2> QED
      BY <1>10, <2>1
  <1>16. Follows(w, e2) /\ MirrorsAs(y, id, v, sums)
    <2>1. PICK same : same = Booked(sums, u, e2)
      OBVIOUS
    <2>2. /\ MirrorsAs(w, id, u, sums) /\ ~u.settled
          /\ e2.booking_id = id /\ e2.type # "SettlementExecuted"
          /\ v = Entry(u, e2)
      BY <1>11, <1>14, <1>15
    <2>3. MirrorsAs(y, id, v, same)
      BY <2>1, <2>2, EventTurns
    <2>4. Follows(w, e2)
      BY <2>2, EventFollows
    <2> QED
      BY <1>15, <2>1, <2>3, <2>4
  <1> QED
    BY <1>1, <1>4, <1>5, <1>6, <1>9, <1>10, <1>14, <1>16, SettlementMirrors

-----------------------------------------------------------------------------
(* The steps.                                                              *)

\* What happens outside the contract to the books: an issuer takes from the
\* contract only, whose place in them is the total it accounts for, and a
\* direct transfer to the contract is one more gift.
LEMMA OutsideInBooks ==
    ASSUME Inv, World \/ UNCHANGED <<balance, total_escrowed>>, NEW g \in Gifts
    PROVE  \E given \in Gifts : Balances(given)' = Balances(g)
  <1>1. /\ balance \in [Address -> Nat] /\ Contract \in Address
        /\ \A a \in Address : g[a] \in Nat
    BY LedgerAssumption DEF Inv, TypeOK, TokenTypeOK, Gifts
  <1>2. CASE UNCHANGED <<balance, total_escrowed>>
    BY <1>2 DEF Balances
  <1>3. ASSUME NEW amount \in Clawbacks, Clawback(amount),
               UNCHANGED total_escrowed
        PROVE  Balances(g)' = Balances(g)
    BY <1>1, <1>3 DEF Clawback, Balances, InBooks
  <1>4. ASSUME NEW from \in Address, NEW amount \in Donations,
               Donate(from, amount), UNCHANGED total_escrowed
        PROVE  \E given \in Gifts : Balances(given)' = Balances(g)
    <2> DEFINE given == [g EXCEPT ![from] = @ + amount]
    <2>1. /\ amount \in Nat /\ from # Contract
          /\ balance[from] >= amount
          /\ balance' = Transfer(balance, from, Contract, amount)
      BY <1>4, LedgerAssumption DEF Donate, CanTransfer
    <2>2. given \in Gifts
      BY <1>1, <1>4, <2>1 DEF Gifts
    <2>3. \A a \in Address : a # Contract => balance'[a] + given[a] = balance[a] + g[a]
      BY <1>1, <2>1, <2>2 DEF Transfer, Gifts
    <2>4. Balances(given)' = Balances(g)
      BY <1>4, <2>3 DEF Balances, InBooks
    <2> QED
      BY <2>2, <2>4
  <1>5. CASE World
    <2>1. CloseLedger \/ (\E a \in Refusers : SetReceiving(a) /\ UNCHANGED storage)
             => UNCHANGED <<balance, total_escrowed>>
      BY DEF CloseLedger, SetReceiving, storage
    <2> QED
      BY <1>2, <1>3, <1>4, <1>5, <2>1 DEF World, TokenNext, storage
  <1> QED
    BY <1>2, <1>5

\* Without a call of an entrypoint the records stay, and what the indexer
\* will have derived.
LEMMA QuietMirrors ==
    ASSUME Inv, (\E hash \in Wasms : Upgrade(hash)) \/ World \/ UNCHANGED vars,
           NEW x, Mirrors(x)
    PROVE  Mirrors(x)' /\ config' = config
  <1>1. UNCHANGED <<config, booking>>
    BY DEF Upgrade, World, CloseLedger, vars, storage
  <1>2. World \/ UNCHANGED <<balance, total_escrowed>>
    BY DEF Upgrade, vars, storage, tokenVars
  <1>3. Stored' = Stored
    BY <1>1 DEF Stored
  <1>4. PICK g \in Gifts : x.books = Balances(g)
    BY DEF Mirrors
  <1>5. PICK given \in Gifts : Balances(given)' = Balances(g)
    BY <1>2, OutsideInBooks
  <1> QED
    BY <1>1, <1>3, <1>4, <1>5 DEF Mirrors

\* A call that publishes the events that say what it does keeps the stream
\* explaining the records: one event,
LEMMA PublishesOne ==
    ASSUME StreamExplains, config' = config, NEW e, Publish(<< e >>),
           \A y, z : Mirrors(y) /\ z = After(y, e) => Follows(y, e) /\ Mirrors(z)'
    PROVE  StreamExplains'
  <1>1. PICK S, s, x, y : /\ s \in Seq(S) /\ s = stream /\ x = Known
                          /\ Leads(s, x, y) /\ Mirrors(y)
    BY DEF StreamExplains
  <1>2. PICK t, z : t = s \o << e >> /\ z = After(y, e)
    OBVIOUS
  <1>3. t = stream' /\ x = Known'
    BY <1>1, <1>2 DEF Publish, Known
  <1>4. Follows(y, e) /\ Mirrors(z)'
    BY <1>1, <1>2
  <1>5. Leads(t, x, z) /\ t \in Seq(S \cup {e})
    BY <1>1, <1>2, <1>4, LeadsOnOne
  <1>6. Leads(t, x, z)'
    BY <1>5, LeadsConstant
  <1> QED
    BY <1>3, <1>4, <1>5, <1>6 DEF StreamExplains

\* two events,
LEMMA PublishesTwo ==
    ASSUME StreamExplains, config' = config, NEW e1, NEW e2, Publish(<< e1, e2 >>),
           \A x, y, z : Mirrors(x) /\ y = After(x, e1) /\ z = After(y, e2)
              => Follows(x, e1) /\ Follows(y, e2) /\ Mirrors(z)'
    PROVE  StreamExplains'
  <1>1. PICK S, s, x, y : /\ s \in Seq(S) /\ s = stream /\ x = Known
                          /\ Leads(s, x, y) /\ Mirrors(y)
    BY DEF StreamExplains
  <1>2. PICK t, y1, z : t = s \o << e1, e2 >> /\ y1 = After(y, e1) /\ z = After(y1, e2)
    OBVIOUS
  <1>3. t = stream' /\ x = Known'
    BY <1>1, <1>2 DEF Publish, Known
  <1>4. Follows(y, e1) /\ Follows(y1, e2) /\ Mirrors(z)'
    BY <1>1, <1>2
  <1>5. Leads(t, x, z) /\ \E T : t \in Seq(T)
    BY <1>1, <1>2, <1>4, LeadsOnTwo
  <1>6. Leads(t, x, z)'
    BY <1>5, LeadsConstant
  <1> QED
    BY <1>3, <1>4, <1>5, <1>6 DEF StreamExplains

\* or three.
LEMMA PublishesThree ==
    ASSUME StreamExplains, config' = config, NEW e1, NEW e2, NEW e3,
           Publish(<< e1, e2, e3 >>),
           \A x, w, y, z : Mirrors(x) /\ w = After(x, e1) /\ y = After(w, e2)
                           /\ z = After(y, e3)
              => Follows(x, e1) /\ Follows(w, e2) /\ Follows(y, e3) /\ Mirrors(z)'
    PROVE  StreamExplains'
  <1>1. PICK S, s, x, y : /\ s \in Seq(S) /\ s = stream /\ x = Known
                          /\ Leads(s, x, y) /\ Mirrors(y)
    BY DEF StreamExplains
  <1>2. PICK t, y1, y2, z : /\ t = s \o << e1, e2, e3 >> /\ y1 = After(y, e1)
                            /\ y2 = After(y1, e2) /\ z = After(y2, e3)
    OBVIOUS
  <1>3. t = stream' /\ x = Known'
    BY <1>1, <1>2 DEF Publish, Known
  <1>4. Follows(y, e1) /\ Follows(y1, e2) /\ Follows(y2, e3) /\ Mirrors(z)'
    BY <1>1, <1>2
  <1>5. Leads(t, x, z) /\ \E T : t \in Seq(T)
    BY <1>1, <1>2, <1>4, LeadsOnThree
  <1>6. Leads(t, x, z)'
    BY <1>5, LeadsConstant
  <1> QED
    BY <1>3, <1>4, <1>5, <1>6 DEF StreamExplains

\* The indexer derives from the next event what the stream still had to say.
LEMMA ConsumeExplains ==
    ASSUME StreamExplains, Inv, Consume
    PROVE  StreamExplains'
  <1>1. PICK S, s, x, y : /\ s \in Seq(S) /\ s = stream /\ x = Known
                          /\ Leads(s, x, y) /\ Mirrors(y)
    BY DEF StreamExplains
  <1>2. PICK t, z : t = Tail(s) /\ z = After(x, Head(s))
    OBVIOUS
  <1>3. s # <<>> /\ t = stream' /\ UNCHANGED vars
    BY <1>1, <1>2 DEF Consume
  <1>4. t \in Seq(S)
    BY <1>1, <1>2, <1>3
  <1>5. z = Known'
    BY <1>1, <1>2 DEF Consume, Known, After
  <1>6. Mirrors(y)' /\ config' = config
    BY <1>1, <1>3, QuietMirrors
  <1>7. Leads(t, z, y)
    BY <1>1, <1>2, <1>3, LeadsTail
  <1>8. Leads(t, z, y)'
    BY <1>6, <1>7, LeadsConstant
  <1> QED
    BY <1>3, <1>4, <1>5, <1>6, <1>8 DEF StreamExplains

\* A step that neither publishes nor consumes leaves the stream to say the
\* same.
LEMMA QuietExplains ==
    ASSUME StreamExplains, Inv, UNCHANGED indexerVars,
           (\E hash \in Wasms : Upgrade(hash)) \/ World \/ UNCHANGED vars
    PROVE  StreamExplains'
  <1>1. PICK S, s, x, y : /\ s \in Seq(S) /\ s = stream /\ x = Known
                          /\ Leads(s, x, y) /\ Mirrors(y)
    BY DEF StreamExplains
  <1>2. s = stream' /\ x = Known'
    BY <1>1 DEF indexerVars, Known
  <1>3. Mirrors(y)' /\ config' = config
    BY <1>1, QuietMirrors
  <1>4. Leads(s, x, y)'
    BY <1>1, <1>3, LeadsConstant
  <1> QED
    BY <1>1, <1>2, <1>3, <1>4 DEF StreamExplains

\* An entrypoint together with its events is a call of the contract.
LEMMA PublishedIsCall ==
    /\ PublishedBook => BookCall
    /\ \A id : PublishedCall(id) => BookingCall(id)
  BY DEF PublishedBook, BookCall, PublishedCall, PublishedUpdate, BookingCall, UpdateCall

\* book publishes what it stores.
LEMMA BookExplains ==
    ASSUME StreamExplains, Inv, PublishedBook
    PROVE  StreamExplains'
  <1>1. PICK ref \in BookingRef, traveller \in Address, host \in Address,
             amount \in AmountArgs, start_time \in StartTimeArgs :
                /\ Book(ref, traveller, host, amount, start_time)
                /\ Publish(<< BookingCreated(next_booking_id,
                                NewBooking(ref, traveller, host, amount, start_time)) >>)
    BY DEF PublishedBook
  <1>2. PICK e : e = BookingCreated(next_booking_id,
                       NewBooking(ref, traveller, host, amount, start_time))
    OBVIOUS
  <1>3. config' = config
    BY <1>1 DEF Book, AddBooking
  <1>4. \A y, z : Mirrors(y) /\ z = After(y, e) => Follows(y, e) /\ Mirrors(z)'
    BY <1>1, <1>2, BookMirrors
  <1> QED
    BY <1>1, <1>2, <1>3, <1>4, PublishesOne

\* So does every call on a booking.
LEMMA CallExplains ==
    ASSUME StreamExplains, Inv, NEW id \in DOMAIN booking, PublishedCall(id)
    PROVE  StreamExplains'
  <1>1. config' = config
    BY PublishedIsCall, QuietCall
  <1>2. CASE PublishedUpdate(id)
    <2>1. PICK host \in Address, amount \in AmountArgs, start_time \in StartTimeArgs :
             /\ UpdateBooking(id, host, amount, start_time)
             /\ Publish(<< BookingUpdated(id, host, amount, start_time) >>)
      BY <1>2 DEF PublishedUpdate, UpdateEvents
    <2>2. PICK e : e = BookingUpdated(id, host, amount, start_time)
      OBVIOUS
    <2>3. \A y, z : Mirrors(y) /\ z = After(y, e) => Follows(y, e) /\ Mirrors(z)'
      BY <2>1, <2>2, UpdateMirrors
    <2> QED
      BY <1>1, <2>1, <2>2, <2>3, PublishesOne
  <1>3. ASSUME NEW amount \in AmountArgs, LockEscrow(id, amount),
               Publish(<< EscrowLocked(id, amount) >>)
        PROVE  StreamExplains'
    <2>1. PICK e : e = EscrowLocked(id, amount)
      OBVIOUS
    <2>2. \A y, z : Mirrors(y) /\ z = After(y, e) => Follows(y, e) /\ Mirrors(z)'
      BY <1>3, <2>1, LockMirrors
    <2> QED
      BY <1>1, <1>3, <2>1, <2>2, PublishesOne
  <1>4. ASSUME NEW e, Publish(<< e >>),
               \/ CheckIn(id) /\ e = Lifecycle("BookingCheckedIn", id)
               \/ Complete(id) /\ e = Lifecycle("BookingCompleted", id)
               \/ OpenDispute(id) /\ e = Lifecycle("DisputeOpened", id)
        PROVE  StreamExplains'
    <2>1. \A y, z : Mirrors(y) /\ z = After(y, e) => Follows(y, e) /\ Mirrors(z)'
      BY <1>4, CheckInMirrors, CompleteMirrors, OpenDisputeMirrors
    <2> QED
      BY <1>1, <1>4, <2>1, PublishesOne
  <1>5. CASE ExecuteSplit(id) /\ Publish(SplitEvents(id, CompletionSplit(Escrowed(id))))
    <2>1. PICK shares, e : /\ shares = CompletionSplit(booking[id].escrow_amount)
                           /\ e = SettlementExecuted(id, "Completed", shares)
      OBVIOUS
    <2>2. Publish(<< e >>)
      BY <1>5, <2>1 DEF SplitEvents, Escrowed
    <2>3. \A y, z : Mirrors(y) /\ z = After(y, e) => Follows(y, e) /\ Mirrors(z)'
      BY <1>5, <2>1, SplitMirrors
    <2> QED
      BY <1>1, <2>2, <2>3, PublishesOne
  <1>6. CASE /\ CancelByTraveller(id)
             /\ Publish(TravellerCancelEvents(id,
                          TravellerRefund(Escrowed(id), booking[id].start_time, now)))
    <2>1. PICK shares, e1, e2 :
             /\ shares = TravellerRefund(booking[id].escrow_amount,
                                         booking[id].start_time, now)
             /\ e1 = BookingCancelled(id, FALSE, shares)
             /\ e2 = SettlementExecuted(id, "TravellerCancel", shares)
      OBVIOUS
    <2>2. Publish(<< e1, e2 >>)
      BY <1>6, <2>1 DEF TravellerCancelEvents, Escrowed
    <2>3. e1.type = "BookingCancelled" /\ e1.booking_id = id
      BY <2>1 DEF BookingCancelled, Event
    <2>4. /\ shares = TravellerRefund(booking[id].escrow_amount,
                                      booking[id].start_time, now)
          /\ e2 = SettlementExecuted(id, "TravellerCancel", shares)
      BY <2>1
    <2>5. ASSUME NEW x, NEW y, NEW z,
                 Mirrors(x), y = After(x, e1), z = After(y, e2)
          PROVE  Follows(x, e1) /\ Follows(y, e2) /\ Mirrors(z)'
      BY <1>6, <2>3, <2>4, <2>5, TravellerCancelMirrors
    <2> QED
      BY <1>1, <2>2, <2>5, PublishesTwo
  <1>7. CASE /\ CancelByHost(id)
             /\ Publish(HostCancelEvents(id, HostCancelRefund(Escrowed(id)),
                                         config.host_cancel_fee))
    <2>1. PICK shares, e1, e2, e3 :
             /\ shares = HostCancelRefund(booking[id].escrow_amount)
             /\ e1 = HostCancellationFeePaid(id, booking[id].host, config.ops_pool,
                                             config.host_cancel_fee)
             /\ e2 = BookingCancelled(id, TRUE, shares)
             /\ e3 = SettlementExecuted(id, "HostCancel", shares)
      OBVIOUS
    <2>2. Publish(<< e1, e2, e3 >>)
      BY <1>7, <2>1 DEF HostCancelEvents, Escrowed
    <2>3. e2.type = "BookingCancelled" /\ e2.booking_id = id
      BY <2>1 DEF BookingCancelled, Event
    <2>4. /\ shares = HostCancelRefund(booking[id].escrow_amount)
          /\ e1 = HostCancellationFeePaid(id, booking[id].host, config.ops_pool,
                                          config.host_cancel_fee)
          /\ e3 = SettlementExecuted(id, "HostCancel", shares)
      BY <2>1
    <2>5. ASSUME NEW x, NEW w, NEW y, NEW z,
                 Mirrors(x), w = After(x, e1), y = After(w, e2), z = After(y, e3)
          PROVE  Follows(x, e1) /\ Follows(w, e2) /\ Follows(y, e3) /\ Mirrors(z)'
      BY <1>7, <2>3, <2>4, <2>5, HostCancelMirrors
    <2> QED
      BY <1>1, <2>2, <2>5, PublishesThree
  <1>8. ASSUME NEW bps \in BpsArgs, ResolveDispute(id, bps),
               Publish(ResolveEvents(id, bps, BpsAmounts(Escrowed(id), bps)))
        PROVE  StreamExplains'
    <2>1. PICK shares, e1, e2 :
             /\ shares = BpsAmounts(booking[id].escrow_amount, bps)
             /\ e1 = Event("DisputeResolved", id, bps)
             /\ e2 = SettlementExecuted(id, "Dispute", shares)
      OBVIOUS
    <2>2. Publish(<< e1, e2 >>)
      BY <1>8, <2>1 DEF ResolveEvents, Escrowed
    <2>3. \A x, y, z : Mirrors(x) /\ y = After(x, e1) /\ z = After(y, e2)
             => Follows(x, e1) /\ Follows(y, e2) /\ Mirrors(z)'
      BY <1>8, <2>1, ResolveMirrors
    <2> QED
      BY <1>1, <2>2, <2>3, PublishesTwo
  <1> QED
    BY <1>2, <1>3, <1>4, <1>5, <1>6, <1>7, <1>8 DEF PublishedCall

\* Every step is a step of the contract, and keeps the stream explaining it.
LEMMA EventsStep ==
    ASSUME EventsInv, [EventsNext]_eventVars
    PROVE  [Next]_vars /\ EventsInv'
  <1>1. StreamExplains /\ Inv
    BY DEF EventsInv
  <1>2. CASE PublishedBook
    <2>1. [Next]_vars
      BY <1>2, PublishedIsCall DEF Next
    <2> QED
      BY <1>1, <1>2, <2>1, BookExplains, StepInv DEF EventsInv
  <1>3. ASSUME NEW id \in DOMAIN booking, PublishedCall(id)
        PROVE  [Next]_vars /\ EventsInv'
    <2>1. [Next]_vars
      BY <1>3, PublishedIsCall DEF Next
    <2> QED
      BY <1>1, <1>3, <2>1, CallExplains, StepInv DEF EventsInv
  <1>4. CASE /\ (\E hash \in Wasms : Upgrade(hash)) \/ World
             /\ UNCHANGED indexerVars
    <2>1. [Next]_vars
      BY <1>4 DEF Next
    <2> QED
      BY <1>1, <1>4, <2>1, QuietExplains, StepInv DEF EventsInv
  <1>5. CASE Consume
    <2>1. UNCHANGED vars
      BY <1>5 DEF Consume
    <2> QED
      BY <1>1, <1>5, <2>1, ConsumeExplains, StepInv DEF EventsInv
  <1>6. CASE UNCHANGED eventVars
    <2>1. UNCHANGED vars /\ UNCHANGED indexerVars
      BY <1>6 DEF eventVars
    <2> QED
      BY <1>1, <2>1, QuietExplains, StepInv DEF EventsInv
  <1> QED
    BY <1>2, <1>3, <1>4, <1>5, <1>6 DEF EventsNext

\* At deployment there is nothing to say.
LEMMA EventsInitInv ==
    ASSUME EventsInit
    PROVE  EventsInv
  <1>1. Inv /\ Init
    BY InitInv DEF EventsInit
  <1>2. /\ stream = <<>> /\ DOMAIN index = {} /\ DOMAIN booking = {}
        /\ index = [id \in {} |-> {}]
        /\ books = balance /\ total_escrowed = 0
    BY DEF EventsInit, Init
  <1>3. Stored = [id \in {} |-> {}]
    BY <1>2 DEF Stored
  <1> DEFINE none == [a \in Address |-> 0]
  <1>4. none \in Gifts /\ Balances(none) = books
    <2>1. books \in [Address -> Nat] /\ books[Contract] = 0
      BY <1>1, <1>2, BookingAssumption DEF Init
    <2>2. \A a \in Address : Balances(none)[a] = books[a]
      BY <1>2, <2>1 DEF Balances, InBooks
    <2> QED
      BY <2>1, <2>2 DEF Balances, InBooks, Gifts
  <1>5. PICK s, x : s = stream /\ x = Known
    OBVIOUS
  <1>6. Mirrors(x)
    BY <1>2, <1>3, <1>4, <1>5 DEF Mirrors, Known
  <1>7. Leads(s, x, x)
    BY <1>2, <1>5, LeadsEmpty
  <1>8. s \in Seq({})
    BY <1>2, <1>5
  <1> QED
    BY <1>1, <1>5, <1>6, <1>7, <1>8 DEF EventsInv, StreamExplains

\* The invariant holds in every reachable state.
LEMMA EventsInvariance == EventsSpec => []EventsInv /\ Spec
  <1>1. EventsInit => EventsInv /\ Init
    BY EventsInitInv DEF EventsInit
  <1>2. EventsInv /\ [EventsNext]_eventVars => [Next]_vars /\ EventsInv'
    BY EventsStep
  <1> QED
    BY <1>1, <1>2, PTL DEF EventsSpec, Spec

-----------------------------------------------------------------------------
(* The theorems.                                                           *)

\* The entrypoints with their events behave as the contract's specification
\* says, whatever the indexer does; so all that is proved of it holds here.
THEOREM EventsUseContract == EventsSpec => Spec
  BY EventsInvariance, PTL

\* Whoever has read all events knows every record as it is stored.
THEOREM IndexAlwaysAgrees == EventsSpec => []IndexAgrees
  <1>1. EventsInv => IndexAgrees
    <2> SUFFICES ASSUME StreamExplains, CaughtUp
                 PROVE  index = [id \in DOMAIN booking |-> Seen(booking[id])]
      BY DEF EventsInv, IndexAgrees
    <2>1. PICK y : Leads(<<>>, Known, y) /\ Mirrors(y)
      BY DEF StreamExplains, CaughtUp
    <2>2. Known = y
      BY <2>1 DEF Leads
    <2> QED
      BY <2>1, <2>2 DEF Mirrors, Known, Stored
  <1> QED
    BY <1>1, EventsInvariance, PTL

\* Whoever has read all events knows the escrow exactly, and what everybody
\* else owns at most: a balance falls short of the books by a sum its owner
\* may have given to the contract directly, and is never above them.
THEOREM BooksAgreeButForGifts ==
    EventsSpec => [](CaughtUp =>
                       /\ books[Contract] = total_escrowed
                       /\ \E g \in Gifts : \A a \in Address \ {Contract} :
                             books[a] = balance[a] + g[a])
  <1>1. EventsInv => (CaughtUp =>
                       /\ books[Contract] = total_escrowed
                       /\ \E g \in Gifts : \A a \in Address \ {Contract} :
                             books[a] = balance[a] + g[a])
    <2> SUFFICES ASSUME StreamExplains, Inv, CaughtUp
                 PROVE  /\ books[Contract] = total_escrowed
                        /\ \E g \in Gifts : \A a \in Address \ {Contract} :
                              books[a] = balance[a] + g[a]
      BY DEF EventsInv
    <2>1. PICK y : Leads(<<>>, Known, y) /\ Mirrors(y)
      BY DEF StreamExplains, CaughtUp
    <2>2. Known = y
      BY <2>1 DEF Leads
    <2>3. PICK g \in Gifts : books = Balances(g)
      BY <2>1, <2>2 DEF Mirrors, Known
    <2>4. Contract \in Address
      BY LedgerAssumption
    <2> QED
      BY <2>3, <2>4 DEF Balances, InBooks
  <1> QED
    BY <1>1, EventsInvariance, PTL

\* So he knows every balance as long as nobody gives anything.
THEOREM BooksAlwaysAgree ==
    ASSUME Donations = {}
    PROVE  EventsSpec => []BooksAgree
  <1> DEFINE Agree == CaughtUp =>
                        /\ books[Contract] = total_escrowed
                        /\ \E g \in Gifts : \A a \in Address \ {Contract} :
                              books[a] = balance[a] + g[a]
  <1>1. Inv /\ Agree => BooksAgree
    <2> SUFFICES ASSUME Inv, Agree, CaughtUp, NEW a \in Address \ {Contract}
                 PROVE  books[Contract] = total_escrowed /\ books[a] = balance[a]
      BY LedgerAssumption DEF BooksAgree
    <2>1. PICK g \in Gifts : books[a] = balance[a] + g[a]
      OBVIOUS
    <2>2. g[a] = 0 /\ balance[a] \in Nat
      BY DEF Gifts, Inv, TypeOK, TokenTypeOK
    <2> QED
      BY <2>1, <2>2
  <1>2. EventsInv => Inv
    BY DEF EventsInv
  <1> QED
    BY <1>1, <1>2, BooksAgreeButForGifts, EventsInvariance, PTL

\* After a settlement the stream says nothing more of the booking.
THEOREM SettlementAlwaysLast == EventsSpec => []SettlementIsLast
  <1>1. EventsInv => SettlementIsLast
    <2> SUFFICES ASSUME StreamExplains, NEW i \in DOMAIN stream
                 PROVE  LET id == stream[i].booking_id
                        IN  /\ id \in DOMAIN index => ~index[id].settled
                            /\ \A j \in 1 .. i - 1 :
                                  stream[j].type = "SettlementExecuted"
                                    => stream[j].booking_id # id
      BY DEF EventsInv, SettlementIsLast
    <2>1. PICK S, s, x, y : /\ s \in Seq(S) /\ s = stream /\ x = Known
                            /\ Leads(s, x, y)
      BY DEF StreamExplains
    <2>2. PICK h : Derives(h, s) /\ h[0] = x
      BY <2>1 DEF Leads
    <2>3. i \in 1 .. Len(s) /\ Len(s) \in Nat /\ DOMAIN s = 1 .. Len(s)
      BY <2>1
    <2> DEFINE id == s[i].booking_id
    <2>4. id \in DOMAIN h[i - 1].index => ~h[i - 1].index[id].settled
      BY <2>2, <2>3 DEF Derives, Follows
    <2>5. id \in DOMAIN index => ~index[id].settled
      <3>1. 0 \in 0 .. Len(s) /\ i - 1 \in 0 .. Len(s) /\ 0 <= i - 1
        BY <2>3
      <3>2. Grows(h[0], h[i - 1])
        BY <2>2, <3>1 DEF Derives
      <3>3. h[0].index = index
        BY <2>1, <2>2 DEF Known
      <3> QED
        BY <2>4, <3>2, <3>3 DEF Grows
    <2>6. ASSUME NEW j \in 1 .. i - 1, s[j].type = "SettlementExecuted",
                 s[j].booking_id = id
          PROVE  FALSE
      <3>1. /\ j \in 1 .. Len(s) /\ j \in 0 .. Len(s)
            /\ i - 1 \in 0 .. Len(s) /\ j <= i - 1
        BY <2>3, <2>6
      <3>2. Grows(h[j], h[i - 1])
        BY <2>2, <3>1 DEF Derives
      <3>3. PICK w, e : w = h[j - 1] /\ e = s[j]
        OBVIOUS
      <3>4. Follows(w, e) /\ h[j] = After(w, e)
        BY <2>2, <3>1, <3>3 DEF Derives
      <3>5. h[j].index[id].settled
        BY <2>6, <3>3, <3>4 DEF Follows
      <3>6. id \in DOMAIN h[j].index
        BY <2>6, <3>3, <3>4 DEF After, Put
      <3> QED
        BY <2>4, <3>2, <3>5, <3>6 DEF Grows
    <2> QED
      BY <2>1, <2>5, <2>6
  <1> QED
    BY <1>1, EventsInvariance, PTL
=============================================================================
