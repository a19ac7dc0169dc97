----------------------------- MODULE CrmDemand -----------------------------
(***************************************************************************)
(* The CRM demand feed (usali/crm_api.py, crm_pull.py, crm_feed.py and the *)
(* Delphi and Tripleseat adapters): a manager pulls the demand of the next *)
(* days page by page while bookings come and go at the provider, and each  *)
(* pull is stored as one batch that speaks, by its silence too, for every  *)
(* day of its horizon.  Readers take the newest batch that covers a day.   *)
(* The stamp of a batch is SQL now(), the start of the transaction, which  *)
(* began before the first page was asked for.  A figure a provider does    *)
(* not speak of is Unspoken; labels are left out.  An administrator may    *)
(* connect the other provider, or none, between any two steps of a pull;   *)
(* the property has its crm_ref.                                           *)
(***************************************************************************)
EXTENDS Integers, Sequences, FiniteSets, FiniteSetsExt, SequencesExt, Handlers

CONSTANTS Booking,      \* room blocks (Delphi), events (Tripleseat)
          Stay,         \* booking -> its date and the night it holds rooms for
          Occupied,     \* days for which Delphi reports rooms on the books
          PageSize,
          HorizonDays,  \* 90 in the code
          Puller,       \* concurrent refresh requests
          LastDay,      \* bound: the calendar
          MaxStamps,    \* bound: pulls begun
          MaxEdits      \* bound: such changes

VARIABLES provider,  \* the connected one, "" for none
          today,     \* of the property's time zone
          listed,    \* bookings at each provider, in the order it pages them
          edits,     \* changes at the providers and of the connection so far
          pulls,     \* refresh requests
          batches    \* crm_pull_batch with its crm_demand_snapshot rows

crmVars == <<provider, today, listed, edits, pulls, batches>>

ASSUME CrmConstants ==
    /\ IsFiniteSet(Booking) /\ IsFiniteSet(Puller)
    /\ PageSize \in Nat \ {0}

Crm == {"delphi", "tripleseat"}
Unspoken == -1
Silent == <<>>
StayDates == 1..LastDay + HorizonDays

CrmInit ==
    /\ provider \in Crm \cup {""}
    /\ today = 1
    /\ \E bs \in {<<>>, SetToSeq(Booking)} : listed = [c \in Crm |-> bs]
    /\ edits = 0
    /\ pulls = [r \in Puller |-> Idle]
    /\ batches = <<>>

-----------------------------------------------------------------------------
(* The providers *)

OnBooks(c) == Range(listed[c])
Running == {r \in Puller : pulls[r] # Idle}

(* Ghost of a running pull: the bookings that were there at some time since
   it began. *)
Witnessed(c, now) ==
    [r \in Puller |-> IF r \in Running /\ pulls[r].feed = c
                      THEN [pulls[r] EXCEPT !.ever = @ \cup now]
                      ELSE pulls[r]]

Changes(c, bs) ==
    /\ edits < MaxEdits
    /\ listed' = [listed EXCEPT ![c] = bs]
    /\ edits' = edits + 1
    /\ pulls' = Witnessed(c, Range(bs))
    /\ UNCHANGED <<provider, today, batches>>

(* Wherever the provider sorts it. *)
book(c, b) ==
    /\ b \notin OnBooks(c)
    /\ \E i \in 1..Len(listed[c]) + 1 : Changes(c, InsertAt(listed[c], i, b))

cancel(c, b) == \E i \in DOMAIN listed[c] : listed[c][i] = b /\ Changes(c, RemoveAt(listed[c], i))

Midnight ==
    /\ today < LastDay
    /\ today' = today + 1
    /\ UNCHANGED <<provider, listed, edits, pulls, batches>>

(* A page of the mocks, and how many there are. *)
total_pages(c) == Max({1, (Len(listed[c]) + PageSize - 1) \div PageSize})
Items(c, page) ==
    {<<page, listed[c][n]>> : n \in {k \in DOMAIN listed[c] : (page - 1) * PageSize < k /\ k <= page * PageSize}}

-----------------------------------------------------------------------------
(* The connection *)

(* The row is replaced whole; a key the provider refused was never stored. *)
connect(c) ==
    /\ edits < MaxEdits
    /\ provider' = c
    /\ edits' = edits + 1
    /\ UNCHANGED <<today, listed, pulls, batches>>

(* Whether or not anything was connected. *)
disconnect_feed ==
    /\ edits < MaxEdits
    /\ provider' = ""
    /\ edits' = edits + 1
    /\ UNCHANGED <<today, listed, pulls, batches>>

-----------------------------------------------------------------------------
(* A refresh *)

Stamps == {batches[i].pulled_at : i \in DOMAIN batches} \cup {pulls[r].pulled_at : r \in Running}
Now == 1 + Max(Stamps \cup {0})

(* The transaction begins, and with it the stamp; it reads the name of the
   provider.  Nothing connected: refused. *)
refresh_demand(r) ==
    /\ pulls[r] = Idle
    /\ provider # ""
    /\ Now <= MaxStamps
    /\ pulls' = Goes(pulls, r,
         [pc |-> "resolve", pulled_at |-> Now, name |-> provider, feed |-> "", start |-> today,
          page |-> 1, kept |-> {}, asked |-> edits, ever |-> {}])
    /\ UNCHANGED <<provider, today, listed, edits, batches>>

(* A session of its own reads the row again, for the adapter and its key. *)
resolve_crm_feed(r) ==
    /\ At(pulls, r, "resolve")
    /\ provider # ""
    /\ pulls' = Goes(pulls, r, [pulls[r] EXCEPT !.pc = "page", !.feed = provider,
                                              !.ever = OnBooks(provider)])
    /\ UNCHANGED <<provider, today, listed, edits, batches>>

(* A booking served again by a shifted page is skipped. *)
Unseen(kept, items) == {x \in items : \A y \in kept : y[2] # x[2]}

(* One page; a page past the last is refused by the provider. *)
fetch_page(r) ==
    LET p == pulls[r]
    IN  /\ At(pulls, r, "page")
        /\ p.page <= total_pages(p.feed)
        /\ pulls' = Goes(pulls, r,
             [p EXCEPT !.kept = @ \cup Unseen(@, Items(p.feed, p.page)),
                       !.page = @ + 1,
                       !.pc = IF p.page >= total_pages(p.feed) THEN "store" ELSE "page"])
        /\ UNCHANGED <<provider, today, listed, edits, batches>>

(* Disconnected since, an unreachable provider, an error status, a page out
   of range, a body that is no demand: rolled back, the refusal audited. *)
refused(r) ==
    /\ r \in Running /\ pulls[r].pc # "store"
    /\ pulls[r].pc = "resolve" => provider = ""
    /\ pulls' = Goes(pulls, r, Idle)
    /\ UNCHANGED <<provider, today, listed, edits, batches>>

(* What is kept is a set of <<page, booking>>. *)
Dated(d) == {b \in Booking : Stay[b].date = d}
Nightly(d) == {b \in Booking : Stay[b].night = d}
HeldOn(kept, held) == Cardinality({x \in kept : x[2] \in held})

(* Rooms on the books of every occupied day, blocked rooms of every night. *)
delphi_days(kept, window) ==
    LET held(d) == HeldOn(kept, Dated(d) \cup Nightly(d))
    IN  [d \in {d \in window : d \in Occupied \/ held(d) > 0} |->
           [rooms_on_books |-> IF d \in Occupied THEN 1 ELSE Unspoken,
            group_rooms |-> held(d), event_covers |-> Unspoken]]

(* Covers on the date of the event, rooms on the night of its block. *)
tripleseat_days(kept, window) ==
    LET on(d) == HeldOn(kept, Dated(d))
        night(d) == HeldOn(kept, Nightly(d))
    IN  [d \in {d \in window : on(d) + night(d) > 0} |->
           [rooms_on_books |-> Unspoken, group_rooms |-> night(d), event_covers |-> on(d)]]

DemandOf(feed, kept, window) ==
    IF feed = "delphi" THEN delphi_days(kept, window) ELSE tripleseat_days(kept, window)

Window(start) == start..start + HorizonDays

(* One batch with its snapshots, committed with its audit event. *)
store_pull(r) ==
    LET p == pulls[r]
    IN  /\ At(pulls, r, "store")
        /\ batches' = Append(batches,
             [pulled_at |-> p.pulled_at, provider |-> p.name, horizon |-> Window(p.start),
              days |-> DemandOf(p.feed, p.kept, Window(p.start)), feed |-> p.feed,
              asked |-> p.asked, ever |-> p.ever])
        /\ pulls' = Goes(pulls, r, Idle)
        /\ UNCHANGED <<provider, today, listed, edits>>

CrmNext ==
    \/ \E c \in Crm, b \in Booking : book(c, b) \/ cancel(c, b)
    \/ Midnight
    \/ \E c \in Crm : connect(c)
    \/ disconnect_feed
    \/ \E r \in Puller : \/ refresh_demand(r) \/ resolve_crm_feed(r) \/ fetch_page(r)
                        \/ refused(r) \/ store_pull(r)

CrmSpec == CrmInit /\ [][CrmNext]_crmVars

-----------------------------------------------------------------------------
(* Reads *)

NewestFirst(on) ==
    LET newer(i) == {j \in on : batches[j].pulled_at > batches[i].pulled_at}
    IN  [n \in 1..Cardinality(on) |-> CHOOSE i \in on : Cardinality(newer(i)) = n - 1]

_covering_batches(d) == NewestFirst({i \in DOMAIN batches : d \in batches[i].horizon})

(* What a batch says of a day. *)
Said(i, d) == IF d \in DOMAIN batches[i].days THEN <<batches[i].days[d]>> ELSE Silent

(* Faulty: the silence of a newer batch lets an older one speak. *)
_voices_by_date_Spoken(d) ==
    LET bs == NewestFirst({i \in DOMAIN batches : d \in batches[i].horizon /\ Said(i, d) # Silent})
    IN  [n \in DOMAIN bs |-> Said(bs[n], d)]

(* What each covering batch says of a day; nothing when none ever spoke. *)
_voices_by_date(d) ==
    LET bs == _covering_batches(d)
    IN  IF \A n \in DOMAIN bs : Said(bs[n], d) = Silent THEN <<>>
        ELSE [n \in DOMAIN bs |-> Said(bs[n], d)]

latest_demand(d) ==
    LET voices == _voices_by_date(d) IN IF DOMAIN voices = {} THEN Silent ELSE voices[1]

demand_pace(d) ==
    LET voices == _voices_by_date(d)
    IN  IF latest_demand(d) = Silent THEN Silent
        ELSE <<voices[1], IF Len(voices) > 1 THEN voices[2] ELSE Silent>>

(* What a provider's adapter speaks of. *)
capabilities(c) == IF c = "delphi" THEN {"rooms_on_books", "group_rooms"}
                   ELSE {"group_rooms", "event_covers"}

(* The scheduler's surface: nothing while no provider is connected, whatever
   was stored; else the latest demand under the capabilities of the one that
   is connected now. *)
get_demand(days) ==
    IF provider = "" THEN [configured |-> FALSE, capabilities |-> {}, days |-> <<>>]
    ELSE [configured |-> TRUE, capabilities |-> capabilities(provider),
          days |-> [d \in {d \in days : latest_demand(d) # Silent} |-> latest_demand(d)[1]]]

-----------------------------------------------------------------------------
(* Properties *)

(* What the day would be told of the given bookings. *)
Told(feed, bookings, window, d) ==
    LET days == DemandOf(feed, {<<0, b>> : b \in bookings}, window)
    IN  IF d \in DOMAIN days THEN <<days[d]>> ELSE Silent

GroupOf(voice) == IF voice = Silent THEN 0 ELSE voice[1].group_rooms

(* The newest pull that covers the day, when nothing changed since it began. *)
Fresh(i, d) ==
    /\ d \in batches[i].horizon /\ batches[i].asked = edits
    /\ \A j \in DOMAIN batches :
         d \in batches[j].horizon => batches[j].pulled_at <= batches[i].pulled_at

(* Demand is a page-by-page read of books that change under it, two pulls may
   overlap, and the provider may be replaced under both.  No batch counts a
   booking twice or one that was not there while it ran.  Whenever nothing
   changed since the newest pull that covers a day began, the surface shows
   for it exactly what the connected provider would say now, in the
   dimensions it speaks of: a cancelled block does not stay on the books for
   good, an older pull never outranks a newer one, and a dimension nobody
   speaks of is a gap and not a number.  The pace compares that figure with
   an earlier pull's. *)
DemandIsTrue ==
    /\ \A i \in DOMAIN batches : \A d \in batches[i].horizon :
         LET b == batches[i]
         IN  GroupOf(Said(i, d)) <= GroupOf(Told(b.feed, b.ever, b.horizon, d))
    /\ \A i \in DOMAIN batches : \A d \in StayDates : Fresh(i, d) =>
         LET told  == Told(provider, OnBooks(provider), batches[i].horizon, d)
             shown == get_demand({d})
         IN  /\ shown.configured /\ batches[i].provider = provider
             /\ shown.days = [x \in {y \in {d} : told # Silent} |-> told[1]]
             /\ \A n \in DOMAIN shown.days : \A figure \in DOMAIN shown.days[n] :
                  shown.days[n][figure] # Unspoken => figure \in shown.capabilities
             /\ demand_pace(d) # Silent => demand_pace(d)[1] = told
=============================================================================
