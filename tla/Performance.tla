---------------------------- MODULE Performance ----------------------------
(***************************************************************************)
(* Occupancy, ADR and RevPAR (usali/performance.py, inventory.py, and the  *)
(* writes of property_config_api.py they read): room counts dated from a   *)
(* day on, blocks of rooms out of order, and the statistics and segments   *)
(* of days that land in any order and may land again.  A report over a     *)
(* window compares it with the window before and the one a year before,    *)
(* and draws trends over the days behind it.  A ratio is the pair of its   *)
(* terms, None where the code answers null; Refused is a raised error.     *)
(***************************************************************************)
EXTENDS Integers, FiniteSets, FiniteSetsExt

CONSTANTS Horizon,       \* bound: days of the calendar
          Year,          \* days a year is shifted by
          TrendDays,     \* days a trend looks back, 30 in the code
          Rooms,         \* room counts
          Rate,          \* daily rates a landed day may have
          MaxBlocks,     \* bound: blocks out of order
          MaxRows        \* bound: rows of the four tables

ASSUME PerformanceConstants ==
    /\ {Horizon, Year, TrendDays} \subseteq Nat
    /\ Rooms \subseteq Nat /\ IsFiniteSet(Rooms) /\ Rooms # {} /\ Rate \subseteq Int

VARIABLES inventory,     \* room_inventory: day -> total_rooms
          blocks,        \* out_of_order_room rows
          stats,         \* day -> the DAY statistics landed for it
          segments,      \* day -> complimentary and house rooms landed
          basis          \* adr_room_basis

pfVars == <<inventory, blocks, stats, segments, basis>>

Calendar == 1..Horizon
Nothing == [d \in {} |-> 0]
None == <<>>
Summed(f) == MapThenSumSet(LAMBDA k : f[k], DOMAIN f)
Put(f, d, v) == [x \in DOMAIN f \cup {d} |-> IF x = d THEN v ELSE f[x]]

(* Room for one more row, or a row that is replaced. *)
RowFits(old) ==
    old \/ Cardinality(DOMAIN inventory) + Cardinality(blocks)
              + Cardinality(DOMAIN stats) + Cardinality(DOMAIN segments) < MaxRows

PfInit ==
    /\ inventory = Nothing
    /\ blocks = {}
    /\ stats = Nothing
    /\ segments = Nothing
    /\ basis = "as_reported"

-----------------------------------------------------------------------------
(* Configuration, one row at a time *)

(* A second row of a day is a correction. *)
set_inventory(d, n) ==
    /\ RowFits(d \in DOMAIN inventory)
    /\ inventory' = Put(inventory, d, n)
    /\ UNCHANGED <<blocks, stats, segments, basis>>

add_ooo(from, to, n) ==
    /\ RowFits(FALSE) /\ Cardinality(blocks) < MaxBlocks
    /\ from <= to
    /\ LET id == CHOOSE i \in 1..MaxBlocks : \A b \in blocks : b.id # i
       IN  blocks' = blocks \cup {[id |-> id, from |-> from, to |-> to, count |-> n]}
    /\ UNCHANGED <<inventory, stats, segments, basis>>

remove_ooo(b) ==
    /\ blocks' = blocks \ {b}
    /\ UNCHANGED <<inventory, stats, segments, basis>>

set_stat_config(b) ==
    /\ basis' = b
    /\ UNCHANGED <<inventory, blocks, stats, segments>>

(* The statistics report of a day, with the coverage row it leaves. *)
LandStatistics(d, sold, rate) ==
    /\ RowFits(d \in DOMAIN stats)
    /\ stats' = Put(stats, d, [sold |-> sold, rate |-> rate, revenue |-> rate * sold])
    /\ UNCHANGED <<inventory, blocks, segments, basis>>

LandSegments(d, comp) ==
    /\ RowFits(d \in DOMAIN segments)
    /\ segments' = Put(segments, d, comp)
    /\ UNCHANGED <<inventory, blocks, stats, basis>>

PfNext ==
    \/ \E d \in Calendar, n \in Rooms : set_inventory(d, n)
    \/ \E from, to \in Calendar, n \in Rooms : add_ooo(from, to, n)
    \/ \E b \in blocks : remove_ooo(b)
    \/ \E b \in {"as_reported", "exclude_comp_house"} : set_stat_config(b)
    \/ \E d \in Calendar, sold \in 0..Max(Rooms), rate \in Rate : LandStatistics(d, sold, rate)
    \/ \E d \in Calendar, comp \in 0..1 : LandSegments(d, comp)

PfSpec == PfInit /\ [][PfNext]_pfVars

-----------------------------------------------------------------------------
(* inventory.py *)

Counted(d) == \E x \in DOMAIN inventory : x <= d

(* The latest row not after the day. *)
_in_force(d) == inventory[Max({x \in DOMAIN inventory : x <= d})]

OutOfOrder(d) == Summed([b \in {b \in blocks : b.from <= d /\ d <= b.to} |-> b.count])

Oversubscribed(d) == Counted(d) /\ OutOfOrder(d) > _in_force(d)

(* Day by day: what a window raises, at the first day that does. *)
InventoryError(start, end) ==
    LET bad == {d \in start..end : ~Counted(d) \/ Oversubscribed(d)}
    IN  IF bad = {} THEN "none"
        ELSE IF Counted(Min(bad)) THEN "InventoryInconsistent" ELSE "InventoryNotConfigured"

rooms_available(start, end) ==
    Summed([d \in start..end |-> _in_force(d) - OutOfOrder(d)])

-----------------------------------------------------------------------------
(* performance.py *)

Landed(start, end) == DOMAIN stats \cap (start..end)
Sold(start, end) == Summed([d \in Landed(start, end) |-> stats[d].sold])
Revenue(start, end) == Summed([d \in Landed(start, end) |-> stats[d].revenue])

complete_days(start, end) == {d \in Landed(start, end) : Counted(d)}

_comp_house_rooms(start, end) ==
    Summed([d \in DOMAIN segments \cap (start..end) |-> segments[d]])

(* Rooms sold net of complimentary and house use, where asked for. *)
adr_rooms_sold(start, end, b) ==
    IF b = "as_reported" THEN Sold(start, end) ELSE Sold(start, end) - _comp_house_rooms(start, end)

AdrError(start, end, b) ==
    IF b = "as_reported" THEN "none"
    ELSE IF \E d \in Landed(start, end) : stats[d].sold > 0 /\ d \notin DOMAIN segments
         THEN "AdrBasisUnavailable"
    ELSE IF adr_rooms_sold(start, end, b) <= 0 THEN "SegmentInconsistent" ELSE "none"

_ratio(num, den) == IF den <= 0 THEN None ELSE <<num, den>>

(* Availability is asked for first. *)
ErrorOf(start, end, b) ==
    LET error == InventoryError(start, end)
    IN  IF error # "none" THEN error ELSE AdrError(start, end, b)

core_metrics(start, end, b) ==
    [occupancy |-> _ratio(Sold(start, end), rooms_available(start, end)),
     adr |-> _ratio(Revenue(start, end), adr_rooms_sold(start, end, b)),
     revpar |-> _ratio(Revenue(start, end), rooms_available(start, end))]

(* Faulty: only a missing room count is no comparison. *)
Degrades_Inventory(error) == error = "InventoryNotConfigured"

(* What _prior_core_metrics catches. *)
Degrades(error) ==
    error \in {"InventoryNotConfigured", "AdrBasisUnavailable", "SegmentInconsistent"}

(* The error a prior window ends the request with. *)
_prior_core_metrics(start, end) ==
    LET error == ErrorOf(start, end, basis)
    IN  IF Landed(start, end) = {} \/ Degrades(error) THEN "none" ELSE error

compare(start, end) ==
    LET n == end - start + 1
        current == ErrorOf(start, end, basis)
        period == _prior_core_metrics(start - n, end - n)
        year == _prior_core_metrics(start - Year, start - Year + n - 1)
    IN  IF current # "none" THEN current ELSE IF period # "none" THEN period ELSE year

(* The days a trend is drawn over. *)
SeriesDays(anchor) == complete_days(anchor - TrendDays + 1, anchor)

(* A day without its ADR basis keeps the other metrics. *)
_daily_series(anchor) ==
    [d \in SeriesDays(anchor) |->
        IF AdrError(d, d, basis) # "none" THEN [core_metrics(d, d, "as_reported") EXCEPT !.adr = None]
        ELSE core_metrics(d, d, basis)]

(* trends: week on week, month to date and 30 days, of one series. *)
trends(anchor) ==
    IF \E d \in SeriesDays(anchor) : Oversubscribed(d) THEN "InventoryInconsistent" ELSE "none"

(* GET /performance: 409 with the first error raised, or an answer. *)
get_performance(start, end) ==
    LET error == compare(start, end) IN IF error # "none" THEN error ELSE trends(end)

(* The PMS's own daily ADR, weighted by the rooms sold. *)
_weighted_mean(days) ==
    _ratio(Summed([d \in days |-> stats[d].rate * stats[d].sold]),
           Summed([d \in days |-> stats[d].sold]))

(* |computed - ingested| <= 0.5, or nothing to compare. *)
_recon_line(computed, ingested) ==
    IF computed = None \/ ingested = None THEN "none"
    ELSE IF 2 * (computed[1] * ingested[2] - ingested[1] * computed[2])
                \in (-(computed[2] * ingested[2]))..(computed[2] * ingested[2])
         THEN "agrees" ELSE "diverges"

reconciliation(start, end) ==
    _recon_line(core_metrics(start, end, basis).adr, _weighted_mean(Landed(start, end)))

-----------------------------------------------------------------------------
(* Properties *)

Windows == {w \in Calendar \X Calendar : w[1] <= w[2]}

(* A gap in the past never fails a request: where the requested window can  *)
(* be computed, no room count or segment missing before it turns the answer *)
(* into an error (_prior_core_metrics and _daily_series degrade); only a    *)
(* past day with more rooms out of order than there are does.               *)
PastGapsNeverFail ==
    \A w \in Windows :
        ErrorOf(w[1], w[2], basis) = "none" =>
            \/ get_performance(w[1], w[2]) = "none"
            \/ \E d \in Calendar : d <= w[2] /\ Oversubscribed(d)

(* The reconciliation flags no day that is right: where the PMS's daily ADR *)
(* is the revenue over the rooms sold of that day, the weighted mean over   *)
(* any window agrees with the computed ADR, however the days differ.        *)
TrueDaysReconcile ==
    basis = "as_reported" =>
        \A w \in Windows :
            InventoryError(w[1], w[2]) = "none" => reconciliation(w[1], w[2]) # "diverges"

(* Past gaps neither fail the request nor make true days look wrong. *)
PerformanceHolds == PastGapsNeverFail /\ TrueDaysReconcile
=============================================================================
