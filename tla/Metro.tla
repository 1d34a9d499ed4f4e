-------------------------------- MODULE Metro --------------------------------
(***************************************************************************)
(* The ride between districts: the metro store, which outlives the page,   *)
(* with its one timer, the page that loads the map and shows the crossing, *)
(* and the map with what the server counts for each district.              *)
(***************************************************************************)
EXTENDS Integers, FiniteSets

CONSTANTS Station, Nowhere, Origins,  \* Origins: of the characters that may log in
          MaxLoads, MaxVisits         \* bounds: loads of the map, mounts of the page

VARIABLES character,                       \* the origin of who is logged in
          district, traveling, timer,      \* the store, and where its timer will set the character down
          mounted, destination, crossing,  \* the page; the overlay's phase
          load, loading, error, map,       \* the load under way and what the page holds
          city,                            \* what the server would answer
          loads, visits

metroVars == <<character, district, traveling, timer, mounted, destination, crossing, load, loading, error, map, city, loads, visits>>
store == <<district, traveling, timer>>
page == <<mounted, destination, crossing>>
data == <<load, loading, error, map>>

\* Indicators of a district: vendors, trampos, heat above zero, a crew's tag.
Indicators == {"vendors", "gigs", "heat", "territory"}
NoMap == [o \in Station |-> {}]
NoLoad == [vendors |-> "none", metro |-> "none", read |-> NoMap]

Init ==
  /\ character \in Origins
  /\ district = Nowhere /\ traveling = FALSE /\ timer = Nowhere
  /\ mounted = FALSE /\ destination = Nowhere /\ crossing = "none"
  /\ load = NoLoad /\ loading = TRUE /\ error = FALSE /\ map = NoMap
  /\ city = [o \in Station |-> {"gigs"}]
  /\ loads = 0 /\ visits = 0
-----------------------------------------------------------------------------
\* The page.

Sent == [NoLoad EXCEPT !.vendors = "sent", !.metro = "sent"]
Load ==
  /\ loads < MaxLoads
  /\ load' = Sent /\ loading' = TRUE /\ error' = FALSE /\ loads' = loads + 1

\* init: a district, once set, stays, whoever logs in.
Mount ==
  /\ ~mounted /\ visits < MaxVisits
  /\ mounted' = TRUE /\ destination' = Nowhere /\ crossing' = "none" /\ visits' = visits + 1
  /\ district' = IF district = Nowhere /\ ~traveling THEN character ELSE district
  /\ map' = NoMap /\ Load
  /\ UNCHANGED <<character, traveling, timer, city>>
cancelTravel == traveling' = FALSE /\ timer' = Nowhere /\ UNCHANGED district
\* The load under way is cancelled, the ride too.
Unmount ==
  /\ mounted
  /\ mounted' = FALSE /\ destination' = Nowhere /\ crossing' = "none"
  /\ load' = NoLoad /\ UNCHANGED <<loading, error, map>>
  /\ cancelTravel
  /\ UNCHANGED <<character, city, loads, visits>>

\* Both lists together, or the error of the first to fail.
Arrive(list) ==
  /\ mounted /\ load[list] = "sent"
  /\ LET now == [load EXCEPT ![list] = "landed", !.read = IF list = "metro" THEN city ELSE @]
         done == \A l \in {"vendors", "metro"} : now[l] = "landed"
     IN /\ load' = IF done THEN NoLoad ELSE now
        /\ map' = IF done THEN [o \in Station |-> now.read[o] \cup {"vendors"}] ELSE map
        /\ loading' = (loading /\ ~done)
  /\ UNCHANGED <<character, store, page, error, city, loads, visits>>
LoadFails ==
  /\ mounted /\ load # NoLoad
  /\ load' = NoLoad /\ error' = TRUE /\ loading' = FALSE
  /\ UNCHANGED <<character, store, page, map, city, loads, visits>>
Retry ==
  /\ mounted /\ error /\ ~loading
  /\ Load
  /\ UNCHANGED <<character, store, page, map, city, visits>>

\* The map takes the place of the loader and of the error.
MapOpen == mounted /\ ~loading /\ ~error
handleSelect(o) ==
  /\ MapOpen /\ ~traveling
  /\ destination' = o
  /\ IF o = district THEN UNCHANGED <<store, crossing>>
     ELSE /\ traveling' = TRUE /\ timer' = o /\ crossing' = "boarding"
          /\ UNCHANGED district
  /\ UNCHANGED <<character, mounted, data, city, loads, visits>>
\* Half of the ride; the overlay leaves with it.
HalfWay ==
  /\ crossing = "boarding"
  /\ crossing' = "crossing"
  /\ UNCHANGED <<character, store, mounted, destination, data, city, loads, visits>>
\* METRO_TRAVEL_MS is twice the beat of the overlay.
TravelTimer ==
  /\ timer # Nowhere /\ crossing # "boarding"
  /\ district' = timer /\ timer' = Nowhere /\ traveling' = FALSE
  /\ destination' = IF mounted THEN Nowhere ELSE destination
  /\ crossing' = "none"
  /\ UNCHANGED <<character, mounted, data, city, loads, visits>>

\* A trampo, the heat of one or a claim changes what the next load counts.
CityMoves ==
  /\ visits < MaxVisits
  /\ \E o \in Station, i \in {"heat", "territory"} :
       city' = [city EXCEPT ![o] = IF i \in @ THEN @ \ {i} ELSE @ \cup {i}]
  /\ UNCHANGED <<character, store, page, data, loads, visits>>
\* The page goes with the session, the store does not.
LogIn ==
  /\ ~mounted
  /\ character' \in Origins \ {character}
  /\ UNCHANGED <<store, page, data, city, loads, visits>>

Next ==
  \/ Mount \/ Unmount \/ LoadFails \/ Retry \/ HalfWay \/ TravelTimer \/ CityMoves \/ LogIn
  \/ \E l \in {"vendors", "metro"} : Arrive(l)
  \/ \E o \in Station : handleSelect(o)
-----------------------------------------------------------------------------
\* The chips of a station: only what is above zero, or claimed, has one.
Badges(o) == {i \in Indicators : i \in map[o]}
\* A station of the map.
StationShown(o) ==
  [current |-> o = district, origin |-> o = character, disabled |-> traveling, badges |-> Badges(o)]
Overlay == traveling /\ destination # Nowhere

\* The timer never fires off-screen: no ride goes on without its page, its overlay
\* and the stations disabled, and the overlay names the district the ride ends in.
RideOnScreen ==
  /\ timer # Nowhere <=> traveling
  /\ traveling => mounted /\ Overlay /\ destination = timer /\ timer # district
  /\ MapOpen /\ traveling => \A o \in Station : StationShown(o).disabled

\* The map is shown whole, of one load, or not at all: with both lists there, and
\* nothing of a visit before; and with one station to be in.
MapWhole ==
  MapOpen =>
    /\ load = NoLoad
    /\ \A o \in Station : "vendors" \in StationShown(o).badges
    /\ Cardinality({o \in Station : StationShown(o).current}) = 1

MetroHolds == RideOnScreen /\ MapWhole
=============================================================================
