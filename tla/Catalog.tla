------------------------------- MODULE Catalog -------------------------------
(***************************************************************************)
(* The content the game is seeded with: trampos, implants, what the vendors *)
(* sell, loot and consumables, and the districts they name.                 *)
(***************************************************************************)
EXTENDS Integers, Sequences, FiniteSets, FiniteSetsExt, Functions

\* The catalogue of trampos, by tier.  Districts go by their labels.

GigTemplate(type, district, difficulty, escape, needs, reward, nil, heat) ==
  [type |-> type, district |-> district, difficulty |-> difficulty, escape |-> escape, needs |-> needs,
   reward |-> reward, nil |-> nil, heat |-> heat]

TierOne ==
  {GigTemplate("extraction", "O Fluxo", 24, 22, [body |-> 4], 800, 12, 15),
   GigTemplate("delivery", "A Paraiso", 28, 28, [reflexes |-> 5, cool |-> 3], 1000, 12, 10),
   GigTemplate("sabotage", "O Fervo", 32, 32, [technical |-> 5], 1200, 14, 20),
   GigTemplate("extraction", "A Quebrada", 36, 36, [technical |-> 4, reflexes |-> 4], 1500, 15, 25),
   GigTemplate("delivery", "Babilonia", 14, 18, [cool |-> 3], 500, 10, 5),
   GigTemplate("sabotage", "A Quebrada", 20, 25, [technical |-> 3, body |-> 3], 900, 11, 10)}
TierTwo ==
  {GigTemplate("extraction", "A Paraiso", 60, 55, [body |-> 6, technical |-> 5], 3500, 18, 30),
   GigTemplate("delivery", "O Fervo", 65, 60, [reflexes |-> 7, cool |-> 5], 4000, 20, 35),
   GigTemplate("sabotage", "O Fluxo", 70, 65, [technical |-> 7, intelligence |-> 6], 5000, 22, 40),
   GigTemplate("extraction", "Babilonia", 75, 70, [body |-> 8, cool |-> 6, technical |-> 5], 6000, 25, 50)}
TierThree ==
  {GigTemplate("sabotage", "A Paraiso", 65, 60, [technical |-> 10, intelligence |-> 8], 12000, 28, 40),
   GigTemplate("extraction", "O Fervo", 70, 65, [body |-> 10, reflexes |-> 8], 15000, 30, 45),
   GigTemplate("delivery", "Babilonia", 60, 55, [reflexes |-> 9, cool |-> 7], 8000, 25, 20)}
TierFour ==
  {GigTemplate("extraction", "O Fluxo", 80, 75, [body |-> 13, technical |-> 10], 40000, 38, 60),
   GigTemplate("sabotage", "A Quebrada", 85, 80, [technical |-> 14, intelligence |-> 11], 55000, 42, 70),
   GigTemplate("delivery", "As Mortas", 75, 70, [reflexes |-> 12, cool |-> 10], 30000, 35, 35)}
TierFive ==
  {GigTemplate("extraction", "O Ponto", 95, 90, [body |-> 17, cool |-> 14], 120000, 55, 90),
   GigTemplate("sabotage", "A Paraiso", 100, 95, [technical |-> 18, intelligence |-> 16], 150000, 60, 100),
   GigTemplate("delivery", "As Mortas", 90, 85, [reflexes |-> 16, cool |-> 15], 100000, 50, 60)}

GIG_TEMPLATES == <<TierOne, TierTwo, TierThree, TierFour, TierFive>>
Tiers == DOMAIN GIG_TEMPLATES
requiredStreetCred == <<0, 5, 15, 30, 50>>
cooldownForTier(tier) ==
  CASE tier = 1 -> 5 [] tier = 2 -> 60 [] tier = 3 -> 900 [] tier = 4 -> 7200 [] OTHER -> 86400
SC_RANGES == <<1 .. 3, 3 .. 8, 8 .. 15, 15 .. 25, 25 .. 40>>

\* Vendor seeds name a district by its key, trampos by its label.
ORIGIN_LABELS ==
  [a_paraiso |-> "A Paraiso", o_fervo |-> "O Fervo", o_fluxo |-> "O Fluxo", a_quebrada |-> "A Quebrada",
   babilonia |-> "Babilonia", as_mortas |-> "As Mortas", o_ponto |-> "O Ponto"]
ORIGINS == DOMAIN ORIGIN_LABELS
NoDistrict == "none"
originFromDistrictString(district) ==
  IF district \in ORIGINS THEN district
  ELSE CHOOSE o \in ORIGINS \cup {NoDistrict} : IF \E q \in ORIGINS : ORIGIN_LABELS[q] = district
                                          THEN o \in ORIGINS /\ ORIGIN_LABELS[o] = district ELSE o = NoDistrict
\* The map of the metro counts the trampos of each district.
gigsAvailable(o) ==
  Cardinality({t \in UNION Range(GIG_TEMPLATES) : originFromDistrictString(t.district) = o})
-----------------------------------------------------------------------------
\* Implants, what the vendors sell, loot and consumables.

ChromeDefinition(slot, tier, cost, price) == [slot |-> slot, tier |-> tier, humanityCost |-> cost, basePrice |-> price]
CHROME_DEFINITIONS ==
  [neural_booster |-> ChromeDefinition("frontal_cortex", 1, 3, 1500), reflex_tuner |-> ChromeDefinition("nervous_system", 1, 3, 1500),
   kiroshi_optics |-> ChromeDefinition("ocular", 1, 4, 1800), gorilla_arms |-> ChromeDefinition("arms", 2, 8, 5000),
   subdermal_armor |-> ChromeDefinition("integumentary", 2, 6, 4000), medula_reforcada |-> ChromeDefinition("skeleton", 2, 6, 4000),
   segundo_coracao |-> ChromeDefinition("circulatory", 2, 8, 5500), tornozelos_fortificados |-> ChromeDefinition("legs", 2, 6, 4500),
   os_gazuah |-> ChromeDefinition("operating_system", 3, 12, 15000), os_fury |-> ChromeDefinition("operating_system", 3, 10, 12000),
   os_surge |-> ChromeDefinition("operating_system", 3, 10, 12000), neural_scrubber |-> ChromeDefinition("frontal_cortex", 3, 15, 20000)]
SLOT_CAPACITY ==
  [frontal_cortex |-> 3, ocular |-> 2, operating_system |-> 1, arms |-> 2, skeleton |-> 2, nervous_system |-> 3,
   circulatory |-> 3, integumentary |-> 3, legs |-> 1]
OS_ABILITY_SLUGS == {"os_gazuah", "os_fury", "os_surge"}

Sells(type, item, price, stock) == [type |-> type, item |-> item, price |-> price, stock |-> stock]
Chrome(item, price) == Sells("CHROME", item, price, -1)
VENDOR_SEED ==
  {[district |-> "babilonia",
    inventory |-> {Chrome("neural_booster", 1500), Chrome("reflex_tuner", 1500), Chrome("kiroshi_optics", 1800),
                   Chrome("gorilla_arms", 5000), Chrome("subdermal_armor", 4000), Chrome("medula_reforcada", 4000),
                   Chrome("segundo_coracao", 5500), Chrome("tornozelos_fortificados", 4500),
                   Chrome("os_gazuah", 20000), Chrome("os_fury", 15000), Chrome("os_surge", 15000),
                   Chrome("neural_scrubber", 22000), Sells("CONSUMABLE", "freio", 18000, -1)}],
   [district |-> "babilonia", inventory |-> {}],
   [district |-> "o_fervo", inventory |-> {Sells("CONSUMABLE", "syn_cafe", 50, -1), Sells("CONSUMABLE", "estabilizador", 7500, -1)}],
   [district |-> "as_mortas",
    inventory |-> {Sells("CONSUMABLE", "combat_stim", 300, -1), Sells("LOOT", "access_chip", 5000, 3),
                   Sells("CONSUMABLE", "choque", 30000, -1)}]}

Loot(tier, item, weight, min, max) == [tier |-> tier, item |-> item, weight |-> weight, min |-> min, max |-> max]
LOOT_TABLES ==
  {Loot(1, "eddies", 40, 50, 200), Loot(1, "syn_cafe", 30, 1, 1), Loot(1, "e_scrap", 20, 1, 3), Loot(1, "broken_chip", 10, 1, 1),
   Loot(2, "eddies", 45, 200, 800), Loot(2, "combat_stim", 20, 1, 2), Loot(2, "rare_component", 20, 1, 1),
   Loot(2, "chrome_fragment", 10, 1, 1), Loot(2, "access_chip", 5, 1, 1)}
CONSUMABLE_CATALOG ==
  [estabilizador |-> [restore |-> 5, basePrice |-> 7500], freio |-> [restore |-> 10, basePrice |-> 18000],
   choque |-> [restore |-> 15, basePrice |-> 30000]]
-----------------------------------------------------------------------------
\* A full new bar of NIL pays for any trampo; a higher tier asks for more Moral, gives more
\* of it and of grana, and rests longer.
TiersClimb ==
  /\ \A tier \in Tiers : \A t \in GIG_TEMPLATES[tier] : t.nil <= 100 /\ t.difficulty \in 1 .. 100 /\ t.escape \in 1 .. 100
  /\ \A low, high \in Tiers : low < high =>
       /\ requiredStreetCred[low] < requiredStreetCred[high] /\ cooldownForTier(low) < cooldownForTier(high)
       /\ Max(SC_RANGES[low]) <= Min(SC_RANGES[high])
       /\ \A t \in GIG_TEMPLATES[low], u \in GIG_TEMPLATES[high] : t.reward < u.reward

\* The tables name what the others define: districts of the map, implants that fit
\* a slot and are sold for no less than their price, the abilities of the operating
\* systems, loot that can drop; and no set of implants that fits a body takes the
\* last of a new character's humanity.
Items == UNION {v.inventory : v \in VENDOR_SEED}
InSlot(s) == {i \in DOMAIN CHROME_DEFINITIONS : CHROME_DEFINITIONS[i].slot = s}
Toll(body) == FoldFunctionOnSet(+, 0, [i \in body |-> CHROME_DEFINITIONS[i].humanityCost], body)
Dearest(s) == Max({Toll(body) : body \in {b \in SUBSET InSlot(s) : Cardinality(b) <= SLOT_CAPACITY[s]}})
TablesResolve ==
  /\ \A o \in ORIGINS : gigsAvailable(o) > 0
  /\ \A v \in VENDOR_SEED : originFromDistrictString(v.district) # NoDistrict
  /\ {i.item : i \in {j \in Items : j.type = "CHROME"}} = DOMAIN CHROME_DEFINITIONS
  /\ \A i \in Items : i.type = "CHROME" => i.price >= CHROME_DEFINITIONS[i.item].basePrice
  /\ {i \in DOMAIN CHROME_DEFINITIONS : CHROME_DEFINITIONS[i].slot = "operating_system"} = OS_ABILITY_SLUGS
  /\ {CHROME_DEFINITIONS[i].slot : i \in DOMAIN CHROME_DEFINITIONS} = DOMAIN SLOT_CAPACITY
  /\ \A c \in DOMAIN CONSUMABLE_CATALOG : \E i \in Items : i.item = c /\ i.price = CONSUMABLE_CATALOG[c].basePrice
  /\ \A l \in LOOT_TABLES : l.weight > 0 /\ l.min \in 1 .. l.max
  /\ FoldFunction(+, 0, [s \in DOMAIN SLOT_CAPACITY |-> Dearest(s)]) < 100

CatalogHolds == TiersClimb /\ TablesResolve
=============================================================================
