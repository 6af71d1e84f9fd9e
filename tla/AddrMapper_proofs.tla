-------------------------- MODULE AddrMapper_proofs --------------------------
(***************************************************************************)
(* For every organization, the HBM3-PIM mapper undoes the arithmetic of the  *)
(* trace generators, and every mapper gives two accesses two places.        *)
(***************************************************************************)
EXTENDS AddrMapper, NaturalFacts, TLAPS

(* One level of an address a: s is its part of n, in units of u bytes, `low`  *)
(* is what is below it and rest what is above it.                           *)
Cut(a, low, u, s, n, rest) ==
  /\ u \in Nat \ {0} /\ low \in 0..(u - 1)
  /\ n \in Nat \ {0} /\ s \in 0..(n - 1) /\ rest \in Nat
  /\ a = low + u * (s + n * rest)

LEMMA SliceOut ==
  ASSUME NEW a, NEW low, NEW u, NEW s, NEW n, NEW rest, Cut(a, low, u, s, n, rest)
  PROVE  /\ (a \div u) % n = s
         /\ low + u * s \in 0..(u * n - 1)
         /\ a = (low + u * s) + (u * n) * rest
<1>. USE DEF Cut
<1>1. s + n * rest \in Nat
  OBVIOUS
<1>2. a \div u = s + n * rest
  BY <1>1, DivideUnique
<1>3. (s + n * rest) % n = s
  BY DivideUnique
<1>4. u * s <= u * (n - 1) /\ u * (n - 1) = u * n - u /\ u * s \in Nat /\ u * n \in Nat
  OBVIOUS
<1>5. low + u * s \in 0..(u * n - 1)
  BY <1>4
<1>6. low + u * (s + n * rest) = (low + u * s) + (u * n) * rest
  OBVIOUS
<1>. QED  BY <1>2, <1>3, <1>5, <1>6

LEMMA SmallRemainder ==
  ASSUME NEW n \in Nat \ {0}, NEW a \in 0..(n - 1) PROVE a % n = a
<1>1. (a + n * 0) % n = a
  BY DivideUnique
<1>. QED  BY <1>1

LEMMA SmallQuotient ==
  ASSUME NEW n \in Nat \ {0}, NEW a \in 0..(n - 1) PROVE a \div n = 0
<1>1. (a + n * 0) \div n = 0
  BY DivideUnique
<1>. QED  BY <1>1

LEMMA TimesPositive ==
  ASSUME NEW x \in Nat \ {0}, NEW y \in Nat \ {0} PROVE x * y \in Nat \ {0}
OBVIOUS

LEMMA LinearUnits ==
  /\ Unit["HBM3-PIM"]["col"] = TxBytes
  /\ Unit["HBM3-PIM"]["row"] = Unit["HBM3-PIM"]["col"] * Count["col"]
  /\ Unit["HBM3-PIM"]["bank"] = Unit["HBM3-PIM"]["row"] * Count["row"]
  /\ Unit["HBM3-PIM"]["bg"] = Unit["HBM3-PIM"]["bank"] * Count["bank"]
  /\ Unit["HBM3-PIM"]["rank"] = Unit["HBM3-PIM"]["bg"] * Count["bg"]
  /\ Unit["HBM3-PIM"]["pch"] = Unit["HBM3-PIM"]["rank"] * Count["rank"]
  /\ Unit["HBM3-PIM"]["channel"] = Unit["HBM3-PIM"]["pch"] * Count["pch"]
<1> DEFINE Turn(l) == SliceTurn["HBM3-PIM"][l]
<1>1. /\ SliceTurn["HBM3-PIM"] = Linear /\ "HBM3-PIM" \in DOMAIN SliceTurn
  BY DEF SliceTurn
<1>2. /\ Linear["col"] = 1 /\ Linear["row"] = 2 /\ Linear["bank"] = 3 /\ Linear["bg"] = 4
      /\ Linear["rank"] = 5 /\ Linear["pch"] = 6 /\ Linear["channel"] = 7
  BY DEF Linear
<1>3. \A l \in Levels : Count[l] \in Nat \ {0}
  BY CountAssumption
<1>4. Unit["HBM3-PIM"]["col"] = TxBytes
  BY <1>1, <1>2, <1>3, CountAssumption DEF Unit, Levels
<1>5. Unit["HBM3-PIM"]["row"] = TxBytes * Count["col"]
  BY <1>1, <1>2, <1>3, CountAssumption DEF Unit, Levels
<1>6. Unit["HBM3-PIM"]["bank"] = TxBytes * Count["col"] * Count["row"]
  BY <1>1, <1>2, <1>3, CountAssumption DEF Unit, Levels
<1>7. Unit["HBM3-PIM"]["bg"] = TxBytes * Count["col"] * Count["row"] * Count["bank"]
  BY <1>1, <1>2, <1>3, CountAssumption DEF Unit, Levels
<1>8. Unit["HBM3-PIM"]["rank"] = TxBytes * Count["col"] * Count["row"] * Count["bank"] * Count["bg"]
  BY <1>1, <1>2, <1>3, CountAssumption DEF Unit, Levels
<1>9. Unit["HBM3-PIM"]["pch"] = TxBytes * Count["col"] * Count["row"] * Count["bank"] * Count["bg"] * Count["rank"]
  BY <1>1, <1>2, <1>3, CountAssumption DEF Unit, Levels
<1>10. Unit["HBM3-PIM"]["channel"] = TxBytes * Count["col"] * Count["row"] * Count["bank"] * Count["bg"] * Count["rank"] * Count["pch"]
  BY <1>1, <1>2, <1>3, CountAssumption DEF Unit, Levels
<1>. QED  BY <1>4, <1>5, <1>6, <1>7, <1>8, <1>9, <1>10

(* The bytes that addresses of the organization have.                       *)
Capacity == Unit["HBM3-PIM"]["channel"] * Count["channel"]

(* The generators count the bytes of a unit as the mapper does.             *)
LEMMA GeneratorUnits ==
  /\ HBM_GS.col = Unit["HBM3-PIM"]["col"]
  /\ HBM_GS.row = Unit["HBM3-PIM"]["row"]
  /\ HBM_GS.bank = Unit["HBM3-PIM"]["bank"]
  /\ HBM_GS.bg = Unit["HBM3-PIM"]["bg"]
  /\ HBM_GS.rank = Unit["HBM3-PIM"]["rank"]
  /\ HBM_GS.pch = Unit["HBM3-PIM"]["pch"]
  /\ HBM_GS.channel = Unit["HBM3-PIM"]["channel"]
<1>1. \A l \in Levels : Count[l] \in Nat \ {0}
  BY CountAssumption
<1>2. HBM_GS.col = TxBytes /\ TxBytes \in Nat \ {0}
  BY CountAssumption DEF HBM_GS
<1>3. HBM_GS.row = HBM_GS.col * Count["col"] /\ HBM_GS.row \in Nat \ {0}
  <2>1. HBM_GS.row = Count["col"] * HBM_GS.col
    BY Zenon DEF HBM_GS
  <2>. QED  BY <2>1, <1>1, <1>2 DEF Levels
<1>4. HBM_GS.bank = HBM_GS.row * Count["row"] /\ HBM_GS.bank \in Nat \ {0}
  <2>1. HBM_GS.bank = Count["row"] * HBM_GS.row
    BY Zenon DEF HBM_GS
  <2>. QED  BY <2>1, <1>1, <1>3 DEF Levels
<1>5. HBM_GS.bg = HBM_GS.bank * Count["bank"] /\ HBM_GS.bg \in Nat \ {0}
  <2>1. HBM_GS.bg = Count["bank"] * HBM_GS.bank
    BY Zenon DEF HBM_GS
  <2>. QED  BY <2>1, <1>1, <1>4 DEF Levels
<1>6. HBM_GS.rank = HBM_GS.bg * Count["bg"] /\ HBM_GS.rank \in Nat \ {0}
  <2>1. HBM_GS.rank = Count["bg"] * HBM_GS.bg
    BY Zenon DEF HBM_GS
  <2>. QED  BY <2>1, <1>1, <1>5 DEF Levels
<1>7. HBM_GS.pch = HBM_GS.rank * Count["rank"] /\ HBM_GS.pch \in Nat \ {0}
  <2>1. HBM_GS.pch = Count["rank"] * HBM_GS.rank
    BY Zenon DEF HBM_GS
  <2>. QED  BY <2>1, <1>1, <1>6 DEF Levels
<1>8. HBM_GS.channel = HBM_GS.pch * Count["pch"] /\ HBM_GS.channel \in Nat \ {0}
  <2>1. HBM_GS.channel = Count["pch"] * HBM_GS.pch
    BY Zenon DEF HBM_GS
  <2>. QED  BY <2>1, <1>1, <1>7 DEF Levels
<1>. QED  BY LinearUnits, <1>2, <1>3, <1>4, <1>5, <1>6, <1>7, <1>8

LEMMA UnitsPositive ==
  ASSUME NEW m \in DOMAIN SliceTurn, NEW level \in Levels
  PROVE  Unit[m][level] \in Nat \ {0}
<1> DEFINE Size(l) == IF SliceTurn[m][l] < SliceTurn[m][level] THEN Count[l] ELSE 1
           u1 == TxBytes * Size("col")
           u2 == u1 * Size("row")
           u3 == u2 * Size("bank")
           u4 == u3 * Size("bg")
           u5 == u4 * Size("rank")
           u6 == u5 * Size("pch")
           u7 == u6 * Size("channel")
<1>1. Unit[m][level] = u7
  BY Zenon DEF Unit
<1>2. \A l \in Levels : Size(l) \in Nat \ {0}
  BY CountAssumption
<1>3. /\ Size("col") \in Nat \ {0} /\ Size("row") \in Nat \ {0} /\ Size("bank") \in Nat \ {0}
      /\ Size("bg") \in Nat \ {0} /\ Size("rank") \in Nat \ {0}
      /\ Size("pch") \in Nat \ {0} /\ Size("channel") \in Nat \ {0}
  BY <1>2 DEF Levels
<1> HIDE DEF Size
<1>4. u1 \in Nat \ {0}
  BY <1>3, CountAssumption, TimesPositive
<1>5. u2 \in Nat \ {0}
  BY <1>3, <1>4, TimesPositive
<1>6. u3 \in Nat \ {0}
  BY <1>3, <1>5, TimesPositive
<1>7. u4 \in Nat \ {0}
  BY <1>3, <1>6, TimesPositive
<1>8. u5 \in Nat \ {0}
  BY <1>3, <1>7, TimesPositive
<1>9. u6 \in Nat \ {0}
  BY <1>3, <1>8, TimesPositive
<1>10. u7 \in Nat \ {0}
  BY <1>3, <1>9, TimesPositive
<1>. QED  BY <1>1, <1>10

LEMMA UnitIsAccesses ==
  ASSUME NEW l \in Levels
  PROVE  \E x \in Nat \ {0} : Unit["HBM3-PIM"][l] = TxBytes * x
<1> DEFINE Whole(u) == \E x \in Nat \ {0} : u = TxBytes * x
<1>1. ASSUME NEW u, NEW n \in Nat \ {0}, Whole(u)
      PROVE  Whole(u * n)
  <2>1. PICK x \in Nat \ {0} : u = TxBytes * x
    BY <1>1
  <2>2. x * n \in Nat \ {0} /\ u * n = TxBytes * (x * n)
    BY <2>1, TimesPositive, CountAssumption
  <2>. QED  BY <2>2
<1>2. Whole(TxBytes)
  BY CountAssumption
<1>3. \A k \in Levels : Count[k] \in Nat \ {0}
  BY CountAssumption
<1> HIDE DEF Whole
<1>4. Whole(Unit["HBM3-PIM"]["col"])
  BY <1>2, LinearUnits
<1>5. Whole(Unit["HBM3-PIM"]["row"])
  BY <1>4, <1>1, <1>3, LinearUnits DEF Levels
<1>6. Whole(Unit["HBM3-PIM"]["bank"])
  BY <1>5, <1>1, <1>3, LinearUnits DEF Levels
<1>7. Whole(Unit["HBM3-PIM"]["bg"])
  BY <1>6, <1>1, <1>3, LinearUnits DEF Levels
<1>8. Whole(Unit["HBM3-PIM"]["rank"])
  BY <1>7, <1>1, <1>3, LinearUnits DEF Levels
<1>9. Whole(Unit["HBM3-PIM"]["pch"])
  BY <1>8, <1>1, <1>3, LinearUnits DEF Levels
<1>10. Whole(Unit["HBM3-PIM"]["channel"])
  BY <1>9, <1>1, <1>3, LinearUnits DEF Levels
<1>11. Whole(Unit["HBM3-PIM"][l])
  BY <1>4, <1>5, <1>6, <1>7, <1>8, <1>9, <1>10 DEF Levels
<1>. QED  BY <1>11 DEF Whole

(* "HBM memory space" in the scripts and the HBM3-PIM mapper agree: the place *)
(* a generator means is the place the mapper finds, wherever in the access   *)
(* the address points and whatever the organization.                        *)
THEOREM MapperInvertsGenerators ==
  ASSUME NEW p \in Places, NEW entry \in 0..(TxBytes - 1)
  PROVE  /\ AddressOf(p, entry) \in 0..(Capacity - 1)
         /\ Apply("HBM3-PIM", AddressOf(p, entry)) = p
<1> DEFINE U(l) == Unit["HBM3-PIM"][l]
           h7 == p["channel"] + Count["channel"] * 0
           h6 == p["pch"] + Count["pch"] * h7
           h5 == p["rank"] + Count["rank"] * h6
           h4 == p["bg"] + Count["bg"] * h5
           h3 == p["bank"] + Count["bank"] * h4
           h2 == p["row"] + Count["row"] * h3
           h1 == p["col"] + Count["col"] * h2
           low1 == entry
           low2 == low1 + U("col") * p["col"]
           low3 == low2 + U("row") * p["row"]
           low4 == low3 + U("bank") * p["bank"]
           low5 == low4 + U("bg") * p["bg"]
           low6 == low5 + U("rank") * p["rank"]
           low7 == low6 + U("pch") * p["pch"]
<1>1. \A l \in Levels : Count[l] \in Nat \ {0} /\ p[l] \in 0..(Count[l] - 1)
  BY CountAssumption DEF Places
<1>2. \A l \in Levels : U(l) \in Nat \ {0}
  BY UnitsPositive DEF SliceTurn
<1>3. h1 \in Nat /\ h2 \in Nat /\ h3 \in Nat /\ h4 \in Nat /\ h5 \in Nat /\ h6 \in Nat /\ h7 \in Nat
  <2>1. h7 \in Nat
    BY <1>1 DEF Levels
  <2>2. h6 \in Nat
    BY <1>1, <2>1 DEF Levels
  <2>3. h5 \in Nat
    BY <1>1, <2>2 DEF Levels
  <2>4. h4 \in Nat
    BY <1>1, <2>3 DEF Levels
  <2>5. h3 \in Nat
    BY <1>1, <2>4 DEF Levels
  <2>6. h2 \in Nat
    BY <1>1, <2>5 DEF Levels
  <2>7. h1 \in Nat
    BY <1>1, <2>6 DEF Levels
  <2>. QED  BY <2>1, <2>2, <2>3, <2>4, <2>5, <2>6, <2>7
<1>4. AddressOf(p, entry) = low1 + U("col") * h1
  <2>1. AddressOf(p, entry) = entry + p["col"] * U("col") + p["row"] * U("row") + p["bank"] * U("bank") + p["bg"] * U("bg") + p["rank"] * U("rank") + p["pch"] * U("pch") + p["channel"] * U("channel")
    BY GeneratorUnits DEF AddressOf
  <2>2. U("channel") * h7 = p["channel"] * U("channel")
    BY <1>1, <1>2 DEF Levels
  <2>3. U("pch") * h6 = p["pch"] * U("pch") + U("channel") * h7
    BY <1>1, <1>2, <1>3, LinearUnits DEF Levels
  <2>4. U("rank") * h5 = p["rank"] * U("rank") + U("pch") * h6
    BY <1>1, <1>2, <1>3, LinearUnits DEF Levels
  <2>5. U("bg") * h4 = p["bg"] * U("bg") + U("rank") * h5
    BY <1>1, <1>2, <1>3, LinearUnits DEF Levels
  <2>6. U("bank") * h3 = p["bank"] * U("bank") + U("bg") * h4
    BY <1>1, <1>2, <1>3, LinearUnits DEF Levels
  <2>7. U("row") * h2 = p["row"] * U("row") + U("bank") * h3
    BY <1>1, <1>2, <1>3, LinearUnits DEF Levels
  <2>8. U("col") * h1 = p["col"] * U("col") + U("row") * h2
    BY <1>1, <1>2, <1>3, LinearUnits DEF Levels
  <2>9. \A l \in Levels : p[l] * U(l) \in Nat
    BY <1>1, <1>2
  <2> HIDE DEF h1, h2, h3, h4, h5, h6, h7, U
  <2>. QED  BY <1>3, <2>1, <2>2, <2>3, <2>4, <2>5, <2>6, <2>7, <2>8, <2>9 DEF Levels
<1> HIDE DEF h2, h3, h4, h5, h6, h7
<1> HIDE DEF low2, low3, low4, low5, low6, low7, U, h1
<1>5. /\ (AddressOf(p, entry) \div U("col")) % Count["col"] = p["col"]
      /\ low2 \in 0..(U("row") - 1)
      /\ AddressOf(p, entry) = low2 + U("row") * h2
  <2>1. Cut(AddressOf(p, entry), low1, U("col"), p["col"], Count["col"], h2)
    BY <1>1, <1>2, <1>3, <1>4, LinearUnits DEF Cut, Levels, h1, U
  <2>2. U("row") = U("col") * Count["col"]
    BY LinearUnits DEF U
  <2>. QED  BY <2>1, <2>2, SliceOut DEF low2
<1>6. /\ (AddressOf(p, entry) \div U("row")) % Count["row"] = p["row"]
      /\ low3 \in 0..(U("bank") - 1)
      /\ AddressOf(p, entry) = low3 + U("bank") * h3
  <2>1. Cut(AddressOf(p, entry), low2, U("row"), p["row"], Count["row"], h3)
    BY <1>1, <1>2, <1>3, <1>5 DEF Cut, Levels, h2
  <2>2. U("bank") = U("row") * Count["row"]
    BY LinearUnits DEF U
  <2>. QED  BY <2>1, <2>2, SliceOut DEF low3
<1>7. /\ (AddressOf(p, entry) \div U("bank")) % Count["bank"] = p["bank"]
      /\ low4 \in 0..(U("bg") - 1)
      /\ AddressOf(p, entry) = low4 + U("bg") * h4
  <2>1. Cut(AddressOf(p, entry), low3, U("bank"), p["bank"], Count["bank"], h4)
    BY <1>1, <1>2, <1>3, <1>6 DEF Cut, Levels, h3
  <2>2. U("bg") = U("bank") * Count["bank"]
    BY LinearUnits DEF U
  <2>. QED  BY <2>1, <2>2, SliceOut DEF low4
<1>8. /\ (AddressOf(p, entry) \div U("bg")) % Count["bg"] = p["bg"]
      /\ low5 \in 0..(U("rank") - 1)
      /\ AddressOf(p, entry) = low5 + U("rank") * h5
  <2>1. Cut(AddressOf(p, entry), low4, U("bg"), p["bg"], Count["bg"], h5)
    BY <1>1, <1>2, <1>3, <1>7 DEF Cut, Levels, h4
  <2>2. U("rank") = U("bg") * Count["bg"]
    BY LinearUnits DEF U
  <2>. QED  BY <2>1, <2>2, SliceOut DEF low5
<1>9. /\ (AddressOf(p, entry) \div U("rank")) % Count["rank"] = p["rank"]
      /\ low6 \in 0..(U("pch") - 1)
      /\ AddressOf(p, entry) = low6 + U("pch") * h6
  <2>1. Cut(AddressOf(p, entry), low5, U("rank"), p["rank"], Count["rank"], h6)
    BY <1>1, <1>2, <1>3, <1>8 DEF Cut, Levels, h5
  <2>2. U("pch") = U("rank") * Count["rank"]
    BY LinearUnits DEF U
  <2>. QED  BY <2>1, <2>2, SliceOut DEF low6
<1>10. /\ (AddressOf(p, entry) \div U("pch")) % Count["pch"] = p["pch"]
      /\ low7 \in 0..(U("channel") - 1)
      /\ AddressOf(p, entry) = low7 + U("channel") * h7
  <2>1. Cut(AddressOf(p, entry), low6, U("pch"), p["pch"], Count["pch"], h7)
    BY <1>1, <1>2, <1>3, <1>9 DEF Cut, Levels, h6
  <2>2. U("channel") = U("pch") * Count["pch"]
    BY LinearUnits DEF U
  <2>. QED  BY <2>1, <2>2, SliceOut DEF low7
<1>11. /\ (AddressOf(p, entry) \div U("channel")) % Count["channel"] = p["channel"]
       /\ AddressOf(p, entry) \in 0..(U("channel") * Count["channel"] - 1)
  <2>1. Cut(AddressOf(p, entry), low7, U("channel"), p["channel"], Count["channel"], 0)
    BY <1>1, <1>2, <1>3, <1>10 DEF Cut, Levels, h7
  <2>2. AddressOf(p, entry) = low7 + U("channel") * p["channel"]
    BY <2>1 DEF Cut
  <2>. QED  BY <2>1, <2>2, SliceOut
<1> USE DEF U
<1>12. \A l \in Levels : Apply("HBM3-PIM", AddressOf(p, entry))[l] = p[l]
  BY <1>5, <1>6, <1>7, <1>8, <1>9, <1>10, <1>11 DEF Apply, Levels
<1>13. AddressOf(p, entry) \in 0..(Capacity - 1)
  BY <1>11 DEF Capacity
<1>. QED  BY <1>12, <1>13 DEF Apply, Places

LEMMA ApplyGivesPlace ==
  ASSUME NEW m \in DOMAIN SliceTurn, NEW a \in Nat
  PROVE  Apply(m, a) \in Places
<1>1. ASSUME NEW level \in Levels
      PROVE  (a \div Unit[m][level]) % Count[level] \in 0..(Count[level] - 1)
  <2>1. Unit[m][level] \in Nat \ {0} /\ Count[level] \in Nat \ {0}
    BY UnitsPositive, CountAssumption
  <2>2. a \div Unit[m][level] \in Nat
    BY <2>1, Remainder
  <2>. QED  BY <2>1, <2>2, Remainder
<1>2. Apply(m, a) = [level \in Levels |-> Apply(m, a)[level]]
  BY DEF Apply
<1>3. \A level \in Levels : Apply(m, a)[level] \in 0..(Count[level] - 1)
  BY <1>1 DEF Apply
<1>4. \A level \in Levels : Apply(m, a)[level] \in Nat /\ Apply(m, a)[level] < Count[level]
  BY <1>3, CountAssumption
<1>. QED  BY <1>2, <1>4 DEF Places

(* Mapper m slices the levels in this order, and all of the address.        *)
Slices(m, l1, l2, l3, l4, l5, l6, l7) ==
  /\ m \in DOMAIN SliceTurn /\ Levels = {l1, l2, l3, l4, l5, l6, l7}
  /\ Unit[m][l1] = TxBytes
  /\ Unit[m][l2] = Unit[m][l1] * Count[l1]
  /\ Unit[m][l3] = Unit[m][l2] * Count[l2]
  /\ Unit[m][l4] = Unit[m][l3] * Count[l3]
  /\ Unit[m][l5] = Unit[m][l4] * Count[l4]
  /\ Unit[m][l6] = Unit[m][l5] * Count[l5]
  /\ Unit[m][l7] = Unit[m][l6] * Count[l6]
  /\ Capacity = Unit[m][l7] * Count[l7]

LEMMA SliceDecides ==
  ASSUME NEW a \in Nat, NEW b \in Nat, NEW v \in Nat \ {0}, NEW n \in Nat \ {0},
         (a \div v) % n = (b \div v) % n, a \div (v * n) = b \div (v * n)
  PROVE  a \div v = b \div v
<1>1. a \div v \in Nat /\ b \div v \in Nat
  BY Remainder
<1>2. (a \div v) \div n = (b \div v) \div n
  BY DivideTwice
<1>3. a \div v = n * ((a \div v) \div n) + ((a \div v) % n)
  BY <1>1, Remainder
<1>4. b \div v = n * ((b \div v) \div n) + ((b \div v) % n)
  BY <1>1, Remainder
<1>. QED  BY <1>2, <1>3, <1>4

(* All slices together decide which access an address is in.                *)
LEMMA SlicesDecide ==
  ASSUME NEW m, NEW l1, NEW l2, NEW l3, NEW l4, NEW l5, NEW l6, NEW l7,
         Slices(m, l1, l2, l3, l4, l5, l6, l7),
         NEW a \in 0..(Capacity - 1), NEW b \in 0..(Capacity - 1), Apply(m, a) = Apply(m, b)
  PROVE  a \div TxBytes = b \div TxBytes
<1>1. \A l \in Levels : Unit[m][l] \in Nat \ {0} /\ Count[l] \in Nat \ {0}
  BY UnitsPositive, CountAssumption DEF Slices
<1>2. \A l \in Levels : (a \div Unit[m][l]) % Count[l] = (b \div Unit[m][l]) % Count[l]
  <2>1. \A l \in Levels : Apply(m, a)[l] = Apply(m, b)[l]
    OBVIOUS
  <2>. QED  BY <2>1 DEF Apply
<1>3. l1 \in Levels /\ l2 \in Levels /\ l3 \in Levels /\ l4 \in Levels /\ l5 \in Levels /\ l6 \in Levels /\ l7 \in Levels
  BY DEF Slices
<1>4. Capacity \in Nat \ {0} /\ a \in Nat /\ b \in Nat
  BY <1>1, <1>3, TimesPositive DEF Slices
<1>5. a \div (Unit[m][l7] * Count[l7]) = b \div (Unit[m][l7] * Count[l7])
  <2>1. a \div Capacity = 0 /\ b \div Capacity = 0
    BY <1>4, SmallQuotient
  <2>. QED  BY <2>1 DEF Slices
<1>6. a \div Unit[m][l7] = b \div Unit[m][l7]
  BY <1>1, <1>2, <1>3, <1>4, <1>5, SliceDecides
<1>7. a \div Unit[m][l6] = b \div Unit[m][l6]
  <2>1. a \div (Unit[m][l6] * Count[l6]) = b \div (Unit[m][l6] * Count[l6])
    BY <1>6 DEF Slices
  <2>. QED  BY <2>1, <1>1, <1>2, <1>3, <1>4, SliceDecides
<1>8. a \div Unit[m][l5] = b \div Unit[m][l5]
  <2>1. a \div (Unit[m][l5] * Count[l5]) = b \div (Unit[m][l5] * Count[l5])
    BY <1>7 DEF Slices
  <2>. QED  BY <2>1, <1>1, <1>2, <1>3, <1>4, SliceDecides
<1>9. a \div Unit[m][l4] = b \div Unit[m][l4]
  <2>1. a \div (Unit[m][l4] * Count[l4]) = b \div (Unit[m][l4] * Count[l4])
    BY <1>8 DEF Slices
  <2>. QED  BY <2>1, <1>1, <1>2, <1>3, <1>4, SliceDecides
<1>10. a \div Unit[m][l3] = b \div Unit[m][l3]
  <2>1. a \div (Unit[m][l3] * Count[l3]) = b \div (Unit[m][l3] * Count[l3])
    BY <1>9 DEF Slices
  <2>. QED  BY <2>1, <1>1, <1>2, <1>3, <1>4, SliceDecides
<1>11. a \div Unit[m][l2] = b \div Unit[m][l2]
  <2>1. a \div (Unit[m][l2] * Count[l2]) = b \div (Unit[m][l2] * Count[l2])
    BY <1>10 DEF Slices
  <2>. QED  BY <2>1, <1>1, <1>2, <1>3, <1>4, SliceDecides
<1>12. a \div Unit[m][l1] = b \div Unit[m][l1]
  <2>1. a \div (Unit[m][l1] * Count[l1]) = b \div (Unit[m][l1] * Count[l1])
    BY <1>11 DEF Slices
  <2>. QED  BY <2>1, <1>1, <1>2, <1>3, <1>4, SliceDecides
<1>. QED  BY <1>12 DEF Slices

LEMMA MapperSlices ==
  ASSUME NEW m \in DOMAIN SliceTurn
  PROVE  \E l1, l2, l3, l4, l5, l6, l7 : Slices(m, l1, l2, l3, l4, l5, l6, l7)
<1>1. \A l \in Levels : Count[l] \in Nat \ {0}
  BY CountAssumption
<1>2. Capacity = TxBytes * Count["col"] * Count["row"] * Count["bank"] * Count["bg"]
                         * Count["rank"] * Count["pch"] * Count["channel"]
  BY LinearUnits, <1>1, CountAssumption DEF Capacity, Levels
<1>3. CASE m \in {"HBM3-PIM", "HBM3-Base"}
  <2>1. SliceTurn[m] = Linear
    BY <1>3 DEF SliceTurn
  <2>2. /\ SliceTurn[m]["col"] = 1 /\ SliceTurn[m]["row"] = 2 /\ SliceTurn[m]["bank"] = 3
        /\ SliceTurn[m]["bg"] = 4 /\ SliceTurn[m]["rank"] = 5
        /\ SliceTurn[m]["pch"] = 6 /\ SliceTurn[m]["channel"] = 7
    BY <2>1 DEF Linear
  <2>3. Unit[m]["col"] = TxBytes
    BY <1>1, <2>2, CountAssumption DEF Unit, Levels
  <2>4. Unit[m]["row"] = TxBytes * Count["col"]
    BY <1>1, <2>2, CountAssumption DEF Unit, Levels
  <2>5. Unit[m]["bank"] = TxBytes * Count["col"] * Count["row"]
    BY <1>1, <2>2, CountAssumption DEF Unit, Levels
  <2>6. Unit[m]["bg"] = TxBytes * Count["col"] * Count["row"] * Count["bank"]
    BY <1>1, <2>2, CountAssumption DEF Unit, Levels
  <2>7. Unit[m]["rank"] = TxBytes * Count["col"] * Count["row"] * Count["bank"] * Count["bg"]
    BY <1>1, <2>2, CountAssumption DEF Unit, Levels
  <2>8. Unit[m]["pch"] = TxBytes * Count["col"] * Count["row"] * Count["bank"] * Count["bg"] * Count["rank"]
    BY <1>1, <2>2, CountAssumption DEF Unit, Levels
  <2>9. Unit[m]["channel"] = TxBytes * Count["col"] * Count["row"] * Count["bank"] * Count["bg"] * Count["rank"] * Count["pch"]
    BY <1>1, <2>2, CountAssumption DEF Unit, Levels
  <2>10. Slices(m, "col", "row", "bank", "bg", "rank", "pch", "channel")
    BY <1>1, <1>2, <2>3, <2>4, <2>5, <2>6, <2>7, <2>8, <2>9, CountAssumption DEF Slices, Levels
  <2>. QED  BY <2>10
<1>4. CASE m = "HBM3-PIM-Custom"
  <2>1. SliceTurn[m] = [Linear EXCEPT !["channel"] = 0]
    BY <1>4 DEF SliceTurn
  <2>2. /\ SliceTurn[m]["channel"] = 0 /\ SliceTurn[m]["col"] = 1 /\ SliceTurn[m]["row"] = 2
        /\ SliceTurn[m]["bank"] = 3 /\ SliceTurn[m]["bg"] = 4
        /\ SliceTurn[m]["rank"] = 5 /\ SliceTurn[m]["pch"] = 6
    BY <2>1 DEF Linear
  <2>3. Unit[m]["channel"] = TxBytes
    BY <1>1, <2>2, CountAssumption DEF Unit, Levels
  <2>4. Unit[m]["col"] = TxBytes * Count["channel"]
    BY <1>1, <2>2, CountAssumption DEF Unit, Levels
  <2>5. Unit[m]["row"] = TxBytes * Count["channel"] * Count["col"]
    BY <1>1, <2>2, CountAssumption DEF Unit, Levels
  <2>6. Unit[m]["bank"] = TxBytes * Count["channel"] * Count["col"] * Count["row"]
    BY <1>1, <2>2, CountAssumption DEF Unit, Levels
  <2>7. Unit[m]["bg"] = TxBytes * Count["channel"] * Count["col"] * Count["row"] * Count["bank"]
    BY <1>1, <2>2, CountAssumption DEF Unit, Levels
  <2>8. Unit[m]["rank"] = TxBytes * Count["channel"] * Count["col"] * Count["row"] * Count["bank"] * Count["bg"]
    BY <1>1, <2>2, CountAssumption DEF Unit, Levels
  <2>9. Unit[m]["pch"] = TxBytes * Count["channel"] * Count["col"] * Count["row"] * Count["bank"] * Count["bg"] * Count["rank"]
    BY <1>1, <2>2, CountAssumption DEF Unit, Levels
  <2>10. Slices(m, "channel", "col", "row", "bank", "bg", "rank", "pch")
    BY <1>1, <1>2, <2>3, <2>4, <2>5, <2>6, <2>7, <2>8, <2>9, CountAssumption DEF Slices, Levels
  <2>. QED  BY <2>10
<1>5. CASE m = "HBM3-Custom"
  <2>1. SliceTurn[m] = [channel |-> 1, pch |-> 2, bg |-> 3, col |-> 4, rank |-> 5, bank |-> 6, row |-> 7]
    BY <1>5 DEF SliceTurn
  <2>2. /\ SliceTurn[m]["channel"] = 1 /\ SliceTurn[m]["pch"] = 2 /\ SliceTurn[m]["bg"] = 3
        /\ SliceTurn[m]["col"] = 4 /\ SliceTurn[m]["rank"] = 5
        /\ SliceTurn[m]["bank"] = 6 /\ SliceTurn[m]["row"] = 7
    BY <2>1 DEF Linear
  <2>3. Unit[m]["channel"] = TxBytes
    BY <1>1, <2>2, CountAssumption DEF Unit, Levels
  <2>4. Unit[m]["pch"] = TxBytes * Count["channel"]
    BY <1>1, <2>2, CountAssumption DEF Unit, Levels
  <2>5. Unit[m]["bg"] = TxBytes * Count["channel"] * Count["pch"]
    BY <1>1, <2>2, CountAssumption DEF Unit, Levels
  <2>6. Unit[m]["col"] = TxBytes * Count["channel"] * Count["pch"] * Count["bg"]
    BY <1>1, <2>2, CountAssumption DEF Unit, Levels
  <2>7. Unit[m]["rank"] = TxBytes * Count["channel"] * Count["pch"] * Count["bg"] * Count["col"]
    BY <1>1, <2>2, CountAssumption DEF Unit, Levels
  <2>8. Unit[m]["bank"] = TxBytes * Count["channel"] * Count["pch"] * Count["bg"] * Count["col"] * Count["rank"]
    BY <1>1, <2>2, CountAssumption DEF Unit, Levels
  <2>9. Unit[m]["row"] = TxBytes * Count["channel"] * Count["pch"] * Count["bg"] * Count["col"] * Count["rank"] * Count["bank"]
    BY <1>1, <2>2, CountAssumption DEF Unit, Levels
  <2>10. Slices(m, "channel", "pch", "bg", "col", "rank", "bank", "row")
    BY <1>1, <1>2, <2>3, <2>4, <2>5, <2>6, <2>7, <2>8, <2>9, CountAssumption DEF Slices, Levels
  <2>. QED  BY <2>10
<1>. QED  BY <1>3, <1>4, <1>5 DEF SliceTurn

(* Under every mapper, addresses that are given the same place are in the    *)
(* same access: no two requests a generator means for different places, or   *)
(* rows, or columns, ever fall together.                                   *)
THEOREM MappersKeepPlacesApart ==
  ASSUME NEW m \in DOMAIN SliceTurn, NEW p \in Places, NEW q \in Places,
         NEW e \in 0..(TxBytes - 1), NEW f \in 0..(TxBytes - 1),
         Apply(m, AddressOf(p, e)) = Apply(m, AddressOf(q, f))
  PROVE  p = q
<1> DEFINE a == AddressOf(p, e)
           b == AddressOf(q, f)
<1>1. /\ a \in 0..(Capacity - 1) /\ Apply("HBM3-PIM", a) = p
      /\ b \in 0..(Capacity - 1) /\ Apply("HBM3-PIM", b) = q
  BY MapperInvertsGenerators
<1>2. Apply(m, a) = Apply(m, b)
  OBVIOUS
<1> HIDE DEF a, b
<1>3. a \div TxBytes = b \div TxBytes
  <2>1. PICK l1, l2, l3, l4, l5, l6, l7 : Slices(m, l1, l2, l3, l4, l5, l6, l7)
    BY MapperSlices
  <2>. QED  BY <2>1, <1>1, <1>2, SlicesDecide
<1>4. ASSUME NEW l \in Levels
      PROVE  a \div Unit["HBM3-PIM"][l] = b \div Unit["HBM3-PIM"][l]
  <2>1. PICK x \in Nat \ {0} : Unit["HBM3-PIM"][l] = TxBytes * x
    BY UnitIsAccesses
  <2>2. a \in Nat /\ b \in Nat /\ TxBytes \in Nat \ {0}
    BY <1>1, CountAssumption
  <2>3. /\ a \div (TxBytes * x) = (a \div TxBytes) \div x
        /\ b \div (TxBytes * x) = (b \div TxBytes) \div x
    BY <2>2, DivideTwice
  <2>. QED  BY <2>1, <2>3, <1>3
<1>. QED  BY <1>1, <1>4 DEF Apply

=============================================================================
