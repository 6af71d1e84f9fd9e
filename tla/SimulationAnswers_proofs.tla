---------------------- MODULE SimulationAnswers_proofs ----------------------
(***************************************************************************)
(* That the system implements Estimator, for all models, devices, logs and    *)
(* sequences of calls: what is promised of an answer comes from the           *)
(* configuration and the call alone. In this order: the tables of tiles and   *)
(* of results; times in quanta; the overlap of the stages in closed form and  *)
(* in the branches of the pipeline; the decoder of a token, layer by layer;   *)
(* the layers as new devices time them; the invariant AsNewInv; the row that  *)
(* is reported; the steps of Estimator.                                     *)
(***************************************************************************)
EXTENDS Simulation_proofs

(* An answer from the configuration alone: the tables of tiles. A key does not *)
(* hold the type of a layer, on which its tile depends, but the layers of a    *)
(* matrix multiplication with weights are known by it: one of their sides is   *)
(* the width of a model, and the others have several heads, one column of      *)
(* inputs, or sides that no model is as wide as.                            *)

(* All that a tile depends on, besides the device.                           *)
SameShape(l, b) ==
  /\ TileKey(l) = TileKey(b)
  /\ l.type = "FC" <=> b.type = "FC"

(* The same shape, so the same traffic and thread blocks.                     *)
LEMMA ShapeFigures ==
  ASSUME NEW d, NEW e, d.config = e.config, NEW l, NEW b, SameShape(l, b)
  PROVE  /\ l.m = b.m /\ l.n = b.n /\ l.k = b.k /\ l.numOp = b.numOp /\ l.dbyte = b.dbyte
         /\ \A t : Traffic(l, t) = Traffic(b, t) /\ ThreadBlocks(l, t) = ThreadBlocks(b, t)
         /\ \A t : Waves(d, l, t) = Waves(e, b, t) /\ L1Fits(d, l, t) = L1Fits(e, b, t)
<1>1. l.m = b.m /\ l.n = b.n /\ l.k = b.k /\ l.numOp = b.numOp /\ l.dbyte = b.dbyte
  BY DEF SameShape, TileKey
<1>2. \A t : Traffic(l, t) = Traffic(b, t)
  BY <1>1 DEF Traffic
<1>3. \A t : ThreadBlocks(l, t) = ThreadBlocks(b, t)
  BY <1>1 DEF ThreadBlocks, SameShape
<1>4. \A t : Waves(d, l, t) = Waves(e, b, t) /\ L1Fits(d, l, t) = L1Fits(e, b, t)
  BY <1>1, <1>3 DEF Waves, L1Fits
<1>. QED  BY <1>1, <1>2, <1>3, <1>4

(* Devices of one kind choose the same tiles for the same shapes.             *)
LEMMA SameTile ==
  ASSUME NEW d, NEW e, d.config = e.config, NEW l, NEW b, SameShape(l, b)
  PROVE  OptimalTile(d, l) = OptimalTile(e, b)
<1>1. /\ l.m = b.m /\ l.n = b.n /\ l.k = b.k /\ l.numOp = b.numOp /\ l.dbyte = b.dbyte
      /\ \A t : Traffic(l, t) = Traffic(b, t) /\ ThreadBlocks(l, t) = ThreadBlocks(b, t)
      /\ \A t : Waves(d, l, t) = Waves(e, b, t) /\ L1Fits(d, l, t) = L1Fits(e, b, t)
  BY ShapeFigures
<1>2. L1Tile(d, l) = L1Tile(e, b)
  <2> DEFINE cost(dev, lay, t, u) ==
               Total3(Traffic(lay, t)) * Waves(dev, lay, t) * Waves(dev, lay, t)
                 * ThreadBlocks(lay, u) * ThreadBlocks(lay, u)
             best(dev, lay, t) ==
               \A u \in L1Tiles(dev, lay) \ {t} :
                 /\ ~(cost(dev, lay, u, t) < cost(dev, lay, t, u))
                 /\ Before(u, t) => cost(dev, lay, t, u) < cost(dev, lay, u, t)
  <2>1. L1Tiles(d, l) = L1Tiles(e, b)
    BY <1>1 DEF L1Tiles
  <2>2. \A t, u : cost(d, l, t, u) = cost(e, b, t, u)
    BY <1>1
  <2>3. /\ L1Tile(d, l) = CHOOSE t \in L1Tiles(d, l) : best(d, l, t)
        /\ L1Tile(e, b) = CHOOSE t \in L1Tiles(e, b) : best(e, b, t)
    BY DEF L1Tile, FirstCheapest, L1Tiles
  <2> HIDE DEF cost
  <2>4. \A t : best(d, l, t) <=> best(e, b, t)
    BY <2>1, <2>2
  <2> HIDE DEF best
  <2>5. (CHOOSE t \in L1Tiles(d, l) : best(d, l, t)) = CHOOSE t \in L1Tiles(e, b) : best(e, b, t)
    BY <2>1, <2>4, Zenon
  <2>. QED  BY <2>3, <2>5
<1>3. L2Tile(d, l, L1Tile(d, l)) = L2Tile(e, b, L1Tile(e, b))
  <2> DEFINE t1 == L1Tile(d, l)
             tiles(dev, lay) ==
               {t \in Sides2(t1[1], lay.m) \X Sides2(t1[2], lay.n) : L2Fits(dev, lay, t) \/ t = t1}
             cost(lay, t) == Total3(Traffic(lay, t))
             best(dev, lay, t) ==
               \A u \in tiles(dev, lay) \ {t} :
                 ~(cost(lay, u) < cost(lay, t)) /\ (Before(u, t) => cost(lay, t) < cost(lay, u))
  <2>1. \A t : L2Fits(d, l, t) = L2Fits(e, b, t)
    BY <1>1 DEF L2Fits
  <2>2. tiles(d, l) = tiles(e, b)
    BY <1>1, <2>1
  <2>3. \A t : cost(l, t) = cost(b, t)
    BY <1>1
  <2>4. /\ L2Tile(d, l, t1) = CHOOSE t \in tiles(d, l) : best(d, l, t)
        /\ L2Tile(e, b, t1) = CHOOSE t \in tiles(e, b) : best(e, b, t)
    BY DEF L2Tile, FirstCheapest, Sides2, L2Fits
  <2> HIDE DEF cost, tiles
  <2>5. \A t : best(d, l, t) <=> best(e, b, t)
    BY <2>2, <2>3
  <2> HIDE DEF best
  <2>6. (CHOOSE t \in tiles(d, l) : best(d, l, t)) = CHOOSE t \in tiles(e, b) : best(e, b, t)
    BY <2>2, <2>5, Zenon
  <2>. QED  BY <1>2, <2>4, <2>6 DEF t1
<1>. QED  BY <1>2, <1>3 DEF OptimalTile

(* The layer can be told by its key to have weights or not.                   *)
Hdims == {infos.hdim : infos \in Models}
Told(l) == l.type = "FC" <=> l.numOp = 1 /\ l.k > 1 /\ (l.n \in Hdims \/ l.k \in Hdims)

(* What the table has for such layers is what would be computed for them.     *)
RightTiles(d) ==
  \A l \in LayerRec : Told(l) /\ ~IsCommunication(l) /\ TileKey(l) \in DOMAIN d.tiles =>
    TileOf(d, l) = OptimalTile(d, l)
RightDevice(d) == PimOK(d) \/ (XpuOK(d) /\ RightTiles(d))

(* The device as it was made, before it was asked for any layer.              *)
AsNew(d) ==
  IF d.config.kind = "PIM" THEN PIM(d.config, d.dhead, {}) ELSE XPU(d.config, d.num)

(* The key of a layer that is told by it says all that its tile depends on.   *)
LEMMA ToldByKey ==
  ASSUME NEW l, NEW b, Told(l), Told(b), TileKey(l) = TileKey(b)
  PROVE  SameShape(l, b)
<1>1. l.numOp = b.numOp /\ l.k = b.k /\ l.n = b.n
  BY DEF TileKey
<1>. QED  BY <1>1 DEF Told, SameShape

(* A table that is right stays right, and then holds the layer's tile.        *)
LEMMA RightTilesKept ==
  ASSUME NEW d, XpuOK(d), RightTiles(d), NEW l \in LayerRec, Told(l)
  PROVE  /\ RightTiles(WithTile(d, l))
         /\ ~IsCommunication(l) => TileOf(WithTile(d, l), l) = OptimalTile(d, l)
<1>1. CASE IsCommunication(l) \/ TileKey(l) \in DOMAIN d.tiles
  BY <1>1 DEF WithTile, RightTiles
<1>2. CASE ~(IsCommunication(l) \/ TileKey(l) \in DOMAIN d.tiles)
  <2> DEFINE key0 == TileKey(l)
             opt == OptimalTile(d, l)
             table == [key \in DOMAIN d.tiles \cup {key0} |->
                         IF key \in DOMAIN d.tiles THEN d.tiles[key] ELSE opt]
             e == WithTile(d, l)
  <2>1. e = [config |-> d.config, num |-> d.num, tiles |-> table]
    BY <1>2 DEF WithTile, XpuOK, IsXPU
  <2>2. /\ DOMAIN table = DOMAIN d.tiles \cup {key0}
        /\ \A key \in DOMAIN d.tiles : table[key] = d.tiles[key]
        /\ table[key0] = opt
    <3>1. key0 \notin DOMAIN d.tiles
      BY <1>2
    <3> HIDE DEF key0, opt
    <3>. QED  BY <3>1
  <2>3. e.config = d.config /\ e.tiles = table
    <3> HIDE DEF table
    <3>. QED  BY <2>1
  <2> HIDE DEF table, e
  <2>4. ASSUME NEW b \in LayerRec, Told(b), ~IsCommunication(b), TileKey(b) \in DOMAIN e.tiles
        PROVE  TileOf(e, b) = OptimalTile(e, b)
    <3>1. OptimalTile(e, b) = OptimalTile(d, b)
      BY <2>3, SameTile DEF SameShape
    <3>2. CASE TileKey(b) \in DOMAIN d.tiles
      BY <2>2, <2>3, <2>4, <3>1, <3>2 DEF RightTiles, TileOf
    <3>3. CASE TileKey(b) = key0
      <4>1. OptimalTile(d, b) = opt
        BY <2>4, <3>3, ToldByKey, SameTile
      <4>. QED  BY <2>2, <2>3, <3>1, <3>3, <4>1 DEF TileOf
    <3>. QED  BY <2>2, <2>3, <2>4, <3>2, <3>3
  <2>5. TileOf(e, l) = opt
    BY <2>2, <2>3 DEF TileOf
  <2>. QED  BY <2>4, <2>5 DEF RightTiles, e
<1>. QED  BY <1>1, <1>2

(* Costs that differ in energy only.                                         *)
SameButEnergy(x, y) == x.time = y.time /\ x.bound = y.bound

(* A row of a buffer counts the accesses of a score twice.                    *)
Twice(d) == d.config.kind = "PIM" /\ d.config.type = "BUFFER"

(* A PIM device costs the same whatever its simulator has seen, up to scores   *)
(* that are odd and to the accesses that are counted twice.                  *)
LEMMA PimAsNew ==
  ASSUME NEW a, NEW b, a.config = b.config, a.num = b.num, a.dhead = b.dhead,
         a.config.kind = "PIM", NEW l, OnAcc(l), ~Odd(a, l)
  PROVE  /\ SameButEnergy(Cost(a, l), Cost(b, l))
         /\ ~Twice(a) => Cost(a, l) = Cost(b, l)
<1>1. Cost(a, l) = PimCost(a, l) /\ Cost(b, l) = PimCost(b, l)
  BY DEF Cost
<1>2. Cost(a, l).time = Cost(b, l).time
  <2>1. TimeOn(b, l) = TimeOn(a, l)
    BY PimTimeKept
  <2>. QED  BY <2>1 DEF TimeOn
<1>3. CASE l.type = "X2G"
  BY <1>1, <1>2, <1>3 DEF PimCost, SameButEnergy
<1>4. CASE l.type = "MATMUL" /\ IsScore(l)
  <2>1. PimCost(a, l).bound = l.bound /\ PimCost(b, l).bound = l.bound
    BY <1>4 DEF PimCost
  <2>2. ASSUME ~Twice(a) PROVE PimCost(a, l) = PimCost(b, l)
    <3> DEFINE ram == Simulated(a.config, l.k, Asked(l))
               n == ram.accesses
    <3>1. Answered(a, l) = [ram EXCEPT !.accesses = n] /\ Answered(b, l) = [ram EXCEPT !.accesses = n]
      BY <1>4, <2>2 DEF Answered, Odd, Twice
    <3>2. \A mem, alu : PimEnergy(a, mem, alu) = PimEnergy(b, mem, alu)
      BY DEF PimEnergy
    <3>3. Answered(a, l) = Answered(b, l)
      BY <3>1
    <3>. QED  BY <1>4, <3>2, <3>3 DEF PimCost
  <2>. QED  BY <1>1, <1>2, <2>1, <2>2 DEF SameButEnergy
<1>5. CASE l.type = "MATMUL" /\ ~IsScore(l)
  BY <1>1, <1>2, <1>5 DEF PimCost, SameButEnergy
<1>6. CASE l.type = "SOFTMAX"
  <2>1. \A mem, alu : PimEnergy(a, mem, alu) = PimEnergy(b, mem, alu)
    BY DEF PimEnergy
  <2>. QED  BY <1>1, <1>6, <2>1 DEF PimCost, SameButEnergy
<1>. QED  BY <1>3, <1>4, <1>5, <1>6 DEF OnAcc

(* So a device that was used gives the same answer as a new one.              *)
LEMMA AsGoodAsNew ==
  ASSUME NEW d, RightDevice(d), NEW l \in LayerRec, Told(l)
  PROVE  /\ XpuOK(d) => Cost(AfterCost(d, l), l) = Cost(AfterCost(AsNew(d), l), l)
         /\ OnAcc(l) /\ ~Odd(d, l) =>
              /\ SameButEnergy(Cost(AfterCost(d, l), l), Cost(AfterCost(AsNew(d), l), l))
              /\ ~Twice(d) => Cost(AfterCost(d, l), l) = Cost(AfterCost(AsNew(d), l), l)
         /\ RightDevice(AfterCost(d, l)) /\ AsNew(AfterCost(d, l)) = AsNew(d)
<1>1. CASE PimOK(d)
  <2> DEFINE n == AsNew(d)
             a == AfterCost(d, l)
             b == AfterCost(n, l)
  <2>1. d.config.kind = "PIM" /\ IsPIM(d) /\ ~XpuOK(d)
    BY <1>1, PimKind, XpuIsNoPim DEF PimOK
  <2>2. n = PIM(d.config, d.dhead, {})
    BY <2>1 DEF AsNew
  <2>3. IsPIM(n) /\ n.config = d.config /\ n.num = d.num /\ n.dhead = d.dhead
    BY <1>1, <2>2 DEF PIM, IsPIM, PimOK
  <2> HIDE DEF n
  <2>4. IsPIM(a) /\ a.config = d.config /\ a.num = d.num /\ a.dhead = d.dhead
    BY <2>1, AfterCostKeepsPim
  <2>5. b.config = d.config /\ b.num = d.num /\ b.dhead = d.dhead
    BY <2>1, <2>3, AfterCostKeepsPim
  <2> HIDE DEF a, b
  <2>6. RightDevice(a)
    BY <1>1, <2>4 DEF RightDevice, PimOK
  <2>7. AsNew(a) = n
    BY <2>1, <2>2, <2>4 DEF AsNew
  <2>8. ASSUME OnAcc(l), ~Odd(d, l)
        PROVE  SameButEnergy(Cost(a, l), Cost(b, l)) /\ (~Twice(d) => Cost(a, l) = Cost(b, l))
    <3>1. ~Odd(a, l) /\ a.config.kind = "PIM" /\ (Twice(a) <=> Twice(d))
      BY <2>1, <2>4, <2>8 DEF Odd, Twice
    <3>. QED  BY <2>4, <2>5, <2>8, <3>1, PimAsNew
  <2>. QED  BY <2>1, <2>6, <2>7, <2>8 DEF n, a, b
<1>2. CASE XpuOK(d) /\ RightTiles(d)
  <2> DEFINE n == AsNew(d)
             a == WithTile(d, l)
             b == WithTile(n, l)
  <2>1. d.config.kind # "PIM"
    BY <1>2, XpuIsNoPim
  <2>2. n = XPU(d.config, d.num) /\ n.config = d.config /\ n.num = d.num
    BY <2>1 DEF AsNew, XPU
  <2>3. XpuOK(n) /\ RightTiles(n)
    BY <1>2, <2>2 DEF XPU, XpuOK, IsXPU, RightTiles
  <2>4. AfterCost(d, l) = a /\ AfterCost(n, l) = b
    BY <2>1, <2>2 DEF AfterCost
  <2>5. /\ XpuOK(a) /\ RightTiles(a) /\ a.config = d.config /\ a.num = d.num
        /\ ~IsCommunication(l) => TileOf(a, l) = OptimalTile(d, l)
    BY <1>2, RightTilesKept, WithTileOK
  <2>6. /\ b.config = d.config /\ b.num = d.num
        /\ ~IsCommunication(l) => TileOf(b, l) = OptimalTile(n, l)
    BY <2>2, <2>3, RightTilesKept, WithTileOK
  <2>7. OptimalTile(d, l) = OptimalTile(n, l)
    BY <2>2, SameTile DEF SameShape
  <2>8. RightDevice(a) /\ AsNew(a) = AsNew(d)
    BY <2>1, <2>5 DEF RightDevice, AsNew
  <2> HIDE DEF a, b, n
  <2>9. XpuCost(a, l) = XpuCost(b, l)
    <3>1. XpuIo(a, l) = XpuIo(b, l)
      BY <2>5, <2>6 DEF XpuIo
    <3>2. CASE IsCommunication(l)
      BY <3>1, <3>2 DEF XpuCost
    <3>3. CASE ~IsCommunication(l)
      <4>1. TileOf(a, l) = TileOf(b, l)
        BY <2>5, <2>6, <2>7, <3>3
      <4>2. Levels(a, l) = Levels(b, l)
        BY <4>1 DEF Levels
      <4>3. \A t : Waves(a, l, t) = Waves(b, l, t)
        BY <2>5, <2>6 DEF Waves
      <4>4. Utilization(a, l) = Utilization(b, l)
        BY <2>5, <2>6, <4>1, <4>3 DEF Utilization
      <4>5. ComputeTime(a, l) = ComputeTime(b, l)
        BY <2>5, <2>6, <4>4 DEF ComputeTime
      <4>6. MemTime(a, l) = MemTime(b, l)
        BY <2>5, <2>6, <4>2, <4>4 DEF MemTime
      <4>7. XpuEnergy(a, l) = XpuEnergy(b, l)
        BY <2>5, <2>6, <4>2 DEF XpuEnergy
      <4>. QED  BY <3>3, <4>5, <4>6, <4>7 DEF XpuCost
    <3>. QED  BY <3>2, <3>3
  <2>10. Cost(a, l) = Cost(b, l)
    BY <2>1, <2>5, <2>6, <2>9 DEF Cost
  <2>. QED  BY <2>4, <2>8, <2>10 DEF n, SameButEnergy
<1>. QED  BY <1>1, <1>2 DEF RightDevice

(* The simulator counts in quanta, as everything else does.                   *)
SimulatorInQuanta ==
  \A c \in PimConfigs, dhead \in Nat,
     asked \in [n : Positive, heads : Positive, dbyte : {1, 2}] :
    Simulated(c, dhead, asked).time \in Quanta

(* So does the whole of a PIM device.                                        *)
LEMMA PimTimeInQuanta ==
  ASSUME SimulatorInQuanta, NEW d, PimOK(d), NEW l \in LayerRec, OnAcc(l)
  PROVE  PimCost(d, l).time \in Quanta
<1> DEFINE c == d.config
<1>2. c \in PimConfigs
  BY DEF PimOK
<1>3. c.io \in Positive /\ c.softmax \in Positive
  BY <1>2, SimulationAssumption DEF Positive
<1>4. Answered(d, l).time \in Quanta
  <2> DEFINE dhead == IF d.fresh THEN d.dhead ELSE l.k
             ram == Simulated(c, dhead, Asked(l))
             n == IF c.type = "BUFFER" /\ ~d.fresh THEN 2 * ram.accesses ELSE ram.accesses
  <2>1. dhead \in Nat
    BY LayerSizes DEF PimOK, Positive
  <2>2. ram.time \in Quanta
    BY <1>2, <2>1, AskedType DEF SimulatorInQuanta
  <2>3. Answered(d, l) = [ram EXCEPT !.accesses = n]
    BY DEF Answered
  <2>4. Answered(d, l).time = ram.time
    <3> HIDE DEF ram, n
    <3>. QED  BY <2>3
  <2>. QED  BY <2>2, <2>3, <2>4
<1>5. CASE l.type = "X2G"
  <2> DEFINE traffic == l.m * l.n * l.numOp * l.dbyte
  <2>1. traffic \in Nat
    BY LayerSizes, TimesType
  <2>2. PimCost(d, l).time = Time(2 * traffic, c.io)
    BY <1>5 DEF PimCost, IsScore
  <2> HIDE DEF traffic
  <2>3. 2 * traffic \in Nat
    BY <2>1
  <2>. QED  BY <1>3, <2>2, <2>3, TimeType
<1>6. CASE l.type = "MATMUL"
  <2>1. PimCost(d, l).time = IF IsScore(l) THEN Answered(d, l).time ELSE 0
    <3>1. CASE IsScore(l)
      BY <1>6, <3>1 DEF PimCost
    <3>2. CASE ~IsScore(l)
      BY <1>6, <3>2 DEF PimCost
    <3>. QED  BY <3>1, <3>2
  <2>. QED  BY <1>4, <2>1, QuantaType
<1>7. CASE l.type = "SOFTMAX"
  <2> DEFINE compute == Time(Flops(l), c.softmax * (2 \div l.dbyte))
             mem == Time(Total3(Size(l)), c.softmax)
  <2>1. 2 \div l.dbyte \in Positive
    BY LayerSizes DEF Positive
  <2>2. c.softmax * (2 \div l.dbyte) \in Positive
    BY <1>3, <2>1, TimesType
  <2>3. compute \in Quanta /\ mem \in Quanta
    BY <1>3, <2>2, FlopsType, SizeType, TimeType
  <2>4. PimCost(d, l).time = Most2(compute, mem)
    BY <1>7 DEF PimCost
  <2> HIDE DEF compute, mem
  <2>. QED  BY <2>3, <2>4 DEF Most2
<1>. QED  BY <1>5, <1>6, <1>7 DEF OnAcc

(* The layer as it comes from a new device: its type, its time in quanta.      *)
NewLayer(d, l) == Timed(l, Cost(AfterCost(d, l), l))

(* What a layer is after it was timed by a device as new.                    *)
LEMMA NewLayerType ==
  ASSUME SimulatorAnswers, SimulatorInQuanta,
         NEW d, NEW l \in LayerRec, XpuOK(d) \/ (PimOK(d) /\ OnAcc(l))
  PROVE  /\ NewLayer(d, l) \in LayerRec
         /\ NewLayer(d, l).time \in Quanta
         /\ NewLayer(d, l).name = l.name /\ NewLayer(d, l).type = l.type
         /\ TotalEnergy(NewLayer(d, l).energy) \in Nat
<1> DEFINE cost == Cost(AfterCost(d, l), l)
<1>1. CostOK(cost, l)
  BY CostType
<1>2. cost.time \in Quanta
  <2>1. CASE XpuOK(d)
    BY <2>1, CostType
  <2>2. CASE PimOK(d) /\ OnAcc(l)
    <3>1. PimOK(AfterCost(d, l)) /\ AfterCost(d, l).config = d.config /\ d.config.kind = "PIM"
      BY <2>2, CostType, PimKind
    <3>2. cost = PimCost(AfterCost(d, l), l)
      BY <3>1 DEF Cost
    <3>. QED  BY <2>2, <3>1, <3>2, PimTimeInQuanta
  <2>. QED  BY <2>1, <2>2
<1> HIDE DEF cost
<1>3. /\ Timed(l, cost) \in LayerRec /\ Timed(l, cost).type = l.type
      /\ Timed(l, cost).time = cost.time /\ Timed(l, cost).energy = cost.energy
  BY <1>1, TimedType
<1>4. Timed(l, cost).name = l.name
  BY DEF Timed, LayerRec
<1>5. TotalEnergy(cost.energy) \in Nat
  BY <1>1 DEF CostOK, TotalEnergy
<1>. QED  BY <1>2, <1>3, <1>4, <1>5 DEF NewLayer, cost

---------------------------------------------------------------------------
(* The pipeline, in quanta: what one of the heads of a GPU needs of a time can  *)
(* then be divided evenly, and the times that are left are those of stages that *)
(* overlap.                                                                 *)

HeadsInQuanta == model.infos \in Models /\ gpu.num \in GpuCounts

(* ... so a quarter of it, over the heads, is exact.                         *)
LEMMA QuantaShared ==
  ASSUME HeadsInQuanta
  PROVE  /\ HeadsOfGpus
         /\ \A a \in Quanta : \E x \in Nat : a = model.infos.heads * (4 * x)
<1> DEFINE h == model.infos.heads
<1>1. h \in Nat \ {0} /\ gpu.num \in Nat /\ gpu.num <= h /\ Quantum % (4 * h) = 0
  BY SimulationAssumption DEF HeadsInQuanta, Infos
<1>2. Quantum \in Nat /\ 4 * h \in Nat \ {0}
  BY <1>1, DeviceAssumption
<1> HIDE DEF h
<1>3. ASSUME NEW a \in Quanta PROVE \E x \in Nat : a = h * (4 * x)
  <2> DEFINE q == Quantum \div (4 * h)
  <2>1. q \in Nat /\ Quantum = 4 * h * q
    <3>1. Quantum = (4 * h) * (Quantum \div (4 * h)) + 0 /\ Quantum \div (4 * h) \in Nat
      BY <1>1, <1>2, Remainder
    <3>. QED  BY <1>2, <3>1
  <2> HIDE DEF q
  <2>2. PICK i \in Nat : a = Quantum * i
    BY <1>3 DEF Quanta
  <2>3. a = h * (4 * (q * i))
    BY <1>1, <2>1, <2>2
  <2>4. q * i \in Nat
    BY <2>1
  <2>. QED  BY <2>3, <2>4
<1>. QED  BY <1>1, <1>3 DEF HeadsOfGpus, h

(* What one head needs of several times is the sum of what it needs of each.   *)
LEMMA ShortOfQuanta ==
  ASSUME HeadsInQuanta, NEW a \in Quanta, NEW b \in Quanta
  PROVE  /\ Short(a) \in Nat /\ Short(b) \in Nat
         /\ Short(a + b) = Short(a) + Short(b)
         /\ \E y \in Nat : Short(a) = 4 * y
         /\ \E y \in Nat : a = 4 * y
<1> DEFINE h == model.infos.heads
           n == gpu.num
<1>1. h \in Nat \ {0} /\ n \in Nat
  BY QuantaShared DEF HeadsOfGpus
<1>2. PICK x \in Nat, y \in Nat : a = h * (4 * x) /\ b = h * (4 * y)
  BY QuantaShared
<1> HIDE DEF h, n
<1>3. ASSUME NEW z \in Nat PROVE (h * (4 * z) * n) \div h = 4 * (z * n)
  <2>1. 4 * (z * n) \in Nat /\ h * (4 * z) * n = 0 + h * (4 * (z * n)) /\ 0 \in 0..(h - 1)
    BY <1>1
  <2>. QED  BY <1>1, <2>1, DivideUnique
<1>4. Short(a) = 4 * (x * n) /\ Short(b) = 4 * (y * n)
  BY <1>2, <1>3 DEF Short, h, n
<1>5. Short(a + b) = 4 * ((x + y) * n)
  <2>1. a + b = h * (4 * (x + y)) /\ x + y \in Nat
    BY <1>1, <1>2
  <2>. QED  BY <1>3, <2>1 DEF Short, h, n
<1>6. x * n \in Nat /\ y * n \in Nat /\ (x + y) * n = x * n + y * n
  BY <1>1
<1>7. a = 4 * (h * x) /\ h * x \in Nat
  BY <1>1, <1>2
<1>. QED  BY <1>4, <1>5, <1>6, <1>7

(* The longest of some times is the one that none exceeds.                   *)
LEMMA MaxOfSet ==
  ASSUME NEW S, NEW x \in S, S \subseteq Int, \A y \in S : y <= x
  PROVE  Max(S) = x
<1>1. Max(S) \in S /\ \A y \in S : Max(S) >= y
  <2>1. \E z \in S : \A y \in S : z >= y
    BY DEF Max
  <2>. QED  BY <2>1 DEF Max
<1>2. Max(S) \in Int /\ x \in Int /\ Max(S) <= x /\ Max(S) >= x
  BY <1>1
<1>. QED  BY <1>2

(* Two or three stages that overlap: the longest of them, and one head's part of *)
(* the others.                                                              *)
LEMMA OverlappedStages ==
  ASSUME HeadsInQuanta, NEW f \in Quanta, NEW x \in Quanta, NEW a \in Quanta
  PROVE  LET ratio == <<gpu.num, model.infos.heads>>
             two == Overlapped([x2g |-> x, attn |-> a], ratio)
             three == Overlapped([fc |-> f, x2g |-> x, attn |-> a], ratio)
         IN /\ two = IF a > x THEN a + Short(x) ELSE x + Short(a)
            /\ a >= x /\ a >= f => three = a + (Short(f) + Short(x))
            /\ f >= x /\ f >= a => three = f + (Short(x) + Short(a))
            /\ x >= a /\ x >= f => three = x + (Short(f) + Short(a))
<1>0. f \in Nat /\ x \in Nat /\ a \in Nat
  BY QuantaType
<1> DEFINE r2 == [x2g |-> x, attn |-> a]
           r3 == [fc |-> f, x2g |-> x, attn |-> a]
           ratio == <<gpu.num, model.infos.heads>>
<1>1. SumFunction(r2) = x + a
  <2>1. OfTwo(r2, "x2g", "attn")
    BY <1>0 DEF OfTwo
  <2>2. TotalTwo(SumFunction(r2), r2, "x2g", "attn")
    <3> HIDE DEF r2
    <3>. QED  BY <2>1, SumTwo
  <2>. QED  BY <2>2 DEF TotalTwo
<1>2. SumFunction(r3) = f + x + a
  <2>1. OfThree(r3, "fc", "x2g", "attn")
    BY <1>0 DEF OfThree
  <2>2. TotalThree(SumFunction(r3), r3, "fc", "x2g", "attn")
    <3> HIDE DEF r3
    <3>. QED  BY <2>1, SumThree
  <2>. QED  BY <2>2 DEF TotalThree
<1>3. {r2[t] : t \in DOMAIN r2} = {x, a} /\ {r3[t] : t \in DOMAIN r3} = {f, x, a}
  OBVIOUS
<1>4. ASSUME NEW m, \/ m = x /\ a <= x
                    \/ m = a /\ x <= a
      PROVE  Overlapped(r2, ratio) = m + Short((x + a) - m)
  <2>1. Max({x, a}) = m
    BY <1>0, <1>4, MaxOfSet
  <2>2. Overlapped(r2, ratio)
          = Max({x, a}) + (((x + a) - Max({x, a})) * ratio[1]) \div ratio[2]
    <3> HIDE DEF r2, ratio
    <3>. QED  BY <1>1, <1>3 DEF Overlapped
  <2>3. ratio[1] = gpu.num /\ ratio[2] = model.infos.heads
    OBVIOUS
  <2> HIDE DEF r2, ratio
  <2>4. Overlapped(r2, ratio) = m + (((x + a) - m) * gpu.num) \div model.infos.heads
    BY <2>1, <2>2, <2>3
  <2>. QED  BY <2>4 DEF Short
<1>5. ASSUME NEW m, \/ m = f /\ x <= f /\ a <= f
                    \/ m = x /\ f <= x /\ a <= x
                    \/ m = a /\ f <= a /\ x <= a
      PROVE  Overlapped(r3, ratio) = m + Short((f + x + a) - m)
  <2>1. Max({f, x, a}) = m
    BY <1>0, <1>5, MaxOfSet
  <2>2. Overlapped(r3, ratio)
          = Max({f, x, a}) + (((f + x + a) - Max({f, x, a})) * ratio[1]) \div ratio[2]
    <3> HIDE DEF r3, ratio
    <3>. QED  BY <1>2, <1>3 DEF Overlapped
  <2>3. ratio[1] = gpu.num /\ ratio[2] = model.infos.heads
    OBVIOUS
  <2> HIDE DEF r3, ratio
  <2>4. Overlapped(r3, ratio) = m + (((f + x + a) - m) * gpu.num) \div model.infos.heads
    BY <2>1, <2>2, <2>3
  <2>. QED  BY <2>4 DEF Short
<1>6. /\ Short((x + a) - a) = Short(x) /\ Short((x + a) - x) = Short(a)
      /\ Short((f + x + a) - a) = Short(f) + Short(x)
      /\ Short((f + x + a) - f) = Short(x) + Short(a)
      /\ Short((f + x + a) - x) = Short(f) + Short(a)
  <2>1. /\ (x + a) - a = x /\ (x + a) - x = a /\ (f + x + a) - a = f + x
        /\ (f + x + a) - f = x + a /\ (f + x + a) - x = f + a
    BY <1>0
  <2>. QED  BY <2>1, ShortOfQuanta
<1>7. Overlapped(r2, ratio) = IF a > x THEN a + Short(x) ELSE x + Short(a)
  BY <1>0, <1>4, <1>6
<1>8. a >= x /\ a >= f => Overlapped(r3, ratio) = a + (Short(f) + Short(x))
  BY <1>0, <1>5, <1>6
<1>9. f >= x /\ f >= a => Overlapped(r3, ratio) = f + (Short(x) + Short(a))
  BY <1>0, <1>5, <1>6
<1>10. x >= a /\ x >= f => Overlapped(r3, ratio) = x + (Short(f) + Short(a))
  BY <1>0, <1>5, <1>6
<1>. QED  BY <1>7, <1>8, <1>9, <1>10

(* So the times of all that takes part add up to those of the stages that       *)
(* overlap, the transfers being shared out evenly to the two of a decoder.     *)
LEMMA PipelineOverlaps ==
  ASSUME HeadsInQuanta, NEW level \in BOOLEAN,
         NEW t \in [qkv : Quanta, prj : Quanta, x2g : Quanta, attn : Quanta]
  PROVE  LET p == Pipelined(t, level)
             fc == t.qkv + t.prj
             ratio == <<gpu.num, model.infos.heads>>
         IN p.qkv + p.prj + 2 * (p.x2g \div 2) + t.attn
              = IF level THEN Overlapped([fc |-> fc, x2g |-> t.x2g, attn |-> t.attn], ratio)
                ELSE fc + Overlapped([x2g |-> t.x2g, attn |-> t.attn], ratio)
<1> DEFINE q == t.qkv
           r == t.prj
           x == t.x2g
           a == t.attn
           p == Pipelined(t, level)
           sq == Short(q)
           sr == Short(r)
           sx == Short(x)
           sa == Short(a)
           ratio == <<gpu.num, model.infos.heads>>
           two == Overlapped([x2g |-> x, attn |-> a], ratio)
           three == Overlapped([fc |-> q + r, x2g |-> x, attn |-> a], ratio)
<1>1. q \in Quanta /\ r \in Quanta /\ x \in Quanta /\ a \in Quanta /\ q + r \in Quanta
  BY QuantaType
<1>2. q \in Nat /\ r \in Nat /\ x \in Nat /\ a \in Nat
  BY <1>1, QuantaType
<1>3. /\ sq \in Nat /\ sr \in Nat /\ sx \in Nat /\ sa \in Nat
      /\ Short(q + r) = sq + sr
  BY <1>1, ShortOfQuanta
<1>11. \A y \in Quanta : \E k, u \in Nat : Short(y) = 4 * k /\ y = 4 * u
  BY ShortOfQuanta
<1>12. PICK ka \in Nat, ua \in Nat : sa = 4 * ka /\ a = 4 * ua
  BY <1>1, <1>11
<1>4. PICK kx \in Nat, ux \in Nat : sx = 4 * kx /\ x = 4 * ux
  BY <1>1, <1>11
<1>5. /\ two = IF a > x THEN a + sx ELSE x + sa
      /\ a >= x /\ a >= q + r => three = a + ((sq + sr) + sx)
      /\ q + r >= x /\ q + r >= a => three = (q + r) + (sx + sa)
      /\ x >= a /\ x >= q + r => three = x + ((sq + sr) + sa)
  <2> HIDE DEF q, r, x, a, ratio
  <2>. QED  BY <1>1, <1>3, OverlappedStages DEF ratio
<1>6. t \in Times
  BY <1>2 DEF Times
<1>7. /\ ~level => /\ p.qkv = q /\ p.prj = r
                   /\ p.x2g = IF a > x THEN sx ELSE x - (a - sa)
      /\ level /\ a > q + r =>
           /\ p.qkv = sq /\ p.prj = sr
           /\ p.x2g = IF a > x THEN sx ELSE x - (a - sa)
      /\ level /\ a <= q + r /\ q + r > x =>
           /\ p.qkv = q - (3 * (a - sa)) \div 4 /\ p.prj = r - (a - sa) \div 4
           /\ p.x2g = sx
      /\ level /\ a <= q + r /\ q + r <= x =>
           /\ p.qkv = sq /\ p.prj = sr
           /\ p.x2g = x - (a - sa)
  BY <1>6, PipelinedTimes DEF Hidden
<1> HIDE DEF q, r, x, a, p, sq, sr, sx, sa, two, three
<1>8. /\ (3 * (a - sa)) \div 4 = 3 * (ua - ka) /\ (a - sa) \div 4 = ua - ka
      /\ 2 * (sx \div 2) = sx /\ 2 * ((x - (a - sa)) \div 2) = x - (a - sa)
  BY <1>4, <1>12
<1>9. CASE ~level
  <2>1. p.qkv + p.prj + 2 * (p.x2g \div 2) + a = (q + r) + two
    BY <1>2, <1>3, <1>5, <1>7, <1>8, <1>9
  <2>. QED  BY <1>9, <2>1 DEF p, q, r, x, a, two, ratio
<1>10. CASE level
  <2> DEFINE Goal == p.qkv + p.prj + 2 * (p.x2g \div 2) + a = three
  <2>1. ASSUME a > q + r, a > x PROVE Goal
    BY <1>2, <1>3, <1>5, <1>7, <1>8, <1>10, <2>1
  <2>2. ASSUME a > q + r, a <= x PROVE Goal
    BY <1>2, <1>3, <1>5, <1>7, <1>8, <1>10, <2>2
  <2>3. ASSUME a <= q + r, q + r > x PROVE Goal
    BY <1>2, <1>3, <1>4, <1>12, <1>5, <1>7, <1>8, <1>10, <2>3
  <2>4. ASSUME a <= q + r, q + r <= x PROVE Goal
    BY <1>2, <1>3, <1>5, <1>7, <1>8, <1>10, <2>4
  <2>5. Goal
    BY <1>2, <2>1, <2>2, <2>3, <2>4
  <2>. QED  BY <1>10, <2>5 DEF p, q, r, x, a, three, ratio
<1>. QED  BY <1>9, <1>10

---------------------------------------------------------------------------
(* A stage that has ended, pipelined or not: its time is that of BlockTime.    *)

(* Two layers of a name, and no more.                                        *)
TwoNamed(block, name) ==
  \E i, j \in DOMAIN block :
    /\ i # j /\ block[i].name = name /\ block[j].name = name
    /\ \A k \in DOMAIN block : block[k].name = name => k \in {i, j}

(* Sums of quanta, and of two numbers among zeros.                           *)
LEMMA SumInQuanta ==
  ASSUME NEW T, IsFiniteSet(T), NEW f \in [T -> Quanta]
  PROVE  SumFunction(f) \in Quanta
<1>1. f \in [T -> Int]
  <2>1. Quanta \subseteq Int
    BY QuantaType
  <2>. QED  BY <2>1
<1>2. PICK F : SumsOf(F, f, T) /\ SumFunction(f) = F[T]
  BY <1>1, SumIsSums
<1> DEFINE A == {s \in SUBSET T : F[s] \in Quanta}
<1>3. ASSUME NEW s \in SUBSET T, \A x \in s : \A t \in SUBSET (s \ {x}) : t \in A PROVE s \in A
  <2>1. CASE s = {}
    <3>1. F[s] = 0
      BY <2>1, <1>2 DEF SumsOf, TakesOne
    <3>. QED  BY <3>1, QuantaType
  <2>2. CASE s # {}
    <3>1. PICK p \in s : p = Some(s)
      BY <2>2, SomeIn
    <3> DEFINE r == s \ {p}
    <3>2. F[r] \in Quanta
      BY <1>3
    <3>3. F[s] = f[p] + F[r]
      BY <1>2, <2>2, <3>1 DEF SumsOf, TakesOne
    <3>4. f[p] \in Quanta
      OBVIOUS
    <3> HIDE DEF r
    <3>. QED  BY <3>2, <3>3, <3>4, QuantaType
  <2>. QED  BY <2>1, <2>2
<1>4. SUBSET T \subseteq A
  <2> HIDE DEF A
  <2>1. Hereditary(A, T)
    BY <1>3 DEF Hereditary
  <2>. QED  BY <2>1, SubsetInduction
<1>. QED  BY <1>2, <1>4

(* A sum of which only two terms are not zero.                               *)
LEMMA SumOfOnlyTwo ==
  ASSUME NEW T, IsFiniteSet(T), NEW f \in [T -> Int], NEW x \in T, NEW y \in T \ {x},
         \A z \in T \ {x, y} : f[z] = 0
  PROVE  SumFunction(f) = f[x] + f[y]
<1> DEFINE R == T \ {x}
           g == [z \in R |-> f[z]]
<1>1. SumFunction(f) = f[x] + SumFunction(g)
  BY SumWithout
<1>2. IsFiniteSet(R)
  BY FS_Subset
<1>3. g \in [R -> Int] /\ y \in R /\ g[y] = f[y] /\ \A z \in R \ {y} : g[z] = 0
  OBVIOUS
<1>4. SumFunction(g) = g[y]
  <2> HIDE DEF g, R
  <2>. QED  BY <1>2, <1>3, SumOfOnly
<1>. QED  BY <1>1, <1>3, <1>4

(* What the layers of some names have of a list of numbers.                  *)
Among(block, names, v) == [i \in DOMAIN block |-> IF block[i].name \in names THEN v[i] ELSE 0]
TimesOf(block) == [i \in DOMAIN block |-> block[i].time]

(* They are integers, and so is their sum.                                   *)
LEMMA AmongType ==
  ASSUME NEW block \in Seq(LayerRec), NEW names, NEW v \in [DOMAIN block -> Int]
  PROVE  /\ IsFiniteSet(DOMAIN block)
         /\ Among(block, names, v) \in [DOMAIN block -> Int]
         /\ SumFunction(Among(block, names, v)) \in Int
<1>1. IsFiniteSet(DOMAIN block)
  BY PartTypes
<1>2. Among(block, names, v) \in [DOMAIN block -> Int]
  BY DEF Among
<1>. QED  BY <1>1, <1>2, SumIsInt

(* The time of the layers of some names is such a sum.                       *)
LEMMA TimeIsAmong ==
  ASSUME NEW block, NEW names
  PROVE  TimeOf(block, names) = SumFunction(Among(block, names, TimesOf(block)))
<1>1. [i \in DOMAIN block |-> IF block[i].name \in names THEN block[i].time ELSE 0]
        = Among(block, names, TimesOf(block))
  BY DEF Among, TimesOf
<1>. QED  BY <1>1 DEF TimeOf, SumOver

(* Of the layers of two disjoint sets of names.                              *)
LEMMA AmongBoth ==
  ASSUME NEW block \in Seq(LayerRec), NEW a, NEW b, a \cap b = {}, NEW v \in [DOMAIN block -> Int]
  PROVE  SumFunction(Among(block, a \cup b, v))
           = SumFunction(Among(block, a, v)) + SumFunction(Among(block, b, v))
<1>1. /\ IsFiniteSet(DOMAIN block) /\ Among(block, a \cup b, v) \in [DOMAIN block -> Int]
      /\ Among(block, a, v) \in [DOMAIN block -> Int] /\ Among(block, b, v) \in [DOMAIN block -> Int]
  BY AmongType
<1>2. \A i \in DOMAIN block :
        Among(block, a \cup b, v)[i] = Among(block, a, v)[i] + Among(block, b, v)[i]
  BY DEF Among
<1>3. Adds(DOMAIN block, Among(block, a \cup b, v), Among(block, a, v), Among(block, b, v))
  BY <1>1, <1>2 DEF Adds
<1>. QED  BY <1>3, SumOfTwo

(* The same number for one layer, or for two.                                *)
LEMMA AmongFew ==
  ASSUME NEW block \in Seq(LayerRec), NEW name, NEW type, NEW n \in Int
  PROVE  LET same == [i \in DOMAIN block |-> n]
         IN /\ OneNamed(block, name, type) => SumFunction(Among(block, {name}, same)) = n
            /\ TwoNamed(block, name) => SumFunction(Among(block, {name}, same)) = 2 * n
<1> DEFINE same == [i \in DOMAIN block |-> n]
           f == Among(block, {name}, same)
<1>1. IsFiniteSet(DOMAIN block) /\ f \in [DOMAIN block -> Int]
  <2>1. same \in [DOMAIN block -> Int]
    OBVIOUS
  <2> HIDE DEF same
  <2>. QED  BY <2>1, AmongType
<1>2. \A i \in DOMAIN block : f[i] = IF block[i].name = name THEN n ELSE 0
  BY DEF Among
<1> HIDE DEF f
<1>3. ASSUME OneNamed(block, name, type) PROVE SumFunction(f) = n
  <2>1. PICK x \in DOMAIN block : /\ block[x].name = name
                                  /\ \A j \in DOMAIN block : block[j].name = name => j = x
    BY <1>3 DEF OneNamed
  <2>2. \A y \in DOMAIN block \ {x} : f[y] = 0
    BY <1>2, <2>1
  <2>3. SumFunction(f) = f[x]
    BY <1>1, <2>2, SumOfOnly
  <2>. QED  BY <1>2, <2>1, <2>3
<1>4. ASSUME TwoNamed(block, name) PROVE SumFunction(f) = 2 * n
  <2>1. PICK x \in DOMAIN block, y \in DOMAIN block :
               /\ x # y /\ block[x].name = name /\ block[y].name = name
               /\ \A k \in DOMAIN block : block[k].name = name => k \in {x, y}
    BY <1>4 DEF TwoNamed
  <2>2. y \in DOMAIN block \ {x} /\ \A z \in DOMAIN block \ {x, y} : f[z] = 0
    BY <1>2, <2>1
  <2>3. SumFunction(f) = f[x] + f[y]
    BY <1>1, <2>2, SumOfOnlyTwo
  <2>. QED  BY <1>2, <2>1, <2>3
<1>. QED  BY <1>3, <1>4 DEF f

(* A decoder that can be pipelined.                                          *)
InPipeline(block) ==
  /\ block \in Seq(LayerRec) /\ \A i \in DOMAIN block : block[i].time \in Quanta
  /\ OneNamed(block, "qkv", "FC") /\ OneNamed(block, "proj", "FC") /\ TwoNamed(block, "comm_x2g")

Others == {"comm_g2g", "norm1", "norm2", "glu", "relu", "gelu"}
FeedForwards == {"ff1", "ff2", "ff3"}

(* Its times are those of the stages that are pipelined and of the others.     *)
LEMMA PipelineStages ==
  ASSUME NEW block, InPipeline(block)
  PROVE  /\ PipelineTimes(block) \in [qkv : Quanta, prj : Quanta, x2g : Quanta, attn : Quanta]
         /\ TimeOf(block, {"qkv", "proj"}) = PipelineTimes(block).qkv + PipelineTimes(block).prj
         /\ TimeOf(block, {"comm_x2g"}) = PipelineTimes(block).x2g
         /\ TimeOf(block, {"score", "softmax", "context"}) = PipelineTimes(block).attn
         /\ PipelineTimes(block).attn = TimeOf(block, {"score", "context"}) + TimeOf(block, {"softmax"})
         /\ \A names : TimeOf(block, names) \in Quanta
<1> DEFINE v == TimesOf(block)
<1>1. block \in Seq(LayerRec) /\ v \in [DOMAIN block -> Quanta] /\ 0 \in Quanta /\ Quanta \subseteq Int
  BY QuantaType DEF InPipeline, TimesOf
<1>2. v \in [DOMAIN block -> Int]
  BY <1>1
<1>3. ASSUME NEW names PROVE TimeOf(block, names) \in Quanta
  <2>1. Among(block, names, v) \in [DOMAIN block -> Quanta]
    <3> HIDE DEF v
    <3>. QED  BY <1>1 DEF Among
  <2>2. IsFiniteSet(DOMAIN block)
    BY <1>1, PartTypes
  <2>. QED  BY <2>1, <2>2, SumInQuanta, TimeIsAmong
<1>4. ASSUME NEW a, NEW b, a \cap b = {}
      PROVE  TimeOf(block, a \cup b) = TimeOf(block, a) + TimeOf(block, b)
  <2> HIDE DEF v
  <2>1. SumFunction(Among(block, a \cup b, v))
          = SumFunction(Among(block, a, v)) + SumFunction(Among(block, b, v))
    BY <1>1, <1>2, <1>4, AmongBoth
  <2>. QED  BY <2>1, TimeIsAmong DEF v
<1>5. /\ TimeOf(block, {"qkv", "proj"}) = TimeOf(block, {"qkv"}) + TimeOf(block, {"proj"})
      /\ TimeOf(block, {"score", "context", "softmax"})
           = TimeOf(block, {"score", "context"}) + TimeOf(block, {"softmax"})
      /\ {"score", "context", "softmax"} = {"score", "softmax", "context"}
  <2>1. /\ {"qkv", "proj"} = {"qkv"} \cup {"proj"} /\ {"qkv"} \cap {"proj"} = {}
        /\ {"score", "context", "softmax"} = {"score", "context"} \cup {"softmax"}
        /\ {"score", "context"} \cap {"softmax"} = {}
        /\ {"score", "context", "softmax"} = {"score", "softmax", "context"}
    OBVIOUS
  <2>. QED  BY <1>4, <2>1
<1>6. PipelineTimes(block) = [qkv |-> TimeOf(block, {"qkv"}), prj |-> TimeOf(block, {"proj"}),
                              x2g |-> TimeOf(block, {"comm_x2g"}),
                              attn |-> TimeOf(block, {"score", "context", "softmax"})]
  BY DEF PipelineTimes
<1>. QED  BY <1>3, <1>5, <1>6

(* The times of the layers of a pipelined decoder, by what they are of.        *)
LEMMA PipelinedAdds ==
  ASSUME HeadsInQuanta, NEW block, InPipeline(block), NEW level \in BOOLEAN,
         NEW done \in [DOMAIN block -> Int], NEW ff \in [DOMAIN block -> Int],
         \A i \in DOMAIN block :
           done[i] = CASE block[i].name = "qkv" -> Pipelined(PipelineTimes(block), level).qkv
                       [] block[i].name = "proj" -> Pipelined(PipelineTimes(block), level).prj
                       [] block[i].name = "comm_x2g"
                            -> Pipelined(PipelineTimes(block), level).x2g \div 2
                       [] block[i].name = "softmax" -> 0
                       [] block[i].name \in FeedForwards -> ff[i]
                       [] OTHER -> block[i].time
  PROVE  LET fc == TimeOf(block, {"qkv", "proj"})
             x2g == TimeOf(block, {"comm_x2g"})
             attn == TimeOf(block, {"score", "softmax", "context"})
             ratio == <<gpu.num, model.infos.heads>>
         IN SumFunction(done)
              = (IF level THEN Overlapped([fc |-> fc, x2g |-> x2g, attn |-> attn], ratio)
                 ELSE fc + Overlapped([x2g |-> x2g, attn |-> attn], ratio))
                - TimeOf(block, {"softmax"})
                + SumFunction(Among(block, FeedForwards, ff))
                + TimeOf(block, Others)
<1> DEFINE t == PipelineTimes(block)
           p == Pipelined(t, level)
           T == DOMAIN block
           Same(n) == [i \in T |-> n]
           v == TimesOf(block)
           q == Among(block, {"qkv"}, Same(p.qkv))
           r == Among(block, {"proj"}, Same(p.prj))
           x == Among(block, {"comm_x2g"}, Same(p.x2g \div 2))
           a == Among(block, {"score", "context"}, v)
           f == Among(block, FeedForwards, ff)
           o == Among(block, Others, v)
<1>1. /\ t \in [qkv : Quanta, prj : Quanta, x2g : Quanta, attn : Quanta]
      /\ TimeOf(block, {"qkv", "proj"}) = t.qkv + t.prj
      /\ TimeOf(block, {"comm_x2g"}) = t.x2g
      /\ TimeOf(block, {"score", "softmax", "context"}) = t.attn
      /\ t.attn = TimeOf(block, {"score", "context"}) + TimeOf(block, {"softmax"})
      /\ \A names : TimeOf(block, names) \in Int
  BY PipelineStages, QuantaType
<1>2. block \in Seq(LayerRec) /\ v \in [T -> Int] /\ IsFiniteSet(T)
  <2>1. block \in Seq(LayerRec)
    BY DEF InPipeline
  <2>2. \A i \in T : block[i].time \in Int
    <3>1. Quanta \subseteq Int
      BY QuantaType
    <3>. QED  BY <3>1 DEF InPipeline
  <2>3. v \in [T -> Int]
    BY <2>2 DEF TimesOf
  <2>. QED  BY <2>1, <2>3, PartTypes
<1>3. p.qkv \in Int /\ p.prj \in Int /\ p.x2g \in Int /\ p.x2g \div 2 \in Int
  <2>1. t \in FourTimes /\ HeadsOK
    <3>1. Quanta \subseteq Int
      BY QuantaType
    <3>2. HeadsOK
      BY QuantaShared DEF HeadsOfGpus, HeadsOK
    <3> HIDE DEF t
    <3>. QED  BY <1>1, <3>1, <3>2 DEF FourTimes
  <2>2. p \in FourTimes
    <3> HIDE DEF t
    <3>. QED  BY <2>1, PipelinedType
  <2> HIDE DEF p
  <2>3. p.qkv \in Int /\ p.prj \in Int /\ p.x2g \in Int
    BY <2>2 DEF FourTimes
  <2>. QED  BY <2>3
<1>4. /\ q \in [T -> Int] /\ r \in [T -> Int] /\ x \in [T -> Int]
      /\ a \in [T -> Int] /\ f \in [T -> Int] /\ o \in [T -> Int]
  <2>1. Same(p.qkv) \in [T -> Int] /\ Same(p.prj) \in [T -> Int] /\ Same(p.x2g \div 2) \in [T -> Int]
    <3> HIDE DEF p
    <3>. QED  BY <1>3
  <2> HIDE DEF Same, p, v
  <2>. QED  BY <1>2, <2>1, AmongType
<1>5. /\ SumFunction(q) = p.qkv /\ SumFunction(r) = p.prj /\ SumFunction(x) = 2 * (p.x2g \div 2)
      /\ SumFunction(a) = TimeOf(block, {"score", "context"})
      /\ SumFunction(o) = TimeOf(block, Others) /\ SumFunction(f) \in Int
  <2>1. /\ OneNamed(block, "qkv", "FC") /\ OneNamed(block, "proj", "FC") /\ TwoNamed(block, "comm_x2g")
    BY DEF InPipeline
  <2>2. SumFunction(f) \in Int
    BY <1>2, AmongType
  <2> HIDE DEF p
  <2>. QED  BY <1>2, <1>3, <2>1, <2>2, AmongFew, TimeIsAmong
<1>6. \A i \in T : done[i] = q[i] + r[i] + x[i] + a[i] + f[i] + o[i]
  <2>1. SUFFICES ASSUME NEW i \in T PROVE done[i] = q[i] + r[i] + x[i] + a[i] + f[i] + o[i]
    OBVIOUS
  <2>2. /\ q[i] = IF block[i].name = "qkv" THEN p.qkv ELSE 0
        /\ r[i] = IF block[i].name = "proj" THEN p.prj ELSE 0
        /\ x[i] = IF block[i].name = "comm_x2g" THEN p.x2g \div 2 ELSE 0
        /\ a[i] = IF block[i].name \in {"score", "context"} THEN block[i].time ELSE 0
        /\ f[i] = IF block[i].name \in FeedForwards THEN ff[i] ELSE 0
        /\ o[i] = IF block[i].name \in Others THEN block[i].time ELSE 0
    <3> HIDE DEF p
    <3>. QED  BY DEF Among, TimesOf
  <2>3. block[i].name \in LayerNames /\ block[i].time \in Int /\ ff[i] \in Int
    <3>1. block[i] \in LayerRec
      BY <1>2, LenProperties, ElementOfSeq
    <3>. QED  BY <3>1 DEF LayerRec
  <2>4. done[i] = CASE block[i].name = "qkv" -> p.qkv
                    [] block[i].name = "proj" -> p.prj
                    [] block[i].name = "comm_x2g" -> p.x2g \div 2
                    [] block[i].name = "softmax" -> 0
                    [] block[i].name \in FeedForwards -> ff[i]
                    [] OTHER -> block[i].time
    OBVIOUS
  <2> HIDE DEF q, r, x, a, f, o, p, T
  <2>. QED  BY <1>3, <2>2, <2>3, <2>4 DEF LayerNames, FeedForwards, Others
<1>7. SumFunction(done) = SumFunction(q) + SumFunction(r) + SumFunction(x) + SumFunction(a)
                          + SumFunction(f) + SumFunction(o)
  <2>1. Adds6(T, done, q, r, x, a, f, o)
    <3>1. done \in [T -> Int]
      OBVIOUS
    <3> HIDE DEF q, r, x, a, f, o, T
    <3>. QED  BY <1>2, <1>4, <1>6, <3>1 DEF Adds6
  <2> HIDE DEF q, r, x, a, f, o, T
  <2>. QED  BY <2>1, SumOfSix
<1> DEFINE m == IF level THEN Overlapped([fc |-> t.qkv + t.prj, x2g |-> t.x2g, attn |-> t.attn],
                                         <<gpu.num, model.infos.heads>>)
                ELSE t.qkv + t.prj + Overlapped([x2g |-> t.x2g, attn |-> t.attn],
                                                <<gpu.num, model.infos.heads>>)
<1>8. p.qkv + p.prj + 2 * (p.x2g \div 2) + t.attn = m
  <2> HIDE DEF t
  <2>. QED  BY <1>1, PipelineOverlaps
<1>9. TimeOf(block, {"score", "context"}) \in Int /\ TimeOf(block, {"softmax"}) \in Int
      /\ TimeOf(block, Others) \in Int
  BY <1>1
<1> DEFINE sc == TimeOf(block, {"score", "context"})
           sm == TimeOf(block, {"softmax"})
           ot == TimeOf(block, Others)
           sf == SumFunction(f)
           xx == p.x2g \div 2
<1>10. SumFunction(done) = p.qkv + p.prj + 2 * xx + sc + sf + ot
  BY <1>5, <1>7
<1>11. p.qkv + p.prj + 2 * xx + (sc + sm) = m
  BY <1>1, <1>8
<1>12. p.qkv \in Int /\ p.prj \in Int /\ xx \in Int /\ sc \in Int /\ sm \in Int /\ ot \in Int /\ sf \in Int
  BY <1>3, <1>5, <1>9
<1>13. SumFunction(done) = m - sm + sf + ot
  <2> HIDE DEF p, xx, sc, sm, ot, sf, m
  <2>. QED  BY <1>10, <1>11, <1>12
<1>. QED  BY <1>1, <1>13

(* What the end of a stage makes of its layers.                              *)
Ended(block) ==
  IF hetero # "PIM" THEN block
  ELSE IF call.par THEN ParallelBlock(PipelinedBlock(block, call.pipe), call.batch)
  ELSE PipelinedBlock(block, call.pipe)

CallInPipeline ==
  /\ HeadsInQuanta /\ call.pipe \in BOOLEAN /\ call.batch \in Positive /\ XpuOK(gpu)
  /\ hetero = "PIM" => Acc.config.bw \in Positive

(* The layers of an ended stage, one by one.                                 *)
LEMMA EndedLayers ==
  ASSUME CallInPipeline, NEW block \in Seq(LayerRec)
  PROVE  /\ Ended(block) \in Seq(LayerRec) /\ DOMAIN Ended(block) = DOMAIN block
         /\ \A i \in DOMAIN block : Ended(block)[i].energy = block[i].energy
         /\ hetero = "PIM" => \A i \in DOMAIN block :
              LET p == Pipelined(PipelineTimes(block), call.pipe)
              IN Ended(block)[i].time =
                   CASE block[i].name = "qkv" -> p.qkv
                     [] block[i].name = "proj" -> p.prj
                     [] block[i].name = "comm_x2g" -> p.x2g \div 2
                     [] block[i].name = "softmax" -> 0
                     [] IsFF(block[i]) /\ call.par -> Parallel(gpu, Acc, block[i], call.batch)
                     [] OTHER -> block[i].time
<1> DEFINE e == Ended(block)
           piped == PipelinedBlock(block, call.pipe)
           par == ParallelBlock(piped, call.batch)
<1>1. HeadsOK /\ call.pipe \in BOOLEAN /\ call.batch \in Positive /\ XpuOK(gpu)
  BY QuantaShared DEF CallInPipeline, HeadsOK, HeadsOfGpus
<1>2. \A i \in DOMAIN block : block[i] \in LayerRec
  BY LenProperties, ElementOfSeq
<1>3. piped \in Seq(LayerRec) /\ DOMAIN piped = DOMAIN block
  <2>1. piped \in Seq(LayerRec) /\ Len(piped) = Len(block)
    BY <1>1, PipelinedBlockType
  <2> HIDE DEF piped
  <2>. QED  BY <2>1, LenProperties
<1>4. hetero = "PIM" => par \in Seq(LayerRec) /\ DOMAIN par = DOMAIN piped
  <2> HIDE DEF piped
  <2>1. ASSUME hetero = "PIM" PROVE par \in Seq(LayerRec) /\ Len(par) = Len(piped)
    BY <1>1, <1>3, <2>1, ParallelBlockType DEF CallInPipeline
  <2> HIDE DEF par
  <2>. QED  BY <1>3, <2>1, LenProperties
<1>5. ASSUME NEW l \in LayerRec, NEW n
      PROVE  /\ [l EXCEPT !.time = n].time = n /\ [l EXCEPT !.time = n].energy = l.energy
             /\ n = l.time => [l EXCEPT !.time = n] = l
  BY DEF LayerRec
<1> DEFINE p == Pipelined(PipelineTimes(block), call.pipe)
           new(l) == CASE l.name = "qkv" -> p.qkv
                       [] l.name = "proj" -> p.prj
                       [] l.name = "comm_x2g" -> p.x2g \div 2
                       [] l.name = "softmax" -> 0
                       [] OTHER -> l.time
<1>6. \A i \in DOMAIN block : piped[i] = [block[i] EXCEPT !.time = new(block[i])]
  BY DEF PipelinedBlock
<1>7. \A i \in DOMAIN piped :
        par[i] = IF IsFF(piped[i])
                 THEN [piped[i] EXCEPT !.time = Parallel(gpu, Acc, piped[i], call.batch)]
                 ELSE piped[i]
  <2> HIDE DEF piped
  <2>. QED  BY DEF ParallelBlock
<1>8. \A i \in DOMAIN block : IsFF(block[i]) => new(block[i]) = block[i].time
  <2> HIDE DEF p
  <2>. QED  BY DEF IsFF
<1>9. ASSUME NEW i \in DOMAIN block
      PROVE  /\ piped[i].time = new(block[i]) /\ piped[i].energy = block[i].energy
             /\ IsFF(piped[i]) <=> IsFF(block[i])
             /\ IsFF(block[i]) => piped[i] = block[i]
  <2>1. piped[i] = [block[i] EXCEPT !.time = new(block[i])] /\ block[i] \in LayerRec
    BY <1>2, <1>6
  <2>2. piped[i].name = block[i].name
    <3> HIDE DEF new
    <3>. QED  BY <2>1 DEF LayerRec
  <2> HIDE DEF new, piped
  <2>. QED  BY <1>5, <1>8, <2>1, <2>2 DEF IsFF
<1>10. \A i \in DOMAIN block : piped[i] \in LayerRec
  <2> HIDE DEF piped
  <2>. QED  BY <1>3, LenProperties, ElementOfSeq
<1>11. e = IF hetero # "PIM" THEN block ELSE IF call.par THEN par ELSE piped
  BY DEF Ended
<1> HIDE DEF e, par, piped, new
<1>12. ASSUME NEW i \in DOMAIN block
       PROVE  /\ par[i].energy = block[i].energy
              /\ par[i].time = IF IsFF(block[i]) THEN Parallel(gpu, Acc, block[i], call.batch)
                               ELSE new(block[i])
  <2>1. CASE IsFF(block[i])
    <3>1. par[i] = [block[i] EXCEPT !.time = Parallel(gpu, Acc, block[i], call.batch)]
      BY <1>3, <1>7, <1>9, <2>1
    <3>. QED  BY <1>2, <1>5, <2>1, <3>1
  <2>2. CASE ~IsFF(block[i])
    BY <1>3, <1>7, <1>9, <2>2
  <2>. QED  BY <2>1, <2>2
<1>13. e \in Seq(LayerRec) /\ DOMAIN e = DOMAIN block
       /\ \A i \in DOMAIN block : e[i].energy = block[i].energy
  BY <1>3, <1>4, <1>9, <1>11, <1>12
<1>14. ASSUME hetero = "PIM", NEW i \in DOMAIN block
       PROVE  e[i].time = CASE block[i].name = "qkv" -> p.qkv
                            [] block[i].name = "proj" -> p.prj
                            [] block[i].name = "comm_x2g" -> p.x2g \div 2
                            [] block[i].name = "softmax" -> 0
                            [] IsFF(block[i]) /\ call.par -> Parallel(gpu, Acc, block[i], call.batch)
                            [] OTHER -> block[i].time
  <2> HIDE DEF p
  <2>1. e[i].time = IF IsFF(block[i]) /\ call.par THEN Parallel(gpu, Acc, block[i], call.batch)
                    ELSE new(block[i])
    BY <1>9, <1>11, <1>12, <1>14
  <2>2. CASE IsFF(block[i]) /\ call.par
    BY <2>1, <2>2 DEF IsFF
  <2>3. CASE ~(IsFF(block[i]) /\ call.par)
    BY <2>1, <2>3 DEF new
  <2>. QED  BY <2>2, <2>3
<1>. QED  BY <1>13, <1>14 DEF e

(* The time that the answer has for a stage, in terms of the sums above ...     *)
LEMMA BlockTimeSums ==
  ASSUME NEW own, NEW other, NEW block, NEW cfg, NEW c
  PROVE  LET fc == TimeOf(block, {"qkv", "proj"})
             x2g == TimeOf(block, {"comm_x2g"})
             attn == TimeOf(block, {"score", "softmax", "context"})
             ratio == <<cfg.num, cfg.model.infos.heads>>
             FF(l) == IF c.par THEN Parallel(own, other, l, c.batch) ELSE l.time
         IN BlockTime(own, other, block, cfg, c) =
              IF cfg.hetero # "PIM" THEN SumFunction(TimesOf(block))
              ELSE (IF c.pipe THEN Overlapped([fc |-> fc, x2g |-> x2g, attn |-> attn], ratio)
                    ELSE fc + Overlapped([x2g |-> x2g, attn |-> attn], ratio))
                   - TimeOf(block, {"softmax"})
                   + SumFunction([i \in DOMAIN block |-> IF IsFF(block[i]) THEN FF(block[i]) ELSE 0])
                   + TimeOf(block, Others)
BY Zenon DEF BlockTime, TimeOf, TimesOf, SumOver, Others

(* ... is what its layers come to.                                           *)
LEMMA EndedTime ==
  ASSUME CallInPipeline, NEW block \in Seq(LayerRec), hetero = "PIM" => InPipeline(block),
         NEW own, NEW other, own.config = gpu.config, other.config = Acc.config,
         NEW cfg, cfg.num = gpu.num, cfg.hetero = hetero, cfg.model = model
  PROVE  BlockTime(own, other, block, cfg, call) = SumFunction(TimesOf(Ended(block)))
<1> DEFINE e == Ended(block)
           FF(l) == IF call.par THEN Parallel(own, other, l, call.batch) ELSE l.time
           ff == SumFunction([i \in DOMAIN block |-> IF IsFF(block[i]) THEN FF(block[i]) ELSE 0])
           fc == TimeOf(block, {"qkv", "proj"})
           x2g == TimeOf(block, {"comm_x2g"})
           attn == TimeOf(block, {"score", "softmax", "context"})
           ratio == <<gpu.num, model.infos.heads>>
<1>1. CASE hetero # "PIM"
  BY <1>1, BlockTimeSums DEF Ended
<1>2. CASE hetero = "PIM"
  <2> DEFINE p == Pipelined(PipelineTimes(block), call.pipe)
  <2>1. /\ e \in Seq(LayerRec) /\ DOMAIN e = DOMAIN block
        /\ \A i \in DOMAIN block :
             e[i].time = CASE block[i].name = "qkv" -> p.qkv
                           [] block[i].name = "proj" -> p.prj
                           [] block[i].name = "comm_x2g"
                                -> p.x2g \div 2
                           [] block[i].name = "softmax" -> 0
                           [] IsFF(block[i]) /\ call.par -> Parallel(gpu, Acc, block[i], call.batch)
                           [] OTHER -> block[i].time
    BY <1>2, EndedLayers
  <2> HIDE DEF e, p
  <2> DEFINE done == TimesOf(e)
  <2>2. done \in [DOMAIN block -> Int] /\ \A i \in DOMAIN block : done[i] = e[i].time
    <3>1. \A i \in DOMAIN e : e[i].time \in Int
      BY <2>1, LayerSizes, LenProperties, ElementOfSeq
    <3>. QED  BY <2>1, <3>1 DEF TimesOf
  <2> HIDE DEF done
  <2>3. \A i \in DOMAIN block : IsFF(block[i]) <=> block[i].name \in FeedForwards
    BY DEF IsFF, FeedForwards
  <2>4. ASSUME NEW i \in DOMAIN block
        PROVE done[i] = CASE block[i].name = "qkv" -> p.qkv
                          [] block[i].name = "proj" -> p.prj
                          [] block[i].name = "comm_x2g"
                               -> p.x2g \div 2
                          [] block[i].name = "softmax" -> 0
                          [] block[i].name \in FeedForwards -> done[i]
                          [] OTHER -> block[i].time
    <3>1. e[i].time = CASE block[i].name = "qkv" -> p.qkv
                        [] block[i].name = "proj" -> p.prj
                        [] block[i].name = "comm_x2g" -> p.x2g \div 2
                        [] block[i].name = "softmax" -> 0
                        [] IsFF(block[i]) /\ call.par -> Parallel(gpu, Acc, block[i], call.batch)
                        [] OTHER -> block[i].time
      BY <2>1
    <3>2. CASE block[i].name \in FeedForwards
      BY <3>2 DEF FeedForwards
    <3>3. CASE block[i].name \notin FeedForwards
      BY <2>2, <2>3, <3>1, <3>3
    <3>. QED  BY <3>2, <3>3
  <2>5. HeadsInQuanta /\ InPipeline(block) /\ call.pipe \in BOOLEAN
    BY <1>2 DEF CallInPipeline
  <2>6. SumFunction(done)
          = (IF call.pipe THEN Overlapped([fc |-> fc, x2g |-> x2g, attn |-> attn], ratio)
             ELSE fc + Overlapped([x2g |-> x2g, attn |-> attn], ratio))
            - TimeOf(block, {"softmax"}) + SumFunction(Among(block, FeedForwards, done))
            + TimeOf(block, Others)
    BY <2>2, <2>4, <2>5, PipelinedAdds DEF p
  <2>7. ff = SumFunction(Among(block, FeedForwards, done))
    <3>1. \A l : Parallel(own, other, l, call.batch) = Parallel(gpu, Acc, l, call.batch)
      BY DEF Parallel
    <3>2. ASSUME NEW i \in DOMAIN block
          PROVE  (IF IsFF(block[i]) THEN FF(block[i]) ELSE 0)
                   = (IF block[i].name \in FeedForwards THEN done[i] ELSE 0)
      <4>1. CASE IsFF(block[i])
        <5>1. /\ block[i].name # "qkv" /\ block[i].name # "proj" /\ block[i].name # "comm_x2g"
              /\ block[i].name # "softmax"
          BY <4>1 DEF IsFF
        <5>2. e[i].time = IF call.par THEN Parallel(gpu, Acc, block[i], call.batch) ELSE block[i].time
          BY <2>1, <4>1, <5>1
        <5>. QED  BY <2>2, <2>3, <3>1, <4>1, <5>2
      <4>2. CASE ~IsFF(block[i])
        BY <2>3, <4>2
      <4>. QED  BY <4>1, <4>2
    <3>. QED  BY <3>2 DEF Among
  <2>8. BlockTime(own, other, block, cfg, call)
          = (IF call.pipe THEN Overlapped([fc |-> fc, x2g |-> x2g, attn |-> attn], ratio)
             ELSE fc + Overlapped([x2g |-> x2g, attn |-> attn], ratio))
            - TimeOf(block, {"softmax"}) + ff + TimeOf(block, Others)
    BY <1>2, BlockTimeSums
  <2>. QED  BY <2>6, <2>7, <2>8 DEF done, e
<1>. QED  BY <1>1, <1>2

---------------------------------------------------------------------------
(* The decoders of the generated tokens can be pipelined, once their layers     *)
(* were timed.                                                              *)

(* What is named twice in a list that is made of two.                        *)
LEMMA JoinTwoNamed ==
  ASSUME NEW s \in Seq(LayerRec), NEW t \in Seq(LayerRec), NEW name, NEW type
  PROVE  /\ OneNamed(s, name, type) /\ OneNamed(t, name, type) => TwoNamed(s \o t, name)
         /\ TwoNamed(s, name) /\ NoneNamed(t, name) => TwoNamed(s \o t, name)
<1> DEFINE u == s \o t
           m == Len(s)
           n == Len(t)
<1>1. /\ m \in Nat /\ n \in Nat
      /\ DOMAIN s = 1..m /\ DOMAIN t = 1..n /\ DOMAIN u = 1..(m + n)
  BY ConcatProperties, LenProperties
<1>2. \A i \in 1..m : u[i] = s[i]
  BY ConcatProperties, LenProperties
<1>3. \A i \in 1..n : u[m + i] = t[i]
  BY <1>1, ConcatProperties
<1>4. \A i \in DOMAIN u : i \notin DOMAIN s => i - m \in DOMAIN t /\ u[i] = t[i - m]
  <2>1. ASSUME NEW i \in DOMAIN u, i \notin DOMAIN s PROVE i - m \in 1..n /\ m + (i - m) = i
    BY <1>1, <2>1
  <2>. QED  BY <1>1, <1>3, <2>1
<1> HIDE DEF u, m, n
<1>5. ASSUME OneNamed(s, name, type), OneNamed(t, name, type) PROVE TwoNamed(u, name)
  <2>1. PICK i \in DOMAIN s : s[i].name = name /\ \A j \in DOMAIN s : s[j].name = name => j = i
    BY <1>5 DEF OneNamed
  <2>2. PICK k \in DOMAIN t : t[k].name = name /\ \A j \in DOMAIN t : t[j].name = name => j = k
    BY <1>5 DEF OneNamed
  <2>3. /\ i \in DOMAIN u /\ u[i] = s[i] /\ m + k \in DOMAIN u /\ u[m + k] = t[k] /\ i # m + k
    BY <1>1, <1>2, <1>3
  <2>4. ASSUME NEW j \in DOMAIN u, u[j].name = name PROVE j \in {i, m + k}
    <3>1. CASE j \in DOMAIN s
      BY <1>1, <1>2, <2>1, <2>4, <3>1
    <3>2. CASE j \notin DOMAIN s
      <4>1. j - m = k
        BY <1>4, <2>2, <2>4, <3>2
      <4>. QED  BY <1>1, <4>1
    <3>. QED  BY <3>1, <3>2
  <2>. QED  BY <2>1, <2>2, <2>3, <2>4 DEF TwoNamed
<1>6. ASSUME TwoNamed(s, name), NoneNamed(t, name) PROVE TwoNamed(u, name)
  <2>1. PICK i \in DOMAIN s, k \in DOMAIN s :
               /\ i # k /\ s[i].name = name /\ s[k].name = name
               /\ \A j \in DOMAIN s : s[j].name = name => j \in {i, k}
    BY <1>6 DEF TwoNamed
  <2>2. i \in DOMAIN u /\ u[i] = s[i] /\ k \in DOMAIN u /\ u[k] = s[k]
    BY <1>1, <1>2
  <2>3. ASSUME NEW j \in DOMAIN u, u[j].name = name PROVE j \in {i, k}
    <3>1. j \in DOMAIN s
      BY <1>4, <1>6, <2>3 DEF NoneNamed
    <3>. QED  BY <1>1, <1>2, <2>1, <2>3, <3>1
  <2>. QED  BY <2>1, <2>2, <2>3 DEF TwoNamed
<1>. QED  BY <1>5, <1>6 DEF u

(* The lists of a decoder hold no transfer but the two that are put in.        *)
LEMMA PartsWithoutTransfer ==
  ASSUME NEW infos, NEW tp, NEW rows, NEW q, NEW kv, NEW heads
  PROVE  /\ NoneNamed(Projection(infos, tp, rows), "comm_x2g")
         /\ NoneNamed(Attention(infos, q, kv, heads), "comm_x2g")
         /\ NoneNamed(Output(infos, tp, rows), "comm_x2g")
         /\ NoneNamed(FeedForward(infos, tp, rows), "comm_x2g")
         /\ NoneNamed(Closing(infos, rows), "comm_x2g")
<1>1. NoneNamed(Projection(infos, tp, rows), "comm_x2g")
  BY DEF Projection, NoneNamed, Layer
<1>2. NoneNamed(Attention(infos, q, kv, heads), "comm_x2g")
  BY DEF Attention, NoneNamed, Layer
<1>3. NoneNamed(Output(infos, tp, rows), "comm_x2g")
  BY DEF Output, NoneNamed, Layer
<1>4. NoneNamed(FeedForward(infos, tp, rows), "comm_x2g")
  BY DEF FeedForward, NoneNamed, Layer
<1>5. NoneNamed(Closing(infos, rows), "comm_x2g")
  BY DEF Closing, NoneNamed, Layer
<1>. QED  BY <1>1, <1>2, <1>3, <1>4, <1>5

(* A decoder whose attention is elsewhere moves keys and values twice.       *)
LEMMA TwoTransfers ==
  ASSUME NEW infos \in Models, NEW tp \in Shares(infos), NEW c \in Calls, NEW stage \in Nat
  PROVE  TwoNamed(GenDecoder(infos, tp, c.batch, c.lin, stage, TRUE), "comm_x2g")
<1>1. /\ c.batch \in Positive /\ c.lin \in Positive /\ 1 \in Positive
  BY SimulationAssumption DEF Positive
<1> DEFINE x == X2G(infos, c.batch, 3 * PerGpu(infos, tp), 1)
           y == X2G(infos, 1, HeadDim(infos), HeadsPerGpu(infos, tp) * c.batch)
           kv == c.lin + stage
           one == 1
           before == <<x>>
           after == <<y>>
           a == Projection(infos, tp, c.batch)
           b == Attention(infos, one, kv, HeadsPerGpu(infos, tp) * c.batch)
           o == Output(infos, tp, c.batch)
           d == FeedForward(infos, tp, c.batch)
           e == Closing(infos, c.batch)
<1>2. x \in LayerRec /\ y \in LayerRec
  <2>1. ASSUME NEW m \in Positive, NEW n \in Positive, NEW k \in Positive
        PROVE X2G(infos, m, n, k) \in LayerRec
    <3>1. "X2G" \in LayerTypes /\ "comm_x2g" \in LayerNames
      BY DEF LayerTypes, LayerNames
    <3>. QED  BY <1>1, <3>1, LayerType DEF X2G
  <2>2. /\ 3 * PerGpu(infos, tp) \in Positive
        /\ HeadDim(infos) \in Positive /\ HeadsPerGpu(infos, tp) * c.batch \in Positive
    <3>1. 3 \in Positive
      BY DEF Positive
    <3>. QED  BY <1>1, <3>1, Widths, TimesType
  <2>. QED  BY <1>1, <2>1, <2>2
<1>3. /\ before \in Seq(LayerRec) /\ after \in Seq(LayerRec)
      /\ OneNamed(before, "comm_x2g", "X2G") /\ OneNamed(after, "comm_x2g", "X2G")
  <2>1. /\ x.name = "comm_x2g" /\ y.name = "comm_x2g" /\ x.type = "X2G" /\ y.type = "X2G"
    BY FieldsOfLayer DEF X2G
  <2> HIDE DEF x, y
  <2>. QED  BY <1>2, <2>1 DEF OneNamed
<1>4. kv \in Positive /\ one \in Positive
  BY <1>1 DEF Positive
<1>5. GenDecoder(infos, tp, c.batch, c.lin, stage, TRUE)
        = a \o before \o b \o after \o o \o d \o e
  BY DEF GenDecoder, Decoder, Projection, Attention, Output, Closing
<1> HIDE DEF before, after, kv, one
<1>6. /\ a \in Seq(LayerRec) /\ b \in Seq(LayerRec) /\ o \in Seq(LayerRec) /\ d \in Seq(LayerRec)
      /\ e \in Seq(LayerRec)
  BY <1>1, <1>4, DecoderParts, Zenon
<1>7. /\ NoneNamed(a, "comm_x2g") /\ NoneNamed(b, "comm_x2g") /\ NoneNamed(o, "comm_x2g")
      /\ NoneNamed(d, "comm_x2g") /\ NoneNamed(e, "comm_x2g")
  BY PartsWithoutTransfer
<1> HIDE DEF a, b, o, d, e
<1> DEFINE s1 == a \o before
           s2 == s1 \o b
           s3 == s2 \o after
           s4 == s3 \o o
           s5 == s4 \o d
<1>8. s1 \in Seq(LayerRec) /\ OneNamed(s1, "comm_x2g", "X2G")
  BY <1>3, <1>6, <1>7, JoinNames
<1> HIDE DEF s1
<1>9. s2 \in Seq(LayerRec) /\ OneNamed(s2, "comm_x2g", "X2G")
  BY <1>6, <1>7, <1>8, JoinNames
<1> HIDE DEF s2
<1>10. s3 \in Seq(LayerRec) /\ TwoNamed(s3, "comm_x2g")
  BY <1>3, <1>9, JoinNames, JoinTwoNamed
<1> HIDE DEF s3
<1>11. s4 \in Seq(LayerRec) /\ TwoNamed(s4, "comm_x2g")
  BY <1>6, <1>7, <1>10, JoinNames, JoinTwoNamed
<1> HIDE DEF s4
<1>12. s5 \in Seq(LayerRec) /\ TwoNamed(s5, "comm_x2g")
  BY <1>6, <1>7, <1>11, JoinNames, JoinTwoNamed
<1> HIDE DEF s5
<1>13. TwoNamed(s5 \o e, "comm_x2g")
  BY <1>6, <1>7, <1>12, JoinTwoNamed
<1>. QED  BY <1>5, <1>13 DEF s1, s2, s3, s4, s5

---------------------------------------------------------------------------
(* The layers that are built can be told by their keys.                       *)

(* Every GPU has two columns at least, and two heads to compute, or else       *)
(* neither the width of a head nor a length of the sequences is the width of a *)
(* model: a score of one head could be taken for a projection, or a projection *)
(* for a score.                                                             *)
Apart(infos, n, batch, kv) ==
  /\ PerGpu(infos, n) > 1
  /\ HeadsPerGpu(infos, n) * batch > 1 \/ (HeadDim(infos) \notin Hdims /\ kv \notin Hdims)
KeysApart ==
  \A infos \in Models, n \in GpuCounts, c \in Calls :
    \A kv \in c.lin..(c.lin + c.lout) : Apart(infos, n, c.batch, kv)

(* What is told of the layers of a model: its scores are as wide as its heads. *)
ToldAt(l, w) == Told(l) /\ (IsScore(l) => l.k = w)
AllTold(block, w) == \A i \in DOMAIN block : ToldAt(block[i], w)

LEMMA JoinTold ==
  ASSUME NEW s \in Seq(LayerRec), NEW t \in Seq(LayerRec), NEW w, AllTold(s, w), AllTold(t, w)
  PROVE  s \o t \in Seq(LayerRec) /\ AllTold(s \o t, w)
<1> DEFINE u == s \o t
           m == Len(s)
           n == Len(t)
<1>1. /\ u \in Seq(LayerRec) /\ m \in Nat /\ n \in Nat
      /\ DOMAIN s = 1..m /\ DOMAIN t = 1..n /\ DOMAIN u = 1..(m + n)
  BY ConcatProperties, LenProperties
<1>2. \A i \in 1..m : u[i] = s[i]
  BY ConcatProperties, LenProperties
<1>3. \A i \in 1..n : u[m + i] = t[i]
  BY <1>1, ConcatProperties
<1> HIDE DEF u, m, n
<1>4. ASSUME NEW i \in DOMAIN u PROVE ToldAt(u[i], w)
  <2>1. CASE i \in 1..m
    BY <1>1, <1>2, <2>1 DEF AllTold
  <2>2. CASE i \notin 1..m
    <3>1. i - m \in 1..n /\ m + (i - m) = i
      BY <1>1, <2>2
    <3>2. u[i] = t[i - m]
      BY <1>3, <3>1
    <3>. QED  BY <1>1, <3>1, <3>2 DEF AllTold
  <2>. QED  BY <2>1, <2>2
<1>. QED  BY <1>1, <1>4 DEF AllTold, u

(* Which layers are: those with weights and the width of a model, those with    *)
(* several heads or without such a width, and those with one column.          *)
LEMMA LayerTold ==
  ASSUME NEW infos, NEW name, NEW m, NEW n
  PROVE  /\ \A k \in Nat : k >= 2 /\ (n \in Hdims \/ k \in Hdims)
              => ToldAt(Layer(infos, name, "FC", m, n, k, 1), HeadDim(infos))
         /\ \A k, numOp \in Nat :
              /\ numOp >= 2 \/ (n \notin Hdims /\ k \notin Hdims)
              /\ name = "score" => k = HeadDim(infos)
              => ToldAt(Layer(infos, name, "MATMUL", m, n, k, numOp), HeadDim(infos))
         /\ \A numOp, type : type \notin {"FC", "MATMUL"}
              => ToldAt(Layer(infos, name, type, m, n, 1, numOp), HeadDim(infos))
BY DEF Told, ToldAt, IsScore, Layer

(* So are the layers of each part of a decoder ...                           *)
LEMMA PartsTold ==
  ASSUME NEW infos \in Models, NEW tp \in GpuCounts, NEW batch \in Positive,
         NEW rows, NEW q, NEW kv \in Positive, Apart(infos, tp, batch, kv)
  PROVE  /\ AllTold(Projection(infos, tp, rows), HeadDim(infos))
         /\ AllTold(Attention(infos, q, kv, HeadsPerGpu(infos, tp) * batch), HeadDim(infos))
         /\ AllTold(Output(infos, tp, rows), HeadDim(infos))
         /\ AllTold(FeedForward(infos, tp, rows), HeadDim(infos))
         /\ AllTold(Closing(infos, rows), HeadDim(infos))
<1> DEFINE heads == HeadsPerGpu(infos, tp) * batch
           inner == infos.ff * PerGpu(infos, tp)
           width == PerGpu(infos, tp)
           hdim == infos.hdim
<1>1. /\ infos.heads \in Nat \ {0} /\ infos.hdim \in Nat /\ tp \in Nat \ {0} /\ infos.ff \in Nat \ {0}
  BY SimulationAssumption DEF Infos
<1>2. hdim \div tp \in Nat /\ hdim % tp \in 0..(tp - 1) /\ hdim = tp * (hdim \div tp) + (hdim % tp)
  BY <1>1, Remainder
<1>3. ASSUME NEW a \in Nat, a >= 2, NEW b \in Nat \ {0} PROVE a * b \in Nat /\ a * b >= 2
  <2>1. a * b \in Nat /\ a * b >= a * 1
    BY <1>3
  <2>. QED  BY <1>3, <2>1
<1>5. width \in Nat /\ width >= 2
  BY <1>2 DEF PerGpu, Apart
<1>4. hdim \in Nat /\ hdim >= 2 /\ hdim \in Hdims
  <2>1. hdim \in Hdims
    BY DEF Hdims
  <2>2. width * tp \in Nat /\ width * tp >= 2
    BY <1>1, <1>3, <1>5
  <2>3. hdim >= tp * width
    BY <1>1, <1>2 DEF PerGpu
  <2>4. tp * width = width * tp
    BY <1>1, <1>5
  <2> HIDE DEF hdim, width
  <2>5. hdim \in Nat
    BY <1>1 DEF hdim
  <2>. QED  BY <1>1, <1>5, <2>1, <2>2, <2>3, <2>4, <2>5
<1>6. /\ heads \in Nat
      /\ heads >= 2 \/ (HeadDim(infos) \notin Hdims /\ kv \notin Hdims)
  <2>1. HeadsPerGpu(infos, tp) \in Nat
    BY <1>1, Remainder DEF HeadsPerGpu
  <2>2. heads \in Nat
    BY <2>1 DEF Positive
  <2>3. heads > 1 \/ (HeadDim(infos) \notin Hdims /\ kv \notin Hdims)
    BY DEF Apart
  <2> HIDE DEF heads
  <2>. QED  BY <2>2, <2>3
<1>7. inner \in Nat /\ inner >= 2
  <2>1. width * infos.ff \in Nat /\ width * infos.ff >= 2
    BY <1>1, <1>3, <1>5
  <2>2. infos.ff * width = width * infos.ff
    BY <1>1, <1>5
  <2>. QED  BY <2>1, <2>2
<1>8. HeadDim(infos) \in Nat /\ kv \in Nat /\ 1 \in Nat
  <2>1. infos.hdim \div infos.heads \in Nat
    BY <1>1
  <2>. QED  BY <2>1 DEF HeadDim, Positive
<1>9. \A type \in {"ACT", "NORM", "G2G", "SOFTMAX"} : type \notin {"FC", "MATMUL"}
  OBVIOUS
<1> HIDE DEF heads, inner, width, hdim
<1>10. AllTold(Projection(infos, tp, rows), HeadDim(infos))
  <2> DEFINE a == Layer(infos, "qkv", "FC", rows, 3 * width, hdim, 1)
  <2>1. ToldAt(a, HeadDim(infos))
    BY <1>4, LayerTold
  <2>2. Projection(infos, tp, rows) = <<a>>
    BY DEF Projection, width, hdim
  <2> HIDE DEF a
  <2>. QED  BY <2>1, <2>2 DEF AllTold
<1>11. AllTold(Attention(infos, q, kv, heads), HeadDim(infos))
  <2> DEFINE a == Layer(infos, "score", "MATMUL", q, kv, HeadDim(infos), heads)
             b == Layer(infos, "softmax", "SOFTMAX", q, kv, 1, heads)
             c == Layer(infos, "context", "MATMUL", q, HeadDim(infos), kv, heads)
  <2>1. ToldAt(a, HeadDim(infos)) /\ ToldAt(b, HeadDim(infos)) /\ ToldAt(c, HeadDim(infos))
    <3>1. "context" # "score"
      OBVIOUS
    <3>. QED  BY <1>6, <1>8, <1>9, <3>1, LayerTold
  <2>2. Attention(infos, q, kv, heads) = <<a, b, c>>
    BY DEF Attention
  <2> HIDE DEF a, b, c
  <2>. QED  BY <2>1, <2>2 DEF AllTold
<1>12. AllTold(Output(infos, tp, rows), HeadDim(infos))
  <2> DEFINE a == Layer(infos, "proj", "FC", rows, hdim, width, 1)
             b == Layer(infos, "comm_g2g", "G2G", rows, hdim, 1, 1)
             c == Layer(infos, "norm1", "NORM", rows, hdim, 1, 1)
  <2>1. ToldAt(a, HeadDim(infos)) /\ ToldAt(b, HeadDim(infos)) /\ ToldAt(c, HeadDim(infos))
    BY <1>4, <1>5, <1>9, LayerTold
  <2>2. Output(infos, tp, rows) = <<a, b, c>>
    BY DEF Output, width, hdim
  <2> HIDE DEF a, b, c
  <2>. QED  BY <2>1, <2>2 DEF AllTold
<1>13. AllTold(Closing(infos, rows), HeadDim(infos))
  <2> DEFINE b == Layer(infos, "comm_g2g", "G2G", rows, hdim, 1, 1)
             c == Layer(infos, "norm2", "NORM", rows, hdim, 1, 1)
  <2>1. ToldAt(b, HeadDim(infos)) /\ ToldAt(c, HeadDim(infos))
    BY <1>9, LayerTold
  <2>2. Closing(infos, rows) = <<b, c>>
    BY DEF Closing, hdim
  <2> HIDE DEF b, c
  <2>. QED  BY <2>1, <2>2 DEF AllTold
<1>14. AllTold(FeedForward(infos, tp, rows), HeadDim(infos))
  <2> DEFINE up(name) == Layer(infos, name, "FC", rows, inner, hdim, 1)
             act(name) == Layer(infos, name, "ACT", rows, inner, 1, 1)
             down(name) == Layer(infos, name, "FC", rows, hdim, inner, 1)
  <2>1. \A name : /\ ToldAt(up(name), HeadDim(infos)) /\ ToldAt(act(name), HeadDim(infos))
                  /\ ToldAt(down(name), HeadDim(infos))
    BY <1>4, <1>7, <1>9, LayerTold
  <2>2. FeedForward(infos, tp, rows) \in {<<up("ff1"), up("ff2"), act("glu"), down("ff3")>>,
                                          <<up("ff1"), act("relu"), down("ff2")>>,
                                          <<up("ff1"), act("gelu"), down("ff2")>>}
    BY DEF FeedForward, inner, width, hdim
  <2> HIDE DEF up, act, down
  <2>. QED  BY <2>1, <2>2 DEF AllTold
<1>. QED  BY <1>10, <1>11, <1>12, <1>13, <1>14 DEF heads

(* ... those of a decoder ...                                                *)
LEMMA DecoderTold ==
  ASSUME NEW infos \in Models, NEW tp \in GpuCounts, NEW batch \in Positive,
         NEW rows \in Positive, NEW q \in Positive, NEW kv \in Positive, Apart(infos, tp, batch, kv),
         NEW before \in Seq(LayerRec), NEW after \in Seq(LayerRec), AllTold(before, HeadDim(infos)), AllTold(after, HeadDim(infos))
  PROVE  AllTold(Decoder(infos, tp, batch, rows, q, kv, before, after), HeadDim(infos))
<1> DEFINE a == Projection(infos, tp, rows)
           b == Attention(infos, q, kv, HeadsPerGpu(infos, tp) * batch)
           c == Output(infos, tp, rows)
           d == FeedForward(infos, tp, rows)
           e == Closing(infos, rows)
<1>1. Decoder(infos, tp, batch, rows, q, kv, before, after)
           = a \o before \o b \o after \o c \o d \o e
  BY DEF Decoder, Projection, Attention, Output, Closing
<1>2. /\ a \in Seq(LayerRec) /\ b \in Seq(LayerRec) /\ c \in Seq(LayerRec) /\ d \in Seq(LayerRec)
      /\ e \in Seq(LayerRec)
  <2>1. tp \in Shares(infos)
    BY GpusShare
  <2>. QED  BY <2>1, DecoderParts, Zenon
<1>3. AllTold(a, HeadDim(infos)) /\ AllTold(b, HeadDim(infos)) /\ AllTold(c, HeadDim(infos)) /\ AllTold(d, HeadDim(infos)) /\ AllTold(e, HeadDim(infos))
  BY PartsTold
<1> HIDE DEF a, b, c, d, e
<1> DEFINE s1 == a \o before
           s2 == s1 \o b
           s3 == s2 \o after
           s4 == s3 \o c
           s5 == s4 \o d
<1>4. s1 \in Seq(LayerRec) /\ AllTold(s1, HeadDim(infos))
  BY <1>2, <1>3, JoinTold
<1> HIDE DEF s1
<1>5. s2 \in Seq(LayerRec) /\ AllTold(s2, HeadDim(infos))
  BY <1>2, <1>3, <1>4, JoinTold
<1> HIDE DEF s2
<1>6. s3 \in Seq(LayerRec) /\ AllTold(s3, HeadDim(infos))
  BY <1>5, JoinTold
<1> HIDE DEF s3
<1>7. s4 \in Seq(LayerRec) /\ AllTold(s4, HeadDim(infos))
  BY <1>2, <1>3, <1>6, JoinTold
<1> HIDE DEF s4
<1>8. s5 \in Seq(LayerRec) /\ AllTold(s5, HeadDim(infos))
  BY <1>2, <1>3, <1>7, JoinTold
<1> HIDE DEF s5
<1>9. AllTold(s5 \o e, HeadDim(infos))
  BY <1>2, <1>3, <1>8, JoinTold
<1>. QED  BY <1>1, <1>9 DEF s1, s2, s3, s4, s5

(* A list of one transfer, or none.                                          *)
LEMMA TransferTold ==
  ASSUME NEW infos \in Models, NEW m \in Positive, NEW n \in Positive, NEW numOp \in Positive,
         NEW remote \in BOOLEAN
  PROVE  LET list == IF remote THEN <<X2G(infos, m, n, numOp)>> ELSE <<>>
         IN list \in Seq(LayerRec) /\ AllTold(list, HeadDim(infos))
<1> DEFINE x == X2G(infos, m, n, numOp)
<1>1. x \in LayerRec
  <2>1. "X2G" \in LayerTypes /\ "comm_x2g" \in LayerNames /\ 1 \in Positive
    BY DEF LayerTypes, LayerNames, Positive
  <2>. QED  BY <2>1, LayerType DEF X2G
<1>2. ToldAt(x, HeadDim(infos))
  <2>1. "X2G" \notin {"FC", "MATMUL"}
    OBVIOUS
  <2>. QED  BY <2>1, LayerTold DEF X2G
<1> HIDE DEF x
<1>. QED  BY <1>1, <1>2 DEF AllTold, x

(* ... and all that are built.                                               *)
LEMMA DecodersTold ==
  ASSUME KeysApart, NEW infos \in Models, NEW tp \in GpuCounts, NEW c \in Calls,
         NEW remote \in BOOLEAN, NEW stage \in 0..c.lout
  PROVE  /\ AllTold(SumDecoder(infos, tp, c.batch, c.lin, remote), HeadDim(infos))
         /\ AllTold(GenDecoder(infos, tp, c.batch, c.lin, stage, remote), HeadDim(infos))
<1>1. /\ c.batch \in Positive /\ c.lin \in Positive /\ 1 \in Positive /\ 2 \in Positive /\ 3 \in Positive
  BY SimulationAssumption DEF Positive
<1>2. /\ c.batch * c.lin \in Positive /\ c.lin + stage \in Positive
      /\ 2 * PerGpu(infos, tp) \in Positive /\ 3 * PerGpu(infos, tp) \in Positive
      /\ HeadDim(infos) \in Positive /\ HeadsPerGpu(infos, tp) * c.batch \in Positive
  <2>1. tp \in Shares(infos)
    BY GpusShare
  <2>2. c.lin + stage \in Positive
    <3>1. c.lout \in Nat /\ stage \in Nat
      BY SimulationAssumption
    <3>. QED  BY <1>1, <3>1 DEF Positive
  <2>. QED  BY <1>1, <2>1, <2>2, Widths, TimesType
<1> DEFINE none == <<>>
           first == IF remote THEN <<X2G(infos, c.batch * c.lin, 2 * PerGpu(infos, tp), 1)>> ELSE <<>>
           before == IF remote THEN <<X2G(infos, c.batch, 3 * PerGpu(infos, tp), 1)>> ELSE <<>>
           after == IF remote THEN <<X2G(infos, 1, HeadDim(infos), HeadsPerGpu(infos, tp) * c.batch)>>
                    ELSE <<>>
           rows == c.batch * c.lin
           kv == c.lin + stage
           one == 1
           batch == c.batch
           lin == c.lin
<1>3. /\ first \in Seq(LayerRec) /\ AllTold(first, HeadDim(infos)) /\ before \in Seq(LayerRec) /\ AllTold(before, HeadDim(infos))
      /\ after \in Seq(LayerRec) /\ AllTold(after, HeadDim(infos))
  BY <1>1, <1>2, TransferTold
<1>4. none \in Seq(LayerRec) /\ AllTold(none, HeadDim(infos))
  BY DEF AllTold
<1>5. SumDecoder(infos, tp, c.batch, c.lin, remote) = Decoder(infos, tp, batch, rows, lin, lin, first, none)
  BY DEF SumDecoder
<1>6. GenDecoder(infos, tp, c.batch, c.lin, stage, remote)
        = Decoder(infos, tp, batch, batch, one, kv, before, after)
  BY DEF GenDecoder
<1>7. batch \in Positive /\ rows \in Positive /\ lin \in Positive /\ kv \in Positive /\ one \in Positive
  BY <1>1, <1>2
<1>10. Apart(infos, tp, batch, lin) /\ Apart(infos, tp, batch, kv)
  <2>1. c.lout \in Nat /\ c.lin \in Nat
    BY SimulationAssumption
  <2>2. lin \in c.lin..(c.lin + c.lout) /\ kv \in c.lin..(c.lin + c.lout)
    BY <2>1
  <2>. QED  BY <2>2 DEF KeysApart
<1> HIDE DEF none, first, before, after, rows, kv, one, batch, lin
<1>8. AllTold(Decoder(infos, tp, batch, rows, lin, lin, first, none), HeadDim(infos))
  BY <1>3, <1>4, <1>7, <1>10, DecoderTold
<1>9. AllTold(Decoder(infos, tp, batch, batch, one, kv, before, after), HeadDim(infos))
  BY <1>3, <1>7, <1>10, DecoderTold
<1>. QED  BY <1>5, <1>6, <1>8, <1>9

---------------------------------------------------------------------------
(* The layers of the first batch, as new devices would time them.             *)

FirstBatch == Calling /\ work.itr = 1

(* The devices as they were made, and what makes up the configuration.        *)
NewOwn == AsNew(gpu)
NewOther == AsNew(Acc)

NewSum == On(NewOwn, NewOwn, BuiltSum)
NewGen == [s \in DOMAIN BuiltGen |-> On(NewOwn, NewOther, BuiltGen[s])]
StageTimes == [s \in DOMAIN BuiltGen |-> BlockTime(NewOwn, NewOther, NewGen[s], TheConfig, call)]

EnergyWorth == [l \in LayerRec |-> TotalEnergy(l.energy)]

(* A device as new is a device.                                              *)
LEMMA NewIsReady ==
  ASSUME NEW d, XpuOK(d) \/ PimOK(d)
  PROVE  /\ XpuOK(d) => XpuOK(AsNew(d))
         /\ PimOK(d) => PimOK(AsNew(d))
         /\ AsNew(d).config = d.config /\ AsNew(d).num = d.num
<1>1. CASE PimOK(d)
  <2>1. AsNew(d) = PIM(d.config, d.dhead, {}) /\ ~XpuOK(d)
    BY <1>1, PimKind, XpuIsNoPim DEF AsNew
  <2>. QED  BY <1>1, <2>1 DEF PimOK, IsPIM, PIM
<1>2. CASE XpuOK(d)
  <2>1. d.config.kind # "PIM"
    BY <1>2, XpuIsNoPim
  <2>2. AsNew(d) = XPU(d.config, d.num)
    BY <2>1 DEF AsNew
  <2>3. XpuOK(AsNew(d)) /\ AsNew(d).config = d.config /\ AsNew(d).num = d.num
    BY <1>2, <2>2 DEF XPU, XpuOK, IsXPU
  <2>. QED  BY <2>1, <2>3, PimKind
<1>. QED  BY <1>1, <1>2

(* The layers of a list that new devices time.                                *)
LEMMA OnLayers ==
  ASSUME SimulatorAnswers, SimulatorInQuanta, NEW own, NEW other, DevicesReady(own, other),
         NEW layers \in Seq(LayerRec)
  PROVE  /\ On(own, other, layers) \in Seq(LayerRec)
         /\ DOMAIN On(own, other, layers) = DOMAIN layers /\ Len(On(own, other, layers)) = Len(layers)
         /\ \A i \in DOMAIN layers :
              LET l == On(own, other, layers)[i]
              IN /\ l = NewLayer(Device(own, other, layers[i]), layers[i])
                 /\ l.time \in Quanta /\ l.name = layers[i].name /\ l.type = layers[i].type
<1> DEFINE on == On(own, other, layers)
<1>1. on = [i \in DOMAIN layers |-> NewLayer(Device(own, other, layers[i]), layers[i])]
  BY DEF On, NewLayer, Device
<1>2. ASSUME NEW i \in DOMAIN layers
      PROVE  LET l == NewLayer(Device(own, other, layers[i]), layers[i])
             IN l \in LayerRec /\ l.time \in Quanta /\ l.name = layers[i].name /\ l.type = layers[i].type
  <2>1. layers[i] \in LayerRec
    BY LenProperties, ElementOfSeq
  <2>2. XpuOK(Device(own, other, layers[i])) \/ (PimOK(Device(own, other, layers[i])) /\ OnAcc(layers[i]))
    BY DEF DevicesReady, Device
  <2>. QED  BY <2>1, <2>2, NewLayerType
<1>3. on \in [DOMAIN layers -> LayerRec]
  BY <1>1, <1>2
<1>4. on \in Seq(LayerRec) /\ Len(on) = Len(layers)
  <2> HIDE DEF on
  <2>. QED  BY <1>3, ListOfLayers
<1>. QED  BY <1>1, <1>2, <1>4

---------------------------------------------------------------------------
(* The tables of the devices are right, whatever was asked before.             *)

RightInv == RightDevice(gpu) /\ RightDevice(Acc)

(* The figures that answer the call do not change while its layers are timed.  *)
ConfigurationKept ==
  /\ NewOwn' = NewOwn /\ NewOther' = NewOther /\ TheConfig' = TheConfig
  /\ BuiltSum' = BuiltSum /\ BuiltGen' = BuiltGen
  /\ NewSum' = NewSum /\ NewGen' = NewGen /\ StageTimes' = StageTimes

(* It is enough that the devices are the same but for their tables.          *)
LEMMA SameConfiguration ==
  ASSUME NewOwn' = NewOwn, NewOther' = NewOther, gpu'.num = gpu.num, Without(acc)' = Without(acc),
         hetero' = hetero, model' = model, call' = call
  PROVE  ConfigurationKept
<1>1. BuiltSum' = BuiltSum /\ BuiltGen' = BuiltGen
  BY BuiltKept
<1>2. TheConfig' = TheConfig
  BY DEF TheConfig
<1>3. NewSum' = NewSum /\ NewGen' = NewGen
  BY <1>1 DEF NewSum, NewGen
<1>4. StageTimes' = StageTimes
  BY <1>1, <1>2, <1>3 DEF StageTimes
<1>. QED  BY <1>1, <1>2, <1>3, <1>4 DEF ConfigurationKept

(* A device is asked for a layer, or it is left alone.                        *)
Asking(l) ==
  /\ gpu' \in {gpu, AfterCost(gpu, l)} /\ Acc' \in {Acc, AfterCost(Acc, l)}
  /\ acc = SameAsGpu <=> acc' = SameAsGpu
  /\ hetero' = hetero /\ model' = model /\ call' = call

(* Neither shows afterwards.                                                 *)
LEMMA AskedDevices ==
  ASSUME DevicesTyped, RightInv, NEW l \in LayerRec, Told(l), Asking(l)
  PROVE  RightInv' /\ ConfigurationKept
<1>1. ASSUME NEW d, RightDevice(d), NEW e \in {d, AfterCost(d, l)}
      PROVE  RightDevice(e) /\ AsNew(e) = AsNew(d)
  BY <1>1, AsGoodAsNew
<1>2. RightInv' /\ NewOwn' = NewOwn /\ NewOther' = NewOther
  <2>1. RightDevice(gpu') /\ AsNew(gpu') = AsNew(gpu)
    BY <1>1 DEF RightInv, Asking
  <2>2. RightDevice(Acc') /\ AsNew(Acc') = AsNew(Acc)
    BY <1>1 DEF RightInv, Asking
  <2>. QED  BY <2>1, <2>2 DEF RightInv, NewOwn, NewOther, RightDevice, RightTiles, XpuOK, PimOK
<1>3. gpu'.num = gpu.num
  <2>1. AfterCost(gpu, l).num = gpu.num
    BY XpuIsNoPim, WithTileOK DEF AfterCost, DevicesTyped
  <2>. QED  BY <2>1 DEF Asking
<1>4. Without(acc)' = Without(acc)
  <2>1. Without(acc) = (IF acc = SameAsGpu THEN acc ELSE NewOther)
    BY DEF Without, NewOther, AsNew, Acc
  <2>2. Without(acc)' = (IF acc' = SameAsGpu THEN acc' ELSE NewOther')
    BY DEF Without, NewOther, AsNew, Acc
  <2>. QED  BY <1>2, <2>1, <2>2 DEF Asking
<1>. QED  BY <1>2, <1>3, <1>4, SameConfiguration DEF Asking

(* Which every layer does that is timed.                                     *)
LEMMA SumLayerAsks ==
  ASSUME DevicesTyped, SumLayer
  PROVE  Asking(work.sum[work.at])
<1> DEFINE l == work.sum[work.at]
<1>1. gpu' = AfterCost(gpu, l) /\ acc' = acc /\ hetero' = hetero /\ model' = model /\ call' = call
  BY DEF SumLayer
<1>. QED  BY <1>1 DEF Asking, Acc

(* In the generation the one that is asked depends on the layer.             *)
LEMMA GenLayerAsks ==
  ASSUME DevicesTyped, GenLayer
  PROVE  Asking(work.gen[work.stage][work.at])
<1> DEFINE l == work.gen[work.stage][work.at]
<1>1. /\ \/ gpu' = AfterCost(gpu, l) /\ acc' = acc
         \/ acc # SameAsGpu /\ gpu' = gpu /\ acc' = AfterCost(acc, l)
      /\ hetero' = hetero /\ model' = model /\ call' = call
  BY DEF GenLayer
<1> HIDE DEF l
<1>2. ASSUME acc # SameAsGpu PROVE AfterCost(acc, l) # SameAsGpu
  <2>1. XpuOK(acc) \/ PimOK(acc)
    BY <1>2 DEF DevicesTyped
  <2>2. acc.config.kind # "NONE"
    <3>1. XpuOK(acc) => acc.config \in {GpuConfig, CpuConfig}
      BY DEF XpuOK, XpuConfigs
    <3>2. GpuConfig.kind # "NONE" /\ CpuConfig.kind # "NONE"
      BY SimulationAssumption
    <3>. QED  BY <2>1, <3>1, <3>2, PimKind
  <2>3. AfterCost(acc, l).config = acc.config
    BY <2>1, XpuIsNoPim, PimKind, AfterCostKeepsPim, AfterCostKeepsDevice DEF XpuOK, PimOK
  <2>4. SameAsGpu.config.kind = "NONE"
    BY DEF SameAsGpu
  <2>. QED  BY <2>2, <2>3, <2>4
<1>. QED  BY <1>1, <1>2 DEF Asking, Acc, l

(* The layers that are timed can be told by their keys.                      *)
LEMMA WorkTold ==
  ASSUME KeysApart, TypedInv, BuiltInv, Calling
  PROVE  /\ AllTold(BuiltSum, HeadDim(model.infos)) /\ \A s \in 1..Len(BuiltGen) : AllTold(BuiltGen[s], HeadDim(model.infos))
         /\ AllTold(work.sum, HeadDim(model.infos)) /\ \A s \in 1..Len(work.gen) : AllTold(work.gen[s], HeadDim(model.infos))
<1>1. /\ model # NoModel /\ ModelTyped /\ CallTyped /\ work \in WorkType
      /\ model.infos \in Models /\ model.tp \in GpuCounts /\ call \in Calls
      /\ Heterogeneous \in BOOLEAN /\ 0 \in 0..call.lout
  <2>1. call.lout \in Nat
    BY SimulationAssumption DEF TypedInv, CallTyped
  <2>. QED  BY <2>1, StagesReady, ModelIsReady DEF TypedInv, CallTyped, Heterogeneous
<1>2. AllTold(BuiltSum, HeadDim(model.infos))
  <2>1. AllTold(SumDecoder(model.infos, model.tp, call.batch, call.lin, Heterogeneous), HeadDim(model.infos))
    BY <1>1, DecodersTold
  <2>. QED  BY <2>1 DEF BuiltSum
<1>3. /\ Len(BuiltGen) \in Nat
      /\ \A s \in 1..Len(BuiltGen) : AllTold(BuiltGen[s], HeadDim(model.infos))
  <2> DEFINE g == BuiltGen
  <2>1. g \in Stages /\ Len(g) \in Nat
    BY <1>1, BuiltTypes
  <2>2. g = [stage \in 1..(call.lout - 1) |->
               GenDecoder(model.infos, model.tp, call.batch, call.lin, stage, Heterogeneous)]
    BY DEF BuiltGen, GenDecoders
  <2>3. ASSUME NEW s \in 1..(call.lout - 1) PROVE AllTold(g[s], HeadDim(model.infos))
    <3>1. s \in 0..call.lout
      BY <1>1, SimulationAssumption
    <3>2. AllTold(GenDecoder(model.infos, model.tp, call.batch, call.lin, s, Heterogeneous), HeadDim(model.infos))
      BY <1>1, <3>1, DecodersTold
    <3>3. g[s] = GenDecoder(model.infos, model.tp, call.batch, call.lin, s, Heterogeneous)
      BY <2>2
    <3>. QED  BY <3>2, <3>3
  <2>4. DOMAIN g = 1..(call.lout - 1)
    BY <2>2
  <2> HIDE DEF g
  <2>5. DOMAIN g = 1..Len(g)
    BY <2>1, LenProperties DEF Stages
  <2>. QED  BY <2>1, <2>3, <2>4, <2>5 DEF g
<1>4. ASSUME NEW s \in Decoders, NEW t \in Decoders, SameFigures(s, t), AllTold(t, HeadDim(model.infos)) PROVE AllTold(s, HeadDim(model.infos))
  <2>1. DOMAIN s = 1..Len(s) /\ DOMAIN t = 1..Len(t)
    BY LenProperties DEF Decoders
  <2>2. ASSUME NEW i \in DOMAIN s PROVE ToldAt(s[i], HeadDim(model.infos))
    <3>1. Bare(s[i]) = Bare(t[i]) /\ ToldAt(t[i], HeadDim(model.infos))
      BY <1>4, <2>1 DEF SameFigures, AllTold
    <3>2. /\ s[i].type = t[i].type /\ s[i].n = t[i].n /\ s[i].k = t[i].k /\ s[i].numOp = t[i].numOp
          /\ s[i].name = t[i].name
      BY <3>1, BareFigures
    <3>. QED  BY <3>1, <3>2 DEF Told, ToldAt, IsScore
  <2>. QED  BY <2>2 DEF AllTold
<1>5. /\ work.sum \in Decoders /\ work.gen \in Stages /\ \A s \in 1..Len(work.gen) : work.gen[s] \in Decoders
      /\ BuiltSum \in Decoders /\ \A s \in 1..Len(BuiltGen) : BuiltGen[s] \in Decoders
  BY <1>1, BuiltTypes, StagesReady DEF TypedInv, WorkType
<1>6. AllTold(work.sum, HeadDim(model.infos))
  BY <1>2, <1>4, <1>5 DEF BuiltInv
<1>7. \A s \in 1..Len(work.gen) : AllTold(work.gen[s], HeadDim(model.infos))
  BY <1>3, <1>4, <1>5 DEF BuiltInv
<1>. QED  BY <1>2, <1>3, <1>6, <1>7

---------------------------------------------------------------------------
(* What of the generation is promised of an answer.                           *)
SteadyTimes == "g_time" \in Promised(TheConfig)
SteadyEnergies == "g_energy" \in Promised(TheConfig)

(* It is what the simulator of a PIM device cannot change.                     *)
LEMMA PromisedMeans ==
  ASSUME DevicesTyped, Consistent
  PROVE  /\ SteadyEnergies => SteadyTimes
         /\ SteadyEnergies => ~Twice(Acc)
         /\ \A l : SteadyTimes /\ (IsScore(l) => l.k = HeadDim(model.infos)) => ~Odd(Acc, l)
         /\ "s_time" \in Promised(TheConfig)
         /\ Promised(TheConfig) \subseteq {"s_time", "g_time", "g_energy"}
<1>1. CASE hetero = "PIM"
  <2>1. acc.config.kind = "PIM" /\ acc # SameAsGpu
    BY <1>1 DEF Consistent, SameAsGpu
  <2>2. Acc = acc /\ Without(acc) = PIM(acc.config, acc.dhead, {})
    BY <2>1 DEF Acc, Without
  <2>3. Without(acc).dhead = acc.dhead /\ Without(acc).config = acc.config
    BY <2>2 DEF PIM
  <2>4. /\ TheConfig.hetero = "PIM" /\ TheConfig.acc.dhead = acc.dhead
        /\ TheConfig.acc.config = acc.config /\ TheConfig.model = model
    BY <1>1, <2>3 DEF TheConfig
  <2>. QED
    BY <2>1, <2>2, <2>4 DEF SteadyTimes, SteadyEnergies, Promised, Twice, Odd
<1>2. CASE hetero # "PIM"
  <2>1. TheConfig.hetero # "PIM"
    BY <1>2 DEF TheConfig
  <2>2. Acc.config.kind # "PIM"
    <3>1. acc.config.kind = "NONE" => gpu.config.kind # "PIM"
      BY XpuIsNoPim DEF DevicesTyped
    <3>2. gpu.config.kind # "PIM" /\ acc.config.kind # "PIM"
      BY <1>2, XpuIsNoPim DEF DevicesTyped, Consistent
    <3>. QED  BY <3>2 DEF Acc
  <2>. QED  BY <2>1, <2>2 DEF SteadyTimes, SteadyEnergies, Promised, Twice, Odd
<1>. QED  BY <1>1, <1>2

(* It stays what it is with the configuration.                               *)
LEMMA PromisedKept ==
  ASSUME ConfigurationKept
  PROVE  (SteadyTimes' <=> SteadyTimes) /\ (SteadyEnergies' <=> SteadyEnergies)
<1>1. TheConfig' = TheConfig
  BY DEF ConfigurationKept
<1>. QED  BY <1>1 DEF SteadyTimes, SteadyEnergies, Promised

(* The invariant of the first batch: a layer that was timed is as new devices  *)
(* time it, up to the waiting of a transfer, the others are as they were built; *)
(* the layers of an ended stage take the time of the stage in closed form; and *)
(* the energies so far are those of the layers so far, if they are promised.   *)

Like(l, b) == l.type = b.type /\ (l.type # "X2G" => l.time = b.time)

(* The same layer, and maybe another energy.                                 *)
ButEnergy(l, b) ==
  /\ l.name = b.name /\ l.type = b.type /\ l.dbyte = b.dbyte /\ l.bound = b.bound
  /\ l.time = b.time

PromptInv == \A i \in 1..Len(BuiltSum) :
  IF pc = "sum" /\ i >= work.at THEN work.sum[i] = BuiltSum[i]
  ELSE Like(work.sum[i], NewSum[i])

StagesInv == \A s \in 1..Len(BuiltGen) :
  /\ pc = "sum" \/ s > work.stage => work.gen[s] = BuiltGen[s]
  /\ pc # "sum" /\ s < work.stage /\ SteadyTimes =>
       SumFunction(TimesOf(work.gen[s])) = StageTimes[s]
  /\ pc = "gen" /\ s = work.stage => \A i \in 1..Len(BuiltGen[s]) :
       IF i >= work.at THEN work.gen[s][i] = BuiltGen[s][i]
       ELSE /\ SteadyTimes => ButEnergy(work.gen[s][i], NewGen[s][i])
            /\ SteadyEnergies => work.gen[s][i] = NewGen[s][i]

StageEnergies(g, k) == SumFunction([i \in 1..k |-> Total(EnergyWorth, g[i])])

EnergySoFar ==
  CASE pc = "sum" -> 0
    [] pc = "gen" -> StageEnergies(NewGen, work.stage - 1)
                       + UpTo(EnergyWorth, NewGen[work.stage], work.at - 1)
    [] OTHER -> StageEnergies(NewGen, Len(NewGen))

FirstBatchInv == FirstBatch =>
  /\ PromptInv /\ StagesInv
  /\ SteadyEnergies => work.all = EnergySoFar
  /\ pc = "report" => work.stage = Len(BuiltGen) + 1

UnmadeInv == pc = "none" => answer = {}

AsNewInv == RightInv /\ FirstBatchInv /\ UnmadeInv

(* The layers that are timed by new devices, and the stages they make up.      *)
LEMMA NewLayers ==
  ASSUME SimulatorAnswers, SimulatorInQuanta, TypedInv, model # NoModel
  PROVE  /\ NewSum \in Decoders /\ Len(NewSum) = Len(BuiltSum)
         /\ \A i \in 1..Len(BuiltSum) : NewSum[i] = NewLayer(NewOwn, BuiltSum[i])
         /\ NewGen \in Stages /\ Len(NewGen) = Len(BuiltGen) /\ DOMAIN NewGen = 1..Len(BuiltGen)
         /\ \A s \in 1..Len(BuiltGen) :
              /\ NewGen[s] \in Decoders /\ Len(NewGen[s]) = Len(BuiltGen[s])
              /\ DOMAIN NewGen[s] = 1..Len(BuiltGen[s]) /\ DOMAIN BuiltGen[s] = 1..Len(BuiltGen[s])
              /\ \A i \in 1..Len(BuiltGen[s]) :
                   LET b == BuiltGen[s][i]
                       l == NewGen[s][i]
                   IN /\ l = NewLayer(Device(NewOwn, NewOther, b), b)
                      /\ l.time \in Quanta /\ l.name = b.name /\ l.type = b.type
<1>1. /\ BuiltSum \in Decoders /\ BuiltGen \in Stages /\ Len(BuiltGen) \in Nat
      /\ \A s \in 1..Len(BuiltGen) : BuiltGen[s] \in Decoders
      /\ DOMAIN BuiltGen = 1..Len(BuiltGen) /\ DOMAIN BuiltSum = 1..Len(BuiltSum)
      /\ \A s \in 1..Len(BuiltGen) : DOMAIN BuiltGen[s] = 1..Len(BuiltGen[s])
  <2>1. /\ BuiltSum \in Decoders /\ BuiltGen \in Stages /\ Len(BuiltGen) \in Nat
        /\ \A s \in 1..Len(BuiltGen) : BuiltGen[s] \in Decoders
    BY BuiltTypes DEF TypedInv
  <2>. QED  BY <2>1, LenProperties DEF Decoders, Stages
<1>2. DevicesReady(NewOwn, NewOwn) /\ DevicesReady(NewOwn, NewOther)
  <2>1. DevicesReady(gpu, Acc)
    BY DevicesAreReady DEF TypedInv
  <2>. QED  BY <2>1, NewIsReady DEF DevicesReady, NewOwn, NewOther
<1>3. /\ NewSum \in Decoders /\ Len(NewSum) = Len(BuiltSum)
      /\ \A i \in 1..Len(BuiltSum) : NewSum[i] = NewLayer(NewOwn, BuiltSum[i])
  BY <1>1, <1>2, OnLayers DEF NewSum, Decoders, Device
<1>4. /\ DOMAIN NewGen = 1..Len(BuiltGen)
      /\ \A s \in 1..Len(BuiltGen) : NewGen[s] = On(NewOwn, NewOther, BuiltGen[s])
  BY <1>1 DEF NewGen
<1>5. ASSUME NEW s \in 1..Len(BuiltGen)
      PROVE  /\ NewGen[s] \in Decoders /\ Len(NewGen[s]) = Len(BuiltGen[s])
             /\ DOMAIN NewGen[s] = DOMAIN BuiltGen[s]
             /\ \A i \in 1..Len(BuiltGen[s]) :
                  LET b == BuiltGen[s][i]
                      l == NewGen[s][i]
                  IN /\ l = NewLayer(Device(NewOwn, NewOther, b), b)
                     /\ l.time \in Quanta /\ l.name = b.name /\ l.type = b.type
  <2> DEFINE block == BuiltGen[s]
  <2>1. block \in Seq(LayerRec) /\ DOMAIN block = 1..Len(block) /\ NewGen[s] = On(NewOwn, NewOther, block)
    BY <1>1, <1>4 DEF Decoders
  <2> HIDE DEF block
  <2>2. /\ NewGen[s] \in Decoders /\ Len(NewGen[s]) = Len(block)
        /\ DOMAIN NewGen[s] = DOMAIN block
        /\ \A i \in DOMAIN block :
             LET l == NewGen[s][i]
             IN /\ l = NewLayer(Device(NewOwn, NewOther, block[i]), block[i])
                /\ l.time \in Quanta /\ l.name = block[i].name /\ l.type = block[i].type
    BY <1>2, <2>1, OnLayers DEF Decoders
  <2>. QED  BY <2>1, <2>2 DEF block
<1>6. NewGen \in Stages /\ Len(NewGen) = Len(BuiltGen)
  <2>1. NewGen \in [1..Len(BuiltGen) -> Decoders]
    <3>1. NewGen = [s \in 1..Len(BuiltGen) |-> NewGen[s]]
      BY <1>1, <1>4 DEF NewGen
    <3>. QED  BY <1>5, <3>1
  <2>. QED  BY <1>1, <2>1, SeqDef, LenProperties DEF Stages
<1>. QED  BY <1>1, <1>3, <1>4, <1>5, <1>6

(* A device gives a layer the cost that a new one would, as far as promised.   *)
LEMMA TimedAsNew ==
  ASSUME RightInv, DevicesTyped, Consistent, NEW l \in LayerRec, ToldAt(l, HeadDim(model.infos))
  PROVE  /\ Timed(l, Cost(AfterCost(gpu, l), l)) = NewLayer(NewOwn, l)
         /\ LET d == Device(gpu, Acc, l)
                x == Timed(l, Cost(AfterCost(d, l), l))
                y == NewLayer(Device(NewOwn, NewOther, l), l)
            IN (SteadyTimes => ButEnergy(x, y)) /\ (SteadyEnergies => x = y)
<1>1. ASSUME NEW d, RightDevice(d), XpuOK(d)
      PROVE  Timed(l, Cost(AfterCost(d, l), l)) = NewLayer(AsNew(d), l)
  BY <1>1, AsGoodAsNew DEF NewLayer, ToldAt
<1>2. RightDevice(gpu) /\ RightDevice(Acc) /\ XpuOK(gpu)
  BY DEF RightInv, DevicesTyped
<1>3. CASE ~OnAcc(l) \/ XpuOK(Acc)
  <2>1. XpuOK(Device(gpu, Acc, l)) /\ RightDevice(Device(gpu, Acc, l))
    BY <1>2, <1>3 DEF Device
  <2>2. AsNew(Device(gpu, Acc, l)) = Device(NewOwn, NewOther, l)
    BY DEF Device, NewOwn, NewOther
  <2>. QED  BY <1>1, <1>2, <2>1, <2>2 DEF NewOwn, ButEnergy
<1>4. CASE OnAcc(l) /\ ~XpuOK(Acc)
  <2> DEFINE a == Cost(AfterCost(Acc, l), l)
             b == Cost(AfterCost(NewOther, l), l)
  <2>1. Device(gpu, Acc, l) = Acc /\ Device(NewOwn, NewOther, l) = NewOther
    BY <1>4 DEF Device
  <2>2. /\ SteadyTimes => SameButEnergy(a, b)
        /\ SteadyEnergies => a = b
    BY <1>2, <1>4, AsGoodAsNew, PromisedMeans DEF ToldAt, NewOther
  <2> HIDE DEF a, b
  <2>3. SameButEnergy(a, b) => ButEnergy(Timed(l, a), Timed(l, b))
    BY DEF SameButEnergy, ButEnergy, Timed, LayerRec
  <2>. QED  BY <1>1, <1>2, <2>1, <2>2, <2>3 DEF NewOwn, NewLayer, a, b
<1>. QED  BY <1>3, <1>4

(* A step of a call: what stays, and what the first batch is then about.       *)
LEMMA WorkBuilt ==
  ASSUME TypedInv, CountInv, Calling
  PROVE  /\ work \in WorkType /\ work.sum \in Decoders /\ work.gen \in Stages /\ work.all \in Int
         /\ Len(work.sum) \in Nat /\ Len(work.sum) = Len(BuiltSum) /\ DOMAIN work.sum = 1..Len(work.sum)
         /\ Len(work.gen) \in Nat /\ Len(work.gen) = Len(BuiltGen) /\ DOMAIN work.gen = 1..Len(work.gen)
         /\ \A s \in 1..Len(work.gen) :
              /\ work.gen[s] \in Decoders /\ Len(work.gen[s]) = Len(BuiltGen[s])
              /\ Len(work.gen[s]) \in Nat /\ DOMAIN work.gen[s] = 1..Len(work.gen[s])
         /\ work.itr \in Nat /\ work.at \in Nat /\ work.at >= 1 /\ work.stage \in Nat /\ work.stage >= 1
         /\ model # NoModel /\ model.infos \in Models /\ model.tp \in GpuCounts /\ call \in Calls
         /\ DevicesTyped /\ ModelTyped /\ CallTyped /\ WorkTyped /\ BuiltInv
<1>1. DevicesTyped /\ ModelTyped /\ CallTyped /\ WorkTyped /\ BuiltInv
  BY DEF TypedInv, CountInv
<1>2. work \in WorkType /\ model # NoModel
  BY <1>1, StagesReady
<1>3. work.sum \in Decoders /\ work.gen \in Stages /\ work.all \in Int /\ work.itr \in Nat
  BY <1>2 DEF WorkType
<1>4. Len(work.sum) \in Nat /\ DOMAIN work.sum = 1..Len(work.sum)
  BY <1>3, LenProperties DEF Decoders
<1>5. /\ Len(work.sum) = Len(BuiltSum) /\ Len(work.gen) = Len(BuiltGen)
      /\ \A s \in 1..Len(work.gen) : Len(work.gen[s]) = Len(BuiltGen[s])
  BY <1>1 DEF BuiltInv, SameFigures
<1>. QED  BY <1>1, <1>2, <1>3, <1>4, <1>5, StagesReady, ModelIsReady DEF CallTyped

(* A layer of the prompt.                                                    *)
LEMMA SumLayerAsNew ==
  ASSUME SimulatorAnswers, SimulatorInQuanta, KeysApart, TypedInv, Consistent, CountInv, AsNewInv,
         SumLayer
  PROVE  AsNewInv'
<1> DEFINE l == work.sum[work.at]
           timed == Timed(l, Cost(AfterCost(gpu, l), l))
           new == [timed EXCEPT !.time = @ + Waiting(work, l)]
<1>1. /\ pc = "sum" /\ pc' = "sum" /\ work.at <= Len(work.sum) /\ answer' = answer
      /\ work' = Summarized(work, new) /\ Calling /\ Calling'
  BY DEF SumLayer, Calling
<1>2. /\ work \in WorkType /\ work.sum \in Decoders /\ DOMAIN work.sum = 1..Len(work.sum)
      /\ Len(work.sum) \in Nat /\ Len(work.sum) = Len(BuiltSum) /\ DevicesTyped /\ BuiltInv
      /\ work.at \in 1..Len(work.sum) /\ model # NoModel /\ work.at \in Nat
  BY <1>1, WorkBuilt
<1>3. l \in LayerRec /\ Told(l) /\ ToldAt(l, HeadDim(model.infos))
  <2>1. l \in LayerRec
    BY <1>2, ElementOfSeq DEF Decoders
  <2>2. AllTold(work.sum, HeadDim(model.infos))
    BY <1>1, <1>2, WorkTold
  <2>. QED  BY <1>2, <2>1, <2>2 DEF AllTold, ToldAt
<1>4. RightInv' /\ ConfigurationKept
  <2>1. Asking(l)
    BY <1>2, SumLayerAsks
  <2> HIDE DEF l
  <2>. QED  BY <1>2, <1>3, <2>1, AskedDevices DEF AsNewInv
<1>5. timed = NewLayer(NewOwn, l)
  <2> HIDE DEF l
  <2>. QED  BY <1>2, <1>3, TimedAsNew DEF AsNewInv
<1>6. /\ new.type = timed.type /\ timed.type = l.type /\ timed \in LayerRec
      /\ l.type # "X2G" => new.time = timed.time
  <2>1. timed \in LayerRec /\ timed.type = l.type
    <3>1. XpuOK(NewOwn)
      BY <1>2, NewIsReady DEF NewOwn, DevicesTyped
    <3> HIDE DEF l
    <3>. QED  BY <1>3, <1>5, <3>1, NewLayerType
  <2> HIDE DEF l, timed
  <2>2. l.type # "X2G" => Waiting(work, l) = 0
    BY DEF Waiting
  <2>3. timed.time \in Int
    BY <2>1, LayerSizes
  <2>4. new.type = timed.type /\ new.time = timed.time + Waiting(work, l)
    BY <2>1 DEF LayerRec
  <2> HIDE DEF new
  <2>. QED  BY <2>1, <2>2, <2>3, <2>4
<1> HIDE DEF l, timed, new
<1>7. /\ work'.at = work.at + 1 /\ work'.itr = work.itr /\ work'.stage = work.stage
      /\ work'.gen = work.gen /\ work'.sum = [work.sum EXCEPT ![work.at] = new]
  BY <1>1, <1>2, SummarizedAt
<1>8. work'.all = work.all
  BY <1>1, <1>2 DEF Summarized, WorkType
<1>9. ASSUME FirstBatch' PROVE FirstBatch
  BY <1>1, <1>7, <1>9 DEF FirstBatch
<1>10. ASSUME FirstBatch' PROVE PromptInv'
  <2>1. PromptInv
    BY <1>9, <1>10 DEF AsNewInv, FirstBatchInv
  <2>2. ASSUME NEW i \in 1..Len(BuiltSum)
        PROVE  IF i >= work'.at THEN work'.sum[i] = BuiltSum[i] ELSE Like(work'.sum[i], NewSum[i])
    <3>1. CASE i = work.at
      <4>1. l = BuiltSum[i]
        BY <1>1, <1>2, <2>1, <3>1 DEF PromptInv, l
      <4>2. NewSum[i] = timed
        BY <1>2, <1>5, <4>1, NewLayers
      <4>3. work'.sum[i] = new
        BY <1>2, <1>7, <3>1
      <4>. QED  BY <1>2, <1>6, <1>7, <3>1, <4>2, <4>3 DEF Like
    <3>2. CASE i # work.at
      <4>1. work'.sum[i] = work.sum[i] /\ (i >= work'.at <=> i >= work.at)
        BY <1>2, <1>7, <3>2
      <4>. QED  BY <1>1, <2>1, <4>1 DEF PromptInv
    <3>. QED  BY <3>1, <3>2
  <2>. QED  BY <1>1, <1>4, <2>2 DEF PromptInv, ConfigurationKept, Like
<1>11. ASSUME FirstBatch' PROVE StagesInv' /\ (SteadyEnergies' => work'.all = EnergySoFar')
  <2>1. StagesInv /\ (SteadyEnergies => work.all = EnergySoFar)
    BY <1>9, <1>11 DEF AsNewInv, FirstBatchInv
  <2>2. StagesInv'
    BY <1>1, <1>4, <1>7, <2>1 DEF StagesInv, ConfigurationKept
  <2>. QED  BY <1>1, <1>4, <1>8, <2>1, <2>2, PromisedKept DEF EnergySoFar
<1>12. FirstBatchInv'
  BY <1>1, <1>10, <1>11 DEF FirstBatchInv
<1>. QED  BY <1>1, <1>4, <1>12 DEF AsNewInv, UnmadeInv

(* The energies of the stages, one more at a time.                            *)
LEMMA EnergyIsWorth ==
  EnergyWorth \in Worths /\ \A l \in LayerRec : EnergyWorth[l] = TotalEnergy(l.energy)
<1>1. ASSUME NEW l \in LayerRec PROVE TotalEnergy(l.energy) \in Int
  BY LayerSizes DEF TotalEnergy
<1>. QED  BY <1>1 DEF EnergyWorth, Worths

(* One stage more adds the energy of its layers.                             *)
LEMMA StageEnergyMore ==
  ASSUME NEW g \in Stages
  PROVE  /\ \A k \in 0..Len(g) : StageEnergies(g, k) \in Int
         /\ StageEnergies(g, 0) = 0
         /\ \A k \in 1..Len(g) :
              /\ Total(EnergyWorth, g[k]) \in Int
              /\ StageEnergies(g, k) = StageEnergies(g, k - 1) + Total(EnergyWorth, g[k])
<1> DEFINE n == Len(g)
           h == [i \in 1..n |-> Total(EnergyWorth, g[i])]
           Sum(k) == SumFunction([i \in 1..k |-> h[i]])
<1>1. n \in Nat /\ \A i \in 1..n : g[i] \in Seq(LayerRec)
  BY LenProperties, ElementOfSeq DEF Stages, Decoders
<1>2. h \in [1..n -> Int]
  BY <1>1, EnergyIsWorth, OneMore
<1>3. \A k \in 0..n : StageEnergies(g, k) = Sum(k)
  <2>1. ASSUME NEW k \in 0..n
        PROVE  [i \in 1..k |-> Total(EnergyWorth, g[i])] = [i \in 1..k |-> h[i]]
    BY <1>1
  <2>. QED  BY <2>1 DEF StageEnergies
<1>4. \A i \in 1..n : h[i] = Total(EnergyWorth, g[i])
  OBVIOUS
<1> HIDE DEF h, n
<1>5. /\ \A k \in 0..n : Sum(k) \in Int
      /\ Sum(0) = 0
      /\ \A k \in 0..(n - 1) : h[k + 1] \in Int /\ Sum(k + 1) = Sum(k) + h[k + 1]
  BY <1>1, <1>2, OneNumberMore
<1> HIDE DEF Sum
<1>6. ASSUME NEW k \in 1..n
      PROVE  /\ Total(EnergyWorth, g[k]) \in Int
             /\ StageEnergies(g, k) = StageEnergies(g, k - 1) + Total(EnergyWorth, g[k])
  <2>1. k - 1 \in 0..(n - 1) /\ (k - 1) + 1 = k /\ k \in 0..n /\ k - 1 \in 0..n
    BY <1>1
  <2>. QED  BY <1>3, <1>4, <1>5, <2>1
<1>7. 0 \in 0..n
  BY <1>1
<1>. QED  BY <1>3, <1>5, <1>6, <1>7 DEF n

(* The energies so far after a step that leaves the configuration.            *)
LEMMA EnergyKept ==
  ASSUME ConfigurationKept
  PROVE  /\ pc' = "sum" => EnergySoFar' = 0
         /\ pc' = "gen" => EnergySoFar' = StageEnergies(NewGen, work'.stage - 1)
                                            + UpTo(EnergyWorth, NewGen[work'.stage], work'.at - 1)
         /\ pc' = "report" => EnergySoFar' = StageEnergies(NewGen, Len(NewGen))
<1>1. NewGen' = NewGen
  BY DEF ConfigurationKept
<1>2. pc' = "sum" => EnergySoFar' = 0
  BY DEF EnergySoFar
<1>3. pc' = "gen" => EnergySoFar' = StageEnergies(NewGen', work'.stage - 1)
                                      + UpTo(EnergyWorth, NewGen'[work'.stage], work'.at - 1)
  BY DEF EnergySoFar, StageEnergies, UpTo, EnergyWorth
<1>4. pc' = "report" => EnergySoFar' = StageEnergies(NewGen', Len(NewGen'))
  BY DEF EnergySoFar, StageEnergies, EnergyWorth
<1>. QED  BY <1>1, <1>2, <1>3, <1>4

(* The devices stay as they are.                                             *)
LEMMA LeftAlone ==
  ASSUME gpu' = gpu, acc' = acc, hetero' = hetero, model' = model, call' = call
  PROVE  ConfigurationKept /\ (RightInv => RightInv')
<1>1. Acc' = Acc
  BY DEF Acc
<1>2. NewOwn' = NewOwn /\ NewOther' = NewOther /\ (RightInv => RightInv')
  BY <1>1 DEF NewOwn, NewOther, RightInv
<1>3. Without(acc)' = Without(acc)
  BY DEF Without
<1>. QED  BY <1>2, <1>3, SameConfiguration

(* The end of the prompt.                                                    *)
LEMMA EndOfSumAsNew ==
  ASSUME SimulatorAnswers, SimulatorInQuanta, TypedInv, CountInv, AsNewInv, EndOfSum
  PROVE  AsNewInv'
<1>1. /\ pc = "sum" /\ work.at > Len(work.sum) /\ pc' = (IF work.gen = <<>> THEN "report" ELSE "gen")
      /\ work' = [work EXCEPT !.at = 1, !.stage = 1] /\ answer' = answer /\ Calling /\ Calling'
      /\ gpu' = gpu /\ acc' = acc /\ hetero' = hetero /\ model' = model /\ call' = call
  BY DEF EndOfSum, Calling
<1>2. /\ work \in WorkType /\ work.gen \in Stages /\ Len(work.sum) = Len(BuiltSum)
      /\ Len(work.gen) = Len(BuiltGen) /\ Len(work.gen) \in Nat /\ model # NoModel
      /\ DOMAIN work.gen = 1..Len(work.gen) /\ Len(work.sum) \in Nat /\ work.at \in Nat
  BY <1>1, WorkBuilt
<1>3. ConfigurationKept /\ RightInv'
  BY <1>1, LeftAlone DEF AsNewInv
<1>4. /\ work'.at = 1 /\ work'.stage = 1 /\ work'.itr = work.itr /\ work'.sum = work.sum
      /\ work'.gen = work.gen /\ work'.all = work.all
  BY <1>1, <1>2 DEF WorkType
<1>5. work.gen = <<>> <=> Len(BuiltGen) = 0
  BY <1>2 DEF Stages
<1>6. ASSUME FirstBatch' PROVE FirstBatchInv'
  <2>1. PromptInv /\ StagesInv /\ (SteadyEnergies => work.all = 0)
    BY <1>1, <1>4, <1>6 DEF AsNewInv, FirstBatchInv, FirstBatch, EnergySoFar
  <2>2. PromptInv'
    <3>1. \A i \in 1..Len(BuiltSum) : Like(work.sum[i], NewSum[i])
      BY <1>1, <1>2, <2>1 DEF PromptInv
    <3>. QED  BY <1>1, <1>3, <1>4, <3>1 DEF PromptInv, ConfigurationKept, Like
  <2>3. StagesInv'
    <3>1. \A s \in 1..Len(BuiltGen) : work.gen[s] = BuiltGen[s] /\ ~(s < 1)
      BY <1>1, <2>1 DEF StagesInv
    <3>2. \A s \in 1..Len(BuiltGen) : \A i \in 1..Len(BuiltGen[s]) : ~(i < 1)
      OBVIOUS
    <3>. QED  BY <1>1, <1>3, <1>4, <3>1, <3>2 DEF StagesInv, ConfigurationKept
  <2>4. EnergySoFar' = 0
    <3>1. /\ NewGen \in Stages /\ Len(NewGen) = Len(BuiltGen)
          /\ \A s \in 1..Len(BuiltGen) : NewGen[s] \in Decoders
      BY <1>2, NewLayers
    <3>2. StageEnergies(NewGen, 0) = 0
      BY <3>1, StageEnergyMore
    <3>3. work'.stage - 1 = 0 /\ work'.at - 1 = 0
      BY <1>4
    <3>4. CASE pc' = "gen"
      <4>1. UpTo(EnergyWorth, NewGen[1], 0) = 0
        <5>1. 1 \in 1..Len(BuiltGen)
          BY <1>1, <1>2, <1>5, <3>4
        <5>. QED  BY <3>1, <5>1, EnergyIsWorth, OneMore DEF Decoders
      <4>2. EnergySoFar' = StageEnergies(NewGen, 0) + UpTo(EnergyWorth, NewGen[1], 0)
        BY <1>3, <1>4, <3>3, <3>4, EnergyKept
      <4>. QED  BY <3>2, <4>1, <4>2
    <3>5. CASE pc' = "report"
      <4>1. Len(NewGen) = 0
        BY <1>1, <1>5, <3>1, <3>5
      <4>. QED  BY <1>3, <3>2, <3>5, <4>1, EnergyKept
    <3>. QED  BY <1>1, <3>4, <3>5
  <2>5. pc' = "report" => work'.stage = Len(BuiltGen)' + 1
    <3>1. BuiltGen' = BuiltGen
      BY <1>3 DEF ConfigurationKept
    <3>. QED  BY <1>1, <1>4, <1>5, <3>1
  <2>. QED  BY <1>4, <2>1, <2>2, <2>3, <2>4, <2>5, <1>3, PromisedKept DEF FirstBatchInv
<1>7. FirstBatchInv'
  BY <1>6 DEF FirstBatchInv
<1>. QED  BY <1>1, <1>3, <1>7 DEF AsNewInv, UnmadeInv

(* A layer of the generation.                                                *)
LEMMA GenLayerAsNew ==
  ASSUME SimulatorAnswers, SimulatorInQuanta, KeysApart, TypedInv, Consistent, CountInv,
         AsNewInv, GenLayer
  PROVE  AsNewInv'
<1> DEFINE j == work.stage
           block == work.gen[work.stage]
           l == block[work.at]
           d == AfterCost(Device(gpu, Acc, l), l)
           new == Timed(l, Cost(d, l))
           next == [block EXCEPT ![work.at] = new]
           made == NewLayer(Device(NewOwn, NewOther, l), l)
<1>1. /\ pc = "gen" /\ pc' = "gen" /\ work.at <= Len(block) /\ answer' = answer
      /\ Calling /\ Calling'
  BY DEF GenLayer, Calling
<1>2. /\ work \in WorkType /\ work.gen \in Stages /\ DOMAIN work.gen = 1..Len(work.gen)
      /\ Len(work.gen) \in Nat /\ Len(work.gen) = Len(BuiltGen) /\ model # NoModel
      /\ j \in 1..Len(work.gen) /\ block \in Decoders /\ Len(block) \in Nat
      /\ DOMAIN block = 1..Len(block) /\ Len(block) = Len(BuiltGen[j])
      /\ work.at \in 1..Len(block) /\ work.at \in Nat /\ j \in Nat
      /\ DevicesTyped /\ BuiltInv /\ CountedInv /\ work.all \in Int
  <2>1. j \in 1..Len(work.gen)
    BY <1>1, WorkBuilt DEF WorkTyped
  <2>2. work.at \in 1..Len(block) /\ block \in Decoders
    BY <1>1, <2>1, WorkBuilt
  <2>. QED  BY <1>1, <2>1, <2>2, WorkBuilt DEF CountInv
<1>3. l \in LayerRec /\ Told(l) /\ ToldAt(l, HeadDim(model.infos))
  <2>1. l \in LayerRec
    BY <1>2, ElementOfSeq DEF Decoders
  <2>2. AllTold(block, HeadDim(model.infos))
    BY <1>1, <1>2, WorkTold
  <2>. QED  BY <1>2, <2>1, <2>2 DEF AllTold, ToldAt
<1>4. RightInv' /\ ConfigurationKept
  <2>1. Asking(l)
    BY <1>2, GenLayerAsks
  <2> HIDE DEF l
  <2>. QED  BY <1>2, <1>3, <2>1, AskedDevices DEF AsNewInv
<1>5. (SteadyTimes => ButEnergy(new, made)) /\ (SteadyEnergies => new = made)
  <2> HIDE DEF l
  <2>. QED  BY <1>2, <1>3, TimedAsNew DEF AsNewInv
<1>6. work' = Generated(work, new)
  BY <1>2, GenDevices
<1> HIDE DEF new, d, l, made
<1>7. /\ work'.at = work.at + 1 /\ work'.itr = work.itr /\ work'.stage = j
      /\ work'.sum = work.sum /\ work'.gen = [work.gen EXCEPT ![j] = next]
  BY <1>2, <1>6, GeneratedAt, GeneratedCounts
<1>8. work'.all = work.all + TotalEnergy(new.energy)
  BY <1>2, <1>6 DEF Generated, WorkType
<1>9. work'.gen[j] = next /\ \A s \in 1..Len(work.gen) : s # j => work'.gen[s] = work.gen[s]
  BY <1>2, <1>7
<1>10. /\ next[work.at] = new /\ \A i \in 1..Len(block) : i # work.at => next[i] = block[i]
  BY <1>2
<1> HIDE DEF next
<1>11. ASSUME FirstBatch' PROVE FirstBatch
  BY <1>1, <1>7, <1>11 DEF FirstBatch
<1>12. ASSUME FirstBatch
       PROVE  /\ SteadyTimes => ButEnergy(new, NewGen[j][work.at])
              /\ SteadyEnergies => NewGen[j][work.at] = new
  <2>1. StagesInv
    BY <1>12 DEF AsNewInv, FirstBatchInv
  <2>2. l = BuiltGen[j][work.at]
    BY <1>1, <1>2, <2>1 DEF StagesInv, l
  <2>3. NewGen[j][work.at] = made
    BY <1>2, <2>2, NewLayers DEF made
  <2>. QED  BY <1>5, <2>3
<1>13. ASSUME FirstBatch' PROVE PromptInv'
  <2>1. PromptInv
    BY <1>11, <1>13 DEF AsNewInv, FirstBatchInv
  <2>. QED  BY <1>1, <1>4, <1>7, <2>1 DEF PromptInv, ConfigurationKept, Like
<1>14. ASSUME FirstBatch' PROVE StagesInv'
  <2>1. StagesInv
    BY <1>11, <1>14 DEF AsNewInv, FirstBatchInv
  <2>2. ASSUME NEW s \in 1..Len(BuiltGen)
        PROVE  /\ s > j => work'.gen[s] = BuiltGen[s]
               /\ s < j /\ SteadyTimes => SumFunction(TimesOf(work'.gen[s])) = StageTimes[s]
               /\ s = j => \A i \in 1..Len(BuiltGen[s]) :
                    IF i >= work'.at THEN work'.gen[s][i] = BuiltGen[s][i]
                    ELSE /\ SteadyTimes => ButEnergy(work'.gen[s][i], NewGen[s][i])
                         /\ SteadyEnergies => work'.gen[s][i] = NewGen[s][i]
    <3>1. CASE s # j
      BY <1>1, <1>2, <1>9, <2>1, <3>1 DEF StagesInv
    <3>2. CASE s = j
      <4>1. ASSUME NEW i \in 1..Len(BuiltGen[s])
            PROVE  IF i >= work'.at THEN next[i] = BuiltGen[s][i]
                   ELSE /\ SteadyTimes => ButEnergy(next[i], NewGen[s][i])
                        /\ SteadyEnergies => next[i] = NewGen[s][i]
        <5>1. CASE i = work.at
          BY <1>2, <1>7, <1>10, <1>11, <1>12, <1>14, <3>2, <5>1
        <5>2. CASE i # work.at
          <6>1. i >= work'.at <=> i >= work.at
            BY <1>2, <1>7, <5>2
          <6>2. IF i >= work.at THEN block[i] = BuiltGen[s][i]
                ELSE /\ SteadyTimes => ButEnergy(block[i], NewGen[s][i])
                     /\ SteadyEnergies => block[i] = NewGen[s][i]
            BY <1>1, <1>2, <2>1, <3>2 DEF StagesInv
          <6>. QED  BY <1>2, <1>10, <3>2, <5>2, <6>1, <6>2
        <5>. QED  BY <5>1, <5>2
      <4>. QED  BY <1>2, <1>9, <3>2, <4>1
    <3>. QED  BY <3>1, <3>2
  <2>3. (SteadyTimes' <=> SteadyTimes) /\ (SteadyEnergies' <=> SteadyEnergies)
    BY <1>4, PromisedKept
  <2>. QED  BY <1>1, <1>4, <1>7, <2>2, <2>3 DEF StagesInv, ConfigurationKept, ButEnergy
<1>15. ASSUME FirstBatch', SteadyEnergies' PROVE work'.all = EnergySoFar'
  <2>8. SteadyEnergies
    BY <1>4, <1>15, PromisedKept
  <2> DEFINE g == NewGen[j]
             at == work.at
  <2>1. NewGen \in Stages /\ g \in Decoders /\ Len(g) = Len(block) /\ Len(NewGen) = Len(BuiltGen)
    BY <1>2, NewLayers
  <2>2. at - 1 \in 0..(Len(g) - 1) /\ (at - 1) + 1 = at /\ at - 1 \in 0..Len(g)
    BY <1>2, <2>1
  <2>3. /\ UpTo(EnergyWorth, g, at) = UpTo(EnergyWorth, g, at - 1) + EnergyWorth[g[at]]
        /\ UpTo(EnergyWorth, g, at - 1) \in Int /\ EnergyWorth[g[at]] \in Int
    BY <2>1, <2>2, EnergyIsWorth, OneMore DEF Decoders
  <2>4. StageEnergies(NewGen, j - 1) \in Int
    <3>1. j - 1 \in 0..Len(NewGen)
      BY <1>2, <2>1
    <3>. QED  BY <2>1, <3>1, StageEnergyMore
  <2>5. EnergyWorth[g[at]] = TotalEnergy(new.energy)
    <3>1. g[at] = new
      BY <1>11, <1>12, <1>15, <2>8
    <3>2. g[at] \in LayerRec
      BY <1>2, <2>1, ElementOfSeq DEF Decoders
    <3>. QED  BY <3>1, <3>2, EnergyIsWorth
  <2>6. work.all = StageEnergies(NewGen, j - 1) + UpTo(EnergyWorth, g, at - 1)
    BY <1>1, <1>11, <1>15, <2>8 DEF AsNewInv, FirstBatchInv, EnergySoFar
  <2>7. EnergySoFar' = StageEnergies(NewGen, j - 1) + UpTo(EnergyWorth, g, at)
    <3>1. work'.at - 1 = at
      BY <1>2, <1>7
    <3>. QED  BY <1>1, <1>4, <1>7, <3>1, EnergyKept
  <2> HIDE DEF g, at
  <2>. QED  BY <1>8, <2>3, <2>4, <2>5, <2>6, <2>7
<1>16. FirstBatchInv'
  BY <1>1, <1>13, <1>14, <1>15 DEF FirstBatchInv
<1>. QED  BY <1>1, <1>4, <1>16 DEF AsNewInv, UnmadeInv

(* A stage can be pipelined when its attention is on PIM.                      *)
LEMMA StageInPipeline ==
  ASSUME SimulatorAnswers, SimulatorInQuanta, TypedInv, model # NoModel, hetero = "PIM",
         NEW s \in 1..Len(BuiltGen)
  PROVE  InPipeline(NewGen[s])
<1> DEFINE b == BuiltGen[s]
           e == NewGen[s]
<1>1. /\ e \in Seq(LayerRec) /\ DOMAIN e = DOMAIN b
      /\ \A i \in DOMAIN b : e[i].time \in Quanta /\ e[i].name = b[i].name /\ e[i].type = b[i].type
  BY NewLayers DEF Decoders
<1>2. Projected(b) /\ TwoNamed(b, "comm_x2g")
  <2>1. /\ model.infos \in Models /\ model.tp \in GpuCounts /\ call \in Calls /\ Heterogeneous = TRUE
    BY ModelIsReady DEF TypedInv, CallTyped, Heterogeneous
  <2>2. model.tp \in Shares(model.infos)
    BY <2>1, GpusShare
  <2>3. DOMAIN BuiltGen = 1..(call.lout - 1) /\ DOMAIN BuiltGen = 1..Len(BuiltGen)
    <3>1. BuiltGen \in Stages
      BY BuiltTypes DEF TypedInv
    <3>. QED  BY <3>1, LenProperties DEF Stages, BuiltGen, GenDecoders
  <2>4. s \in Nat /\ b = GenDecoder(model.infos, model.tp, call.batch, call.lin, s, TRUE)
    <3>1. s \in 1..(call.lout - 1) /\ call.lout \in Nat
      BY <2>1, <2>3, SimulationAssumption
    <3>2. b = GenDecoder(model.infos, model.tp, call.batch, call.lin, s, Heterogeneous)
      BY <3>1 DEF BuiltGen, GenDecoders
    <3>3. s \in Nat
      BY <3>1
    <3>. QED  BY <2>1, <3>2, <3>3
  <2> HIDE DEF b
  <2>5. OneNamed(b, "qkv", "FC") /\ OneNamed(b, "proj", "FC")
    BY <2>1, <2>2, <2>4, GenDecoderNames
  <2>6. TwoNamed(b, "comm_x2g")
    BY <2>1, <2>2, <2>4, TwoTransfers
  <2>. QED  BY <2>5, <2>6 DEF Projected
<1> HIDE DEF b, e
<1>3. Projected(e)
  BY <1>1, <1>2, SameProjections
<1>4. TwoNamed(e, "comm_x2g")
  BY <1>1, <1>2 DEF TwoNamed
<1>. QED  BY <1>1, <1>3, <1>4 DEF InPipeline, Projected, e

(* The energies of its layers do not matter to the time of a stage ...          *)
LEMMA SameBlockTime ==
  ASSUME NEW a, NEW b, DOMAIN a = DOMAIN b, \A i \in DOMAIN a : ButEnergy(a[i], b[i]),
         NEW own, NEW other, NEW cfg, NEW c
  PROVE  BlockTime(own, other, a, cfg, c) = BlockTime(own, other, b, cfg, c)
<1> DEFINE FF(l) == IF c.par THEN Parallel(own, other, l, c.batch) ELSE l.time
<1>1. \A i \in DOMAIN a : a[i].name = b[i].name /\ a[i].time = b[i].time
  BY DEF ButEnergy
<1>2. \A names : TimeOf(a, names) = TimeOf(b, names)
  <2> TAKE names
  <2>1. [i \in DOMAIN a |-> IF a[i].name \in names THEN a[i].time ELSE 0]
          = [i \in DOMAIN b |-> IF b[i].name \in names THEN b[i].time ELSE 0]
    BY <1>1
  <2>. QED  BY <2>1, Zenon DEF TimeOf, SumOver
<1>3. TimesOf(a) = TimesOf(b)
  BY <1>1 DEF TimesOf
<1>4. \A i \in DOMAIN a : Parallel(own, other, a[i], c.batch) = Parallel(own, other, b[i], c.batch)
  BY DEF Parallel, ButEnergy
<1>5. [i \in DOMAIN a |-> IF IsFF(a[i]) THEN FF(a[i]) ELSE 0]
        = [i \in DOMAIN b |-> IF IsFF(b[i]) THEN FF(b[i]) ELSE 0]
  <2>1. \A i \in DOMAIN a : FF(a[i]) = FF(b[i]) /\ (IsFF(a[i]) <=> IsFF(b[i]))
    <3> HIDE DEF Parallel
    <3>. QED  BY <1>1, <1>4 DEF IsFF
  <2> HIDE DEF FF
  <2>. QED  BY <2>1
<1> DEFINE Ratio == <<cfg.num, cfg.model.infos.heads>>
           Sum(total, fc, x2g, attn, softmax, ff, others) ==
             IF cfg.hetero # "PIM" THEN total
             ELSE (IF c.pipe THEN Overlapped([fc |-> fc, x2g |-> x2g, attn |-> attn], Ratio)
                   ELSE fc + Overlapped([x2g |-> x2g, attn |-> attn], Ratio))
                  - softmax + ff + others
           Stage(x) == Sum(SumFunction(TimesOf(x)), TimeOf(x, {"qkv", "proj"}),
                           TimeOf(x, {"comm_x2g"}), TimeOf(x, {"score", "softmax", "context"}),
                           TimeOf(x, {"softmax"}),
                           SumFunction([i \in DOMAIN x |-> IF IsFF(x[i]) THEN FF(x[i]) ELSE 0]),
                           TimeOf(x, Others))
<1>6. BlockTime(own, other, a, cfg, c) = Stage(a) /\ BlockTime(own, other, b, cfg, c) = Stage(b)
  BY BlockTimeSums, Zenon
<1>7. Stage(a) = Stage(b)
  <2> HIDE DEF FF, Sum
  <2>. QED  BY <1>2, <1>3, <1>5
<1>. QED  BY <1>6, <1>7

(* ... nor to what the pipeline makes of their times: it is the closed form.    *)
LEMMA EndOfNewStage ==
  ASSUME SimulatorAnswers, SimulatorInQuanta, TypedInv, Consistent, model # NoModel,
         NEW s \in 1..Len(BuiltGen), NEW block \in Seq(LayerRec),
         DOMAIN block = DOMAIN NewGen[s], \A i \in DOMAIN block : ButEnergy(block[i], NewGen[s][i])
  PROVE  StageTimes[s] = SumFunction(TimesOf(Ended(block)))
<1>1. /\ XpuOK(gpu) /\ NewOwn.config = gpu.config /\ NewOther.config = Acc.config
  <2>1. DevicesReady(gpu, Acc)
    BY DevicesAreReady DEF TypedInv
  <2>. QED  BY <2>1, NewIsReady DEF DevicesReady, NewOwn, NewOther
<1>2. CallInPipeline
  <2>1. call.pipe \in BOOLEAN /\ call.batch \in Positive
    BY SimulationAssumption DEF TypedInv, CallTyped, Positive
  <2>2. HeadsInQuanta
    BY ModelIsReady DEF TypedInv, DevicesTyped, HeadsInQuanta
  <2>3. hetero = "PIM" => Acc.config.bw \in Positive
    BY PimTakesPart DEF TypedInv
  <2>. QED  BY <1>1, <2>1, <2>2, <2>3 DEF CallInPipeline
<1>3. hetero = "PIM" => InPipeline(block)
  <2>1. hetero = "PIM" => InPipeline(NewGen[s])
    BY StageInPipeline
  <2> DEFINE e == NewGen[s]
  <2>2. /\ DOMAIN block = DOMAIN e /\ (hetero = "PIM" => InPipeline(e))
        /\ \A i \in DOMAIN block : /\ block[i].time = e[i].time /\ block[i].name = e[i].name
                                   /\ block[i].type = e[i].type
    BY <2>1 DEF ButEnergy
  <2> HIDE DEF e
  <2>3. ASSUME hetero = "PIM" PROVE InPipeline(block)
    <3>1. Projected(e) /\ TwoNamed(e, "comm_x2g") /\ \A i \in DOMAIN e : e[i].time \in Quanta
      BY <2>2, <2>3 DEF InPipeline, Projected
    <3>2. Projected(block)
      BY <2>2, <3>1, SameProjections
    <3>3. TwoNamed(block, "comm_x2g")
      BY <2>2, <3>1 DEF TwoNamed
    <3>. QED  BY <2>2, <3>1, <3>2, <3>3 DEF InPipeline, Projected
  <2>. QED  BY <2>3
<1>4. /\ TheConfig.num = gpu.num /\ TheConfig.hetero = hetero /\ TheConfig.model = model
  BY DEF TheConfig
<1>5. StageTimes[s] = BlockTime(NewOwn, NewOther, NewGen[s], TheConfig, call)
  <2>1. s \in DOMAIN BuiltGen
    BY BuiltTypes, LenProperties DEF TypedInv, Stages
  <2>. QED  BY <2>1 DEF StageTimes
<1> DEFINE cfg == TheConfig
           own == NewOwn
           other == NewOther
           new == NewGen[s]
<1>6. BlockTime(own, other, block, cfg, call) = SumFunction(TimesOf(Ended(block)))
  <2>1. /\ own.config = gpu.config /\ other.config = Acc.config
        /\ cfg.num = gpu.num /\ cfg.hetero = hetero /\ cfg.model = model
    BY <1>1, <1>4
  <2> HIDE DEF cfg, own, other
  <2>. QED  BY <1>2, <1>3, <2>1, EndedTime
<1>7. DOMAIN block = DOMAIN new /\ \A i \in DOMAIN block : ButEnergy(block[i], new[i])
  OBVIOUS
<1>8. StageTimes[s] = BlockTime(own, other, new, cfg, call)
  BY <1>5
<1> HIDE DEF cfg, own, other, new
<1>9. BlockTime(own, other, block, cfg, call) = BlockTime(own, other, new, cfg, call)
  BY <1>7, SameBlockTime
<1>. QED  BY <1>6, <1>8, <1>9

(* The end of a stage.                                                       *)
LEMMA EndOfStageAsNew ==
  ASSUME SimulatorAnswers, SimulatorInQuanta, TypedInv, Consistent, CountInv, AsNewInv, EndOfStage
  PROVE  AsNewInv'
<1> DEFINE j == work.stage
           block == work.gen[work.stage]
           piped == PipelinedBlock(block, call.pipe)
           done == IF hetero # "PIM" THEN block
                   ELSE IF call.par THEN ParallelBlock(piped, work.batches[work.itr]) ELSE piped
<1>1. /\ pc = "gen" /\ pc' = (IF j = Len(work.gen) THEN "report" ELSE "gen")
      /\ work.at > Len(block) /\ answer' = answer /\ Calling /\ Calling'
      /\ work' = [work EXCEPT !.gen[j] = done, !.stage = @ + 1, !.at = 1]
      /\ gpu' = gpu /\ acc' = acc /\ hetero' = hetero /\ model' = model /\ call' = call
  BY DEF EndOfStage, Calling
<1>2. /\ work \in WorkType /\ work.gen \in Stages /\ DOMAIN work.gen = 1..Len(work.gen)
      /\ Len(work.gen) \in Nat /\ Len(work.gen) = Len(BuiltGen) /\ model # NoModel
      /\ j \in 1..Len(work.gen) /\ block \in Decoders /\ Len(block) \in Nat
      /\ DOMAIN block = 1..Len(block) /\ Len(block) = Len(BuiltGen[j])
      /\ work.at \in Nat /\ j \in Nat /\ DevicesTyped /\ WorkTyped /\ CountedInv
  <2>1. j \in 1..Len(work.gen)
    BY <1>1, WorkBuilt DEF WorkTyped
  <2>. QED  BY <1>1, <2>1, WorkBuilt DEF CountInv
<1>3. ConfigurationKept /\ RightInv'
  BY <1>1, LeftAlone DEF AsNewInv
<1>4. ASSUME FirstBatch PROVE done = Ended(block)
  <2>1. WorkOK(work, call)
    BY <1>1, <1>2 DEF WorkTyped
  <2>2. work.batches[1] = call.batch
    BY <2>1 DEF WorkOK, TargetBatches
  <2>. QED  BY <1>4, <2>2 DEF Ended, FirstBatch
<1> HIDE DEF done
<1>5. /\ work'.at = 1 /\ work'.stage = j + 1 /\ work'.itr = work.itr /\ work'.sum = work.sum
      /\ work'.gen = [work.gen EXCEPT ![j] = done] /\ work'.all = work.all
  BY <1>1, <1>2 DEF WorkType
<1>6. work'.gen[j] = done /\ \A s \in 1..Len(work.gen) : s # j => work'.gen[s] = work.gen[s]
  BY <1>2, <1>5
<1>7. work.at = Len(block) + 1
  BY <1>1, <1>2 DEF CountedInv
<1>8. ASSUME FirstBatch'
      PROVE  FirstBatch /\ PromptInv /\ StagesInv /\ (SteadyEnergies => work.all = EnergySoFar)
  BY <1>1, <1>5, <1>8 DEF FirstBatch, AsNewInv, FirstBatchInv
<1>9. ASSUME FirstBatch', SteadyTimes PROVE SumFunction(TimesOf(done)) = StageTimes[j]
  <2>1. \A i \in 1..Len(block) : ButEnergy(block[i], NewGen[j][i])
    BY <1>1, <1>2, <1>7, <1>8, <1>9 DEF StagesInv
  <2>2. DOMAIN NewGen[j] = DOMAIN block /\ block \in Seq(LayerRec)
    BY <1>2, NewLayers DEF Decoders
  <2> HIDE DEF block, j
  <2>. QED  BY <1>2, <1>4, <1>8, <1>9, <2>1, <2>2, EndOfNewStage
<1>10. ASSUME FirstBatch' PROVE PromptInv'
  BY <1>1, <1>3, <1>5, <1>8, <1>10 DEF PromptInv, ConfigurationKept, Like
<1>11. ASSUME FirstBatch' PROVE StagesInv'
  <2>1. ASSUME NEW s \in 1..Len(BuiltGen)
        PROVE  /\ s > j + 1 => work'.gen[s] = BuiltGen[s]
               /\ s < j + 1 /\ SteadyTimes => SumFunction(TimesOf(work'.gen[s])) = StageTimes[s]
               /\ s = j + 1 => \A i \in 1..Len(BuiltGen[s]) : work'.gen[s][i] = BuiltGen[s][i]
    <3>1. CASE s = j
      BY <1>2, <1>6, <1>9, <1>11, <3>1
    <3>2. CASE s # j
      <4>1. work'.gen[s] = work.gen[s]
        BY <1>2, <1>6, <3>2
      <4>2. s > j => work.gen[s] = BuiltGen[s]
        BY <1>1, <1>2, <1>8, <1>11 DEF StagesInv
      <4>3. s < j /\ SteadyTimes => SumFunction(TimesOf(work.gen[s])) = StageTimes[s]
        BY <1>1, <1>2, <1>8, <1>11 DEF StagesInv
      <4>. QED  BY <1>2, <3>2, <4>1, <4>2, <4>3
    <3>. QED  BY <3>1, <3>2
  <2>2. \A s \in 1..Len(BuiltGen) : \A i \in 1..Len(BuiltGen[s]) : ~(i < 1)
    OBVIOUS
  <2>3. pc' # "sum" /\ (SteadyTimes' <=> SteadyTimes)
    BY <1>1, <1>3, PromisedKept
  <2>. QED  BY <1>3, <1>5, <2>1, <2>2, <2>3 DEF StagesInv, ConfigurationKept
<1>12. ASSUME FirstBatch', SteadyEnergies' PROVE work'.all = EnergySoFar'
  <2> DEFINE g == NewGen[j]
  <2>7. SteadyEnergies
    BY <1>3, <1>12, PromisedKept
  <2>1. /\ NewGen \in Stages /\ g \in Decoders /\ Len(g) = Len(block) /\ Len(NewGen) = Len(BuiltGen)
        /\ \A s \in 1..Len(BuiltGen) : NewGen[s] \in Decoders
    BY <1>2, NewLayers
  <2>2. UpTo(EnergyWorth, g, Len(g)) = Total(EnergyWorth, g)
    BY <2>1, EnergyIsWorth, OneMore DEF Decoders
  <2>3. StageEnergies(NewGen, j) = StageEnergies(NewGen, j - 1) + Total(EnergyWorth, g)
    BY <1>2, <2>1, StageEnergyMore
  <2>4. work.all = StageEnergies(NewGen, j - 1) + UpTo(EnergyWorth, g, work.at - 1)
    BY <1>1, <1>8, <1>12, <2>7 DEF EnergySoFar
  <2>5. work.all = StageEnergies(NewGen, j)
    <3>1. work.at - 1 = Len(g)
      BY <1>2, <1>7, <2>1
    <3>. QED  BY <2>2, <2>3, <2>4, <3>1
  <2>6. EnergySoFar' = StageEnergies(NewGen, j)
    <3>1. CASE j = Len(work.gen)
      BY <1>1, <1>2, <1>3, <2>1, <3>1, EnergyKept
    <3>2. CASE j # Len(work.gen)
      <4>1. pc' = "gen" /\ j + 1 \in 1..Len(BuiltGen) /\ j \in 0..Len(NewGen)
        BY <1>1, <1>2, <2>1, <3>2
      <4>2. UpTo(EnergyWorth, NewGen[j + 1], 0) = 0 /\ StageEnergies(NewGen, j) \in Int
        BY <2>1, <4>1, StageEnergyMore, EnergyIsWorth, OneMore DEF Decoders
      <4>3. work'.stage - 1 = j /\ work'.at - 1 = 0 /\ work'.stage = j + 1
        BY <1>2, <1>5
      <4> HIDE DEF j
      <4>4. EnergySoFar' = StageEnergies(NewGen, j) + UpTo(EnergyWorth, NewGen[j + 1], 0)
        BY <1>3, <4>1, <4>3, EnergyKept
      <4>. QED  BY <4>2, <4>4
    <3>. QED  BY <3>1, <3>2
  <2>. QED  BY <1>5, <2>5, <2>6
<1>13. pc' = "report" => work'.stage = Len(BuiltGen)' + 1
  <2>1. BuiltGen' = BuiltGen
    BY <1>3 DEF ConfigurationKept
  <2>. QED  BY <1>1, <1>2, <1>5, <2>1
<1>14. FirstBatchInv'
  BY <1>10, <1>11, <1>12, <1>13 DEF FirstBatchInv
<1>. QED  BY <1>1, <1>3, <1>14 DEF AsNewInv, UnmadeInv

(* New devices have empty tables.                                            *)
LEMMA NewIsRight ==
  /\ \A n \in GpuCounts : RightDevice(Gpu(n))
  /\ RightDevice(Cpu)
  /\ \A infos \in Models, c \in PimConfigs : \A rows : RightDevice(PIM(c, infos.dhead, rows))
<1>1. \A n : RightTiles(Gpu(n)) /\ RightTiles(Cpu)
  BY DEF RightTiles, Gpu, Cpu, XPU
<1>2. ASSUME NEW infos \in Models, NEW c \in PimConfigs, NEW rows
      PROVE  PimOK(PIM(c, infos.dhead, rows))
  <2>1. infos.dhead \in Nat
    BY SimulationAssumption DEF Infos
  <2>. QED  BY <2>1 DEF PimOK, IsPIM, PIM
<1>3. \A n \in GpuCounts : XpuOK(Gpu(n)) /\ XpuOK(Cpu)
  BY NewXpus
<1>4. XpuOK(Cpu)
  <2>1. 2 \in Positive /\ CpuConfig \in XpuConfigs
    BY DEF Positive, XpuConfigs
  <2>. QED  BY <2>1 DEF Cpu, XPU, XpuOK, IsXPU
<1>. QED  BY <1>1, <1>2, <1>3, <1>4 DEF RightDevice

(* Right devices make right tables, whichever is the attention's.            *)
LEMMA RightAfter ==
  ASSUME RightDevice(gpu'), acc' = SameAsGpu \/ RightDevice(acc')
  PROVE  RightInv'
<1>1. Acc' = IF acc' = SameAsGpu THEN gpu' ELSE acc'
  BY DEF Acc
<1>2. RightDevice(Acc')
  BY <1>1
<1>. QED  BY <1>2 DEF RightInv, RightDevice, RightTiles, XpuOK, PimOK

(* While the system is configured there is no call.                          *)
LEMMA ConfiguredAsNew ==
  ASSUME AsNewInv,
         \/ \E infos \in Models \cup {NoModel}, name \in {"NONE", "CPU"} : New(infos, name)
         \/ \E infos \in Models : SetModel(infos) \/ \E config \in PimConfigs : SetPim(infos, config)
         \/ SetCpu \/ (\E n \in GpuCounts : SetXpu(n)) \/ Fail \/ Report
  PROVE  AsNewInv'
<1>1. pc' = "idle"
  BY DEF New, SetModel, SetPim, SetCpu, SetXpu, Configuring, Fail, Report
<1>2. FirstBatchInv' /\ UnmadeInv'
  BY <1>1 DEF FirstBatchInv, FirstBatch, Calling, UnmadeInv
<1>3. RightDevice(gpu) /\ (acc # SameAsGpu => RightDevice(acc))
  BY DEF AsNewInv, RightInv, Acc
<1>4. \/ gpu' = gpu
      \/ \E n \in GpuCounts : gpu' = Gpu(n)
  BY DEF New, SetModel, SetPim, SetCpu, SetXpu, Fail, Report
<1>5. RightDevice(gpu')
  BY <1>3, <1>4, NewIsRight
<1>6. \/ acc' = acc \/ acc' = SameAsGpu \/ acc' = Cpu
      \/ \E infos \in Models, c \in PimConfigs : acc' = PIM(c, infos.dhead, log)
  BY DEF New, SetModel, SetPim, SetCpu, SetXpu, Fail, Report
<1>7. acc' = SameAsGpu \/ RightDevice(acc')
  BY <1>3, <1>6, NewIsRight
<1>8. RightInv'
  BY <1>5, <1>7, RightAfter
<1>. QED  BY <1>2, <1>8 DEF AsNewInv

(* A call.                                                                   *)
LEMMA SimulateAsNew ==
  ASSUME AsNewInv, NEW c \in Calls, Simulate(c)
  PROVE  AsNewInv'
<1> DEFINE S == SumDecoder(model.infos, model.tp, c.batch, c.lin, Heterogeneous)
           G == GenDecoders(model.infos, model.tp, c.batch, c.lin, c.lout, Heterogeneous)
<1>1. /\ pc' = "sum" /\ gpu' = gpu /\ acc' = acc /\ hetero' = hetero /\ model' = model /\ call' = c
      /\ work' = [Idle EXCEPT !.batches = TargetBatches(c), !.itr = 1, !.stage = 1, !.at = 1,
                              !.sum = S, !.gen = G]
  BY DEF Simulate
<1>2. BuiltSum' = S /\ BuiltGen' = G
  BY <1>1 DEF BuiltSum, BuiltGen, Heterogeneous
<1> HIDE DEF S, G
<1>3. work'.at = 1 /\ work'.stage = 1 /\ work'.sum = S /\ work'.gen = G /\ work'.all = 0
  BY <1>1 DEF Idle
<1>4. \A i \in 1..Len(S) : i >= 1
  OBVIOUS
<1>5. PromptInv'
  BY <1>1, <1>2, <1>3, <1>4 DEF PromptInv
<1>6. StagesInv'
  BY <1>1, <1>2, <1>3 DEF StagesInv
<1>7. EnergySoFar' = 0
  BY <1>1 DEF EnergySoFar
<1>8. FirstBatchInv'
  BY <1>1, <1>3, <1>5, <1>6, <1>7 DEF FirstBatchInv
<1>9. RightDevice(gpu) /\ (acc # SameAsGpu => RightDevice(acc))
  BY DEF AsNewInv, RightInv, Acc
<1>10. RightInv'
  BY <1>1, <1>9, RightAfter
<1>. QED  BY <1>1, <1>8, <1>10 DEF AsNewInv, UnmadeInv

(* The next batch: only the devices are of interest.                         *)
LEMMA NextBatchAsNew ==
  ASSUME TypedInv, AsNewInv, NextBatch
  PROVE  AsNewInv'
<1>1. /\ pc = "report" /\ pc' = "sum" /\ answer' = answer
      /\ work' = [work EXCEPT !.itr = @ + 1, !.at = 1, !.stage = 1, !.elapsed = 0, !.busy = 0]
      /\ gpu' = gpu /\ acc' = acc /\ hetero' = hetero /\ model' = model /\ call' = call
  BY DEF NextBatch
<1>2. work \in WorkType /\ WorkOK(work, call)
  BY <1>1, StagesReady DEF TypedInv, Calling
<1>3. work'.itr = work.itr + 1 /\ work.itr \in Nat /\ work.itr >= 1
  BY <1>1, <1>2 DEF WorkType, WorkOK
<1>4. ~FirstBatch'
  BY <1>3 DEF FirstBatch
<1>5. RightInv'
  BY <1>1, LeftAlone DEF AsNewInv
<1>. QED  BY <1>1, <1>4, <1>5 DEF AsNewInv, FirstBatchInv, UnmadeInv

(* Every step keeps the invariant ...                                        *)
LEMMA StepsKeepAsNew ==
  ASSUME SimulatorAnswers, SimulatorInQuanta, KeysApart
  PROVE  AsNewInv /\ TypedInv /\ Consistent /\ CountInv /\ [Next]_vars => AsNewInv'
<1> SUFFICES ASSUME AsNewInv, TypedInv, Consistent, CountInv, [Next]_vars PROVE AsNewInv'
  OBVIOUS
<1>1. CASE \/ \E infos \in Models \cup {NoModel}, name \in {"NONE", "CPU"} : New(infos, name)
           \/ \E infos \in Models : SetModel(infos) \/ \E config \in PimConfigs : SetPim(infos, config)
           \/ SetCpu \/ (\E n \in GpuCounts : SetXpu(n)) \/ Fail \/ Report
  BY <1>1, ConfiguredAsNew
<1>2. ASSUME NEW c \in Calls, Simulate(c) PROVE AsNewInv'
  BY <1>2, SimulateAsNew
<1>3. CASE SumLayer
  BY <1>3, SumLayerAsNew
<1>4. CASE EndOfSum
  BY <1>4, EndOfSumAsNew
<1>5. CASE GenLayer
  BY <1>5, GenLayerAsNew
<1>6. CASE EndOfStage
  BY <1>6, EndOfStageAsNew
<1>7. CASE NextBatch
  BY <1>7, NextBatchAsNew
<1>8. CASE UNCHANGED vars
  <2>1. /\ pc' = pc /\ gpu' = gpu /\ acc' = acc /\ hetero' = hetero /\ model' = model
        /\ call' = call /\ work' = work /\ answer' = answer
    BY <1>8 DEF vars
  <2>2. ConfigurationKept /\ RightInv'
    BY <2>1, LeftAlone DEF AsNewInv
  <2>3. EnergySoFar' = EnergySoFar
    BY <2>1, <2>2 DEF EnergySoFar, ConfigurationKept, StageEnergies, UpTo, EnergyWorth
  <2>4. (PromptInv <=> PromptInv') /\ (StagesInv <=> StagesInv')
    <3>1. (SteadyTimes' <=> SteadyTimes) /\ (SteadyEnergies' <=> SteadyEnergies)
      BY <2>2, PromisedKept
    <3>. QED  BY <2>1, <2>2, <3>1 DEF PromptInv, StagesInv, ConfigurationKept, Like, ButEnergy
  <2>6. (SteadyTimes' <=> SteadyTimes) /\ (SteadyEnergies' <=> SteadyEnergies)
    BY <2>2, PromisedKept
  <2>5. FirstBatchInv'
    BY <2>1, <2>2, <2>3, <2>4, <2>6
       DEF AsNewInv, FirstBatchInv, FirstBatch, Calling, ConfigurationKept
  <2>. QED  BY <2>1, <2>2, <2>5 DEF AsNewInv, UnmadeInv
<1>. QED  BY <1>1, <1>2, <1>3, <1>4, <1>5, <1>6, <1>7, <1>8 DEF Next

(* ... so it always holds.                                                   *)
LEMMA AsNewInvHolds ==
  ASSUME SimulatorAnswers, SimulatorInQuanta, KeysApart
  PROVE  Spec => []AsNewInv
<1>1. Init => AsNewInv
  <2> SUFFICES ASSUME Init PROVE AsNewInv
    OBVIOUS
  <2>1. /\ pc = "none" /\ acc = SameAsGpu /\ answer = {} /\ \E n \in GpuCounts : gpu = Gpu(n)
    BY DEF Init
  <2>2. RightInv
    BY <2>1, NewIsRight DEF RightInv, Acc
  <2>. QED  BY <2>1, <2>2 DEF AsNewInv, FirstBatchInv, FirstBatch, Calling, UnmadeInv
<1>2. AsNewInv /\ TypedInv /\ Consistent /\ CountInv /\ [Next]_vars => AsNewInv'
  BY StepsKeepAsNew
<1>. QED  BY <1>1, <1>2, TypedInvHolds, SimulationConsistent, CountInvHolds, PTL DEF Spec

---------------------------------------------------------------------------
(* The answer.                                                              *)

TimeWorth == [l \in LayerRec |-> l.time]

(* The figures of the abstract answer, without the sums over operators.       *)
LEMMA FiguresAre ==
  ASSUME NEW cfg, NEW c, NEW own, NEW other, NEW sum, NEW blocks
  PROVE  LET ndec == cfg.model.infos.ndec
             flat == FlattenSeq(blocks)
         IN FiguresOf(cfg, c, own, other, sum, blocks)
              = [s_time |-> ndec * SumFunction([i \in DOMAIN sum |-> IF sum[i].type = "X2G" THEN 0 ELSE sum[i].time]),
                 g_time |-> ndec * SumFunction([i \in DOMAIN blocks |-> BlockTime(own, other, blocks[i], cfg, c)]),
                 g_energy |-> ndec * SumFunction([i \in DOMAIN flat |-> TotalEnergy(flat[i].energy)])]
BY Zenon DEF FiguresOf, SumOver

(* What the figures of the configuration are made of.                        *)
LEMMA FiguresFromNew ==
  ASSUME TypedInv, Consistent, model # NoModel
  PROVE  LET figures == FiguresOf(TheConfig, call, NewOwn, NewOther, NewSum, NewGen)
         IN Figures(TheConfig, call) = [name \in Promised(TheConfig) |-> figures[name]]
<1> DEFINE cfg == TheConfig
           infos == cfg.model.infos
           own == Gpu(cfg.num)
           other == IF cfg.acc = SameAsGpu THEN own ELSE cfg.acc
           remote == cfg.hetero # "NONE"
           sum == SumDecoder(infos, cfg.num, call.batch, call.lin, remote)
           blocks == GenDecoders(infos, cfg.num, call.batch, call.lin, call.lout, remote)
           figures == FiguresOf(cfg, call, own, other, On(own, own, sum),
                                [stage \in DOMAIN blocks |-> On(own, other, blocks[stage])])
<1>1. Figures(cfg, call) = [name \in Promised(cfg) |-> figures[name]]
  BY Zenon DEF Figures
<1>2. /\ DevicesTyped /\ model.tp = gpu.num /\ hetero \in {"NONE", "CPU", "PIM"}
      /\ XpuOK(gpu) /\ gpu.config = GpuConfig
  BY DEF TypedInv, CallTyped, DevicesTyped, Consistent
<1>3. cfg.num = gpu.num /\ cfg.acc = Without(acc) /\ cfg.hetero = hetero /\ cfg.model = model
  BY DEF TheConfig
<1>4. own = NewOwn
  <2>1. gpu.config.kind # "PIM"
    BY <1>2, XpuIsNoPim
  <2>. QED  BY <1>2, <1>3, <2>1 DEF NewOwn, AsNew, Gpu
<1>5. other = NewOther
  <2>1. CASE acc = SameAsGpu
    <3>1. cfg.acc = SameAsGpu /\ Acc = gpu
      BY <1>3, <2>1 DEF Without, Acc
    <3>. QED  BY <1>4, <3>1 DEF NewOwn, NewOther
  <2>2. CASE acc # SameAsGpu
    <3>1. XpuOK(acc) \/ PimOK(acc)
      BY <1>2, <2>2 DEF DevicesTyped
    <3>2. Without(acc) = NewOther
      BY <2>2 DEF Without, NewOther, AsNew, Acc
    <3>3. NewOther.config.kind # "NONE"
      <4>1. NewOther.config = acc.config
        BY <2>2, <3>1, NewIsReady DEF NewOther, Acc
      <4>2. XpuOK(acc) => acc.config \in {GpuConfig, CpuConfig}
        BY DEF XpuOK, XpuConfigs
      <4>3. GpuConfig.kind # "NONE" /\ CpuConfig.kind # "NONE"
        BY SimulationAssumption
      <4>. QED  BY <3>1, <4>1, <4>2, <4>3, PimKind
    <3>4. NewOther # SameAsGpu
      BY <3>3 DEF SameAsGpu
    <3>. QED  BY <1>3, <3>2, <3>4
  <2>. QED  BY <2>1, <2>2
<1>6. sum = BuiltSum /\ blocks = BuiltGen
  <2>1. remote = Heterogeneous
    BY <1>2, <1>3 DEF Heterogeneous
  <2>. QED  BY <1>2, <1>3, <2>1 DEF BuiltSum, BuiltGen
<1> HIDE DEF own, other, sum, blocks, cfg, figures
<1>7. /\ On(own, own, sum) = NewSum
      /\ [stage \in DOMAIN blocks |-> On(own, other, blocks[stage])] = NewGen
  BY <1>4, <1>5, <1>6 DEF NewSum, NewGen
<1>8. figures = FiguresOf(cfg, call, NewOwn, NewOther, NewSum, NewGen)
  BY <1>4, <1>5, <1>7, Zenon DEF figures
<1>. QED  BY <1>1, <1>8, Zenon DEF cfg

(* The columns of the answer that are promised.                              *)
Reads(row) == [name \in Promised(TheConfig) |-> Column(row, name)]

(* After the first batch, they are the figures of the configuration.         *)
LEMMA RowReadsFigures ==
  ASSUME SimulatorAnswers, SimulatorInQuanta, TypedInv, Consistent, CountInv, AsNewInv,
         pc = "report", work.itr = 1, NEW bs
  PROVE  Reads(Row(bs)) = Figures(TheConfig, call)
<1> DEFINE ndec == model.infos.ndec
           row == Row(bs)
           flat == FlattenSeq(work.gen)
           new == FlattenSeq(NewGen)
<1>1. /\ FirstBatch /\ Calling /\ PromptInv /\ StagesInv
      /\ SteadyEnergies => work.all = StageEnergies(NewGen, Len(NewGen))
      /\ work.stage = Len(BuiltGen) + 1
  BY DEF FirstBatch, Calling, AsNewInv, FirstBatchInv, EnergySoFar
<1>2. /\ work \in WorkType /\ work.sum \in Decoders /\ DOMAIN work.sum = 1..Len(BuiltSum)
      /\ work.gen \in Stages /\ DOMAIN work.gen = 1..Len(BuiltGen) /\ Len(work.gen) = Len(BuiltGen)
      /\ Len(BuiltGen) \in Nat /\ model # NoModel /\ work.all \in Int /\ ndec \in Nat
      /\ WorkTyped /\ \A s \in 1..Len(work.gen) : work.gen[s] \in Decoders
  <2>1. ndec \in Nat
    BY <1>1, WorkBuilt, ModelIsReady
  <2>. QED  BY <1>1, <2>1, WorkBuilt
<1>3. /\ Column(row, "s_time") = SumFunction(SumPart(work.sum, "s_time")) * ndec
      /\ Column(row, "g_time") = SumFunction(GenPart(flat, "g_time")) * ndec
      /\ Column(row, "g_energy") = work.all * ndec
  <2>1. SplitOK(work.all, work.unit, work.byType)
    BY <1>1, <1>2 DEF WorkTyped, WorkOK
  <2>2. RowReads(row)
    BY <2>1, RowIsRead
  <2>3. "s_time" \in SumNames /\ "g_time" \in GenNames
    BY DEF SumNames, GenNames
  <2> HIDE DEF row
  <2>. QED  BY <2>2, <2>3 DEF RowReads
<1> HIDE DEF row
<1>4. /\ NewSum \in Decoders /\ DOMAIN NewSum = 1..Len(BuiltSum)
      /\ NewGen \in Stages /\ DOMAIN NewGen = 1..Len(BuiltGen) /\ Len(NewGen) = Len(BuiltGen)
  <2>1. /\ NewSum \in Decoders /\ Len(NewSum) = Len(BuiltSum)
        /\ NewGen \in Stages /\ DOMAIN NewGen = 1..Len(BuiltGen) /\ Len(NewGen) = Len(BuiltGen)
    BY <1>2, NewLayers
  <2>. QED  BY <2>1, LenProperties DEF Decoders
<1>5. SumPart(work.sum, "s_time")
        = [i \in DOMAIN NewSum |-> IF NewSum[i].type = "X2G" THEN 0 ELSE NewSum[i].time]
  <2>1. ASSUME NEW i \in 1..Len(BuiltSum)
        PROVE  (IF "s_time" \in SumColumns(work.sum[i]) THEN work.sum[i].time ELSE 0)
                 = IF NewSum[i].type = "X2G" THEN 0 ELSE NewSum[i].time
    <3>1. Like(work.sum[i], NewSum[i])
      BY <1>1 DEF PromptInv
    <3>2. work.sum[i].type \in LayerTypes
      <4>1. work.sum[i] \in LayerRec
        BY <1>2, ElementOfSeq, LenProperties DEF Decoders
      <4>. QED  BY <4>1, LayerSizes
    <3>3. "s_time" \in SumColumns(work.sum[i]) <=> work.sum[i].type # "X2G"
      BY <3>2 DEF SumColumns, LayerTypes
    <3>. QED  BY <3>1, <3>3 DEF Like
  <2>. QED  BY <1>2, <1>4, <2>1 DEF SumPart
<1>6. ASSUME SteadyTimes PROVE SumFunction(GenPart(flat, "g_time")) = SumFunction(StageTimes)
  <2>1. TimeWorth \in Worths
    <3>1. \A l \in LayerRec : l.time \in Int
      BY LayerSizes
    <3>. QED  BY <3>1 DEF TimeWorth, Worths
  <2>2. flat \in Seq(LayerRec)
    BY <1>2, FlattenType DEF Stages, Decoders
  <2> HIDE DEF flat
  <2>3. GenPart(flat, "g_time") = [i \in DOMAIN flat |-> TimeWorth[flat[i]]]
    <3>1. \A l : "g_time" \in GenColumns(l)
      BY DEF GenColumns
    <3>2. \A i \in DOMAIN flat : flat[i] \in LayerRec
      BY <2>2, LenProperties, ElementOfSeq
    <3>3. \A i \in DOMAIN flat : TimeWorth[flat[i]] = flat[i].time
      BY <3>2 DEF TimeWorth
    <3>. QED  BY <3>1, <3>3 DEF GenPart
  <2>4. SumFunction(GenPart(flat, "g_time")) = SumFunction([s \in 1..Len(work.gen) |-> Total(TimeWorth, work.gen[s])])
    <3>1. Total(TimeWorth, flat) = SumFunction([s \in 1..Len(work.gen) |-> Total(TimeWorth, work.gen[s])])
      BY <1>2, <2>1, TotalOfStages DEF Stages, Decoders, flat
    <3>. QED  BY <2>3, <3>1 DEF Total
  <2>5. ASSUME NEW s \in 1..Len(BuiltGen) PROVE Total(TimeWorth, work.gen[s]) = StageTimes[s]
    <3> DEFINE b == work.gen[s]
    <3>1. SumFunction(TimesOf(b)) = StageTimes[s]
      BY <1>1, <1>2, <1>6 DEF StagesInv
    <3>2. b \in Seq(LayerRec)
      BY <1>2 DEF Decoders
    <3> HIDE DEF b
    <3>3. \A i \in DOMAIN b : b[i] \in LayerRec
      BY <3>2, LenProperties, ElementOfSeq
    <3>4. [i \in DOMAIN b |-> TimeWorth[b[i]]] = TimesOf(b)
      BY <3>3 DEF TimesOf, TimeWorth
    <3>. QED  BY <3>1, <3>4 DEF Total, b
  <2>6. StageTimes = [s \in 1..Len(BuiltGen) |-> StageTimes[s]]
    <3>1. DOMAIN BuiltGen = 1..Len(BuiltGen)
      BY <1>2, BuiltTypes, LenProperties DEF TypedInv, Stages
    <3>. QED  BY <3>1 DEF StageTimes
  <2>7. [s \in 1..Len(work.gen) |-> Total(TimeWorth, work.gen[s])] = StageTimes
    BY <1>2, <2>5, <2>6
  <2>. QED  BY <2>4, <2>7
<1>7. StageTimes = [i \in DOMAIN NewGen |-> BlockTime(NewOwn, NewOther, NewGen[i], TheConfig, call)]
  BY DEF StageTimes, NewGen
<1>8. ASSUME SteadyEnergies
      PROVE  work.all = SumFunction([i \in DOMAIN new |-> TotalEnergy(new[i].energy)])
  <2>1. new \in Seq(LayerRec)
    BY <1>4, FlattenType DEF Stages, Decoders
  <2>2. Total(EnergyWorth, new) = StageEnergies(NewGen, Len(NewGen))
    BY <1>4, EnergyIsWorth, TotalOfStages DEF Stages, Decoders, StageEnergies
  <2> HIDE DEF new
  <2>3. \A i \in DOMAIN new : new[i] \in LayerRec
    BY <2>1, LenProperties, ElementOfSeq
  <2>4. [i \in DOMAIN new |-> EnergyWorth[new[i]]] = [i \in DOMAIN new |-> TotalEnergy(new[i].energy)]
    BY <2>3, EnergyIsWorth
  <2>. QED  BY <1>1, <1>8, <2>2, <2>4 DEF Total
<1>9. TheConfig.model = model
  BY DEF TheConfig
<1> DEFINE figures == FiguresOf(TheConfig, call, NewOwn, NewOther, NewSum, NewGen)
<1>10. /\ figures.s_time = ndec * SumFunction(SumPart(work.sum, "s_time"))
       /\ SteadyTimes => figures.g_time = ndec * SumFunction(GenPart(flat, "g_time"))
       /\ SteadyEnergies => figures.g_energy = ndec * work.all
  <2> DEFINE cfg == TheConfig
  <2>2. figures
          = [s_time |-> cfg.model.infos.ndec * SumFunction([i \in DOMAIN NewSum |-> IF NewSum[i].type = "X2G" THEN 0 ELSE NewSum[i].time]),
             g_time |-> cfg.model.infos.ndec * SumFunction([i \in DOMAIN NewGen |-> BlockTime(NewOwn, NewOther, NewGen[i], cfg, call)]),
             g_energy |-> cfg.model.infos.ndec * SumFunction([i \in DOMAIN new |-> TotalEnergy(new[i].energy)])]
    BY FiguresAre
  <2> HIDE DEF flat, figures
  <2>. QED  BY <1>5, <1>6, <1>7, <1>8, <1>9, <2>2
<1> HIDE DEF figures
<1> DEFINE a == SumFunction(SumPart(work.sum, "s_time"))
           b == SumFunction(GenPart(flat, "g_time"))
           e == work.all
<1>11. a \in Int /\ b \in Int /\ e \in Int /\ ndec \in Int
  <2>1. flat \in Seq(LayerRec)
    BY <1>2, FlattenType DEF Stages, Decoders
  <2>. QED  BY <1>2, <2>1, PartTypes DEF Decoders
<1>12. ndec * a = a * ndec /\ ndec * b = b * ndec /\ ndec * e = e * ndec
  <2> HIDE DEF ndec, a, b, e
  <2>. QED  BY <1>11
<1>13. ASSUME NEW name \in Promised(TheConfig) PROVE Column(row, name) = figures[name]
  <2>1. name \in {"s_time", "g_time", "g_energy"}
    BY <1>2, <1>13, PromisedMeans DEF TypedInv
  <2>2. (name = "g_time" => SteadyTimes) /\ (name = "g_energy" => SteadyEnergies)
    BY <1>13 DEF SteadyTimes, SteadyEnergies
  <2>. QED  BY <1>3, <1>10, <1>12, <2>1, <2>2
<1>14. Figures(TheConfig, call) = [name \in Promised(TheConfig) |-> figures[name]]
  BY <1>2, FiguresFromNew DEF figures
<1> HIDE DEF figures
<1>. QED  BY <1>13, <1>14 DEF Reads, row

(* The state of the abstract answer, and what its steps are in terms of it.   *)
TheCalling == IF pc \in {"none", "idle"} THEN {} ELSE {call}
TheAnswer == {[call |-> a.call, figures |-> Reads(a.row)] : a \in answer}
Unseen == UNCHANGED <<TheConfig, TheCalling, TheAnswer>>

(* How a step is told from what it does to them.                             *)
LEMMA ServiceSteps ==
  /\ TheCalling = {} /\ TheCalling' = {} /\ TheAnswer' = {} => Service!Configure
  /\ (/\ TheCalling = {} /\ \E c \in Calls : TheCalling' = {c}
      /\ TheAnswer' = {} /\ TheConfig' = TheConfig) => Service!Begin
  /\ (/\ TheCalling # {} /\ TheCalling' = {}
      /\ \E c \in TheCalling : TheAnswer' = {[call |-> c, figures |-> Figures(TheConfig, c)]}
      /\ TheConfig' = TheConfig) => Service!Estimate
  /\ (/\ TheCalling # {} /\ TheCalling' = {}
      /\ TheConfig' = TheConfig /\ TheAnswer' = TheAnswer) => Service!Fail
<1>1. TheCalling = {} /\ TheCalling' = {} /\ TheAnswer' = {} => Service!Configure
  BY DEF Service!Configure, TheCalling, TheAnswer, Reads
<1>2. (/\ TheCalling = {} /\ \E c \in Calls : TheCalling' = {c}
       /\ TheAnswer' = {} /\ TheConfig' = TheConfig) => Service!Begin
  BY DEF Service!Begin, TheCalling, TheAnswer, TheConfig, Reads
<1>3. (/\ TheCalling # {} /\ TheCalling' = {}
       /\ \E c \in TheCalling : TheAnswer' = {[call |-> c, figures |-> Figures(TheConfig, c)]}
       /\ TheConfig' = TheConfig) => Service!Estimate
  BY DEF Service!Estimate, TheCalling, TheAnswer, TheConfig, Reads
<1>4. (/\ TheCalling # {} /\ TheCalling' = {}
       /\ TheConfig' = TheConfig /\ TheAnswer' = TheAnswer) => Service!Fail
  BY DEF Service!Fail, TheCalling, TheAnswer, TheConfig, Reads
<1>. QED  BY <1>1, <1>2, <1>3, <1>4

(* An answer that stays, in a configuration that stays, reads the same.        *)
LEMMA AnswerKept ==
  ASSUME answer' = answer, TheConfig' = TheConfig
  PROVE  TheAnswer' = TheAnswer
<1>1. Promised(TheConfig)' = Promised(TheConfig)
  BY DEF Promised
<1>. QED  BY <1>1 DEF TheAnswer, Reads, Column

(* The steps inside a call are not seen by its caller.                       *)
LEMMA InnerStepsUnseen ==
  ASSUME KeysApart, TypedInv, Consistent, CountInv, AsNewInv,
         SumLayer \/ EndOfSum \/ GenLayer \/ EndOfStage \/ NextBatch
  PROVE  Unseen
<1>1. Calling /\ Calling' /\ call' = call /\ answer' = answer
  BY DEF SumLayer, EndOfSum, GenLayer, EndOfStage, NextBatch, Calling
<1>2. TheCalling' = TheCalling
  BY <1>1 DEF TheCalling, Calling
<1>3. ASSUME ConfigurationKept PROVE TheAnswer' = TheAnswer
  BY <1>1, <1>3, AnswerKept DEF ConfigurationKept
<1>4. /\ DevicesTyped /\ BuiltInv /\ AllTold(work.sum, HeadDim(model.infos)) /\ \A s \in 1..Len(work.gen) : AllTold(work.gen[s], HeadDim(model.infos))
      /\ work.sum \in Decoders /\ DOMAIN work.sum = 1..Len(work.sum) /\ work.at \in Nat /\ work.at >= 1
      /\ \A s \in 1..Len(work.gen) : /\ work.gen[s] \in Decoders
                                     /\ DOMAIN work.gen[s] = 1..Len(work.gen[s])
                                     /\ Len(work.gen[s]) \in Nat
      /\ Len(work.sum) \in Nat
  BY <1>1, WorkBuilt, WorkTold
<1>5. CASE SumLayer
  <2> DEFINE l == work.sum[work.at]
  <2>1. work.at \in 1..Len(work.sum)
    BY <1>4, <1>5 DEF SumLayer
  <2>2. l \in LayerRec /\ Told(l)
    BY <1>4, <2>1, ElementOfSeq DEF Decoders, AllTold, ToldAt
  <2>3. Asking(l)
    BY <1>4, <1>5, SumLayerAsks
  <2> HIDE DEF l
  <2>4. ConfigurationKept
    BY <1>4, <2>2, <2>3, AskedDevices DEF AsNewInv
  <2>. QED  BY <1>2, <1>3, <2>4 DEF ConfigurationKept, Unseen
<1>6. CASE GenLayer
  <2> DEFINE b == work.gen[work.stage]
             l == b[work.at]
  <2>1. work.stage \in 1..Len(work.gen)
    BY <1>1, <1>6, WorkBuilt DEF WorkTyped, GenLayer
  <2>2. work.at \in 1..Len(b) /\ b \in Decoders /\ DOMAIN b = 1..Len(b) /\ AllTold(b, HeadDim(model.infos))
    BY <1>4, <1>6, <2>1 DEF GenLayer
  <2>3. Asking(l)
    BY <1>4, <1>6, GenLayerAsks
  <2> HIDE DEF b
  <2>4. l \in LayerRec /\ Told(l)
    BY <2>2, ElementOfSeq DEF Decoders, AllTold, ToldAt
  <2> HIDE DEF l
  <2>5. ConfigurationKept
    BY <1>4, <2>3, <2>4, AskedDevices DEF AsNewInv
  <2>. QED  BY <1>2, <1>3, <2>5 DEF ConfigurationKept, Unseen
<1>7. CASE EndOfSum \/ EndOfStage \/ NextBatch
  <2>1. gpu' = gpu /\ acc' = acc /\ hetero' = hetero /\ model' = model /\ call' = call
    BY <1>7 DEF EndOfSum, EndOfStage, NextBatch
  <2>2. ConfigurationKept
    BY <2>1, LeftAlone
  <2>. QED  BY <1>2, <1>3, <2>2 DEF ConfigurationKept, Unseen
<1>. QED  BY <1>5, <1>6, <1>7

(* Every step is one of the abstract answer, or is not seen.                  *)
LEMMA StepsImplementService ==
  ASSUME SimulatorAnswers, SimulatorInQuanta, KeysApart
  PROVE  AsNewInv /\ TypedInv /\ Consistent /\ CountInv /\ [Next]_vars => Service!Next \/ Unseen
<1> SUFFICES ASSUME AsNewInv, TypedInv, Consistent, CountInv, [Next]_vars PROVE Service!Next \/ Unseen
  OBVIOUS
<1> USE DEF Service!Next
<1>1. CASE \/ \E infos \in Models \cup {NoModel}, name \in {"NONE", "CPU"} : New(infos, name)
           \/ \E infos \in Models : SetModel(infos) \/ \E config \in PimConfigs : SetPim(infos, config)
           \/ SetCpu \/ (\E n \in GpuCounts : SetXpu(n))
  <2>1. pc \in {"none", "idle"} /\ pc' = "idle" /\ (answer' = {} \/ (pc = "none" /\ answer' = answer))
    BY <1>1 DEF New, SetModel, SetPim, SetCpu, SetXpu, Configuring
  <2>2. answer' = {}
    BY <2>1 DEF AsNewInv, UnmadeInv
  <2>3. TheCalling = {} /\ TheCalling' = {} /\ TheAnswer' = {}
    BY <2>1, <2>2 DEF TheCalling, TheAnswer
  <2>. QED  BY <2>3, ServiceSteps
<1>2. ASSUME NEW c \in Calls, Simulate(c) PROVE Service!Next
  <2>1. /\ pc = "idle" /\ pc' = "sum" /\ call' = c /\ answer' = {}
        /\ gpu' = gpu /\ acc' = acc /\ hetero' = hetero /\ model' = model
    BY <1>2 DEF Simulate
  <2>2. Without(acc)' = Without(acc)
    BY <2>1 DEF Without
  <2>3. TheConfig' = TheConfig /\ TheCalling = {} /\ TheCalling' = {c} /\ TheAnswer' = {}
    BY <2>1, <2>2 DEF TheConfig, TheCalling, TheAnswer
  <2>. QED  BY <2>3, ServiceSteps
<1>3. CASE SumLayer \/ EndOfSum \/ GenLayer \/ EndOfStage \/ NextBatch
  BY <1>3, InnerStepsUnseen
<1>4. CASE Fail
  <2>1. /\ pc = "report" /\ pc' = "idle" /\ answer' = answer
        /\ gpu' = gpu /\ acc' = acc /\ hetero' = hetero /\ model' = model /\ call' = call
    BY <1>4 DEF Fail
  <2>2. TheConfig' = TheConfig
    BY <2>1, LeftAlone DEF ConfigurationKept
  <2>3. TheCalling # {} /\ TheCalling' = {} /\ TheAnswer' = TheAnswer
    BY <2>1, <2>2, AnswerKept DEF TheCalling
  <2>. QED  BY <2>2, <2>3, ServiceSteps
<1>5. CASE Report
  <2> DEFINE row == Row(work.batches[1])
  <2>1. /\ pc = "report" /\ pc' = "idle" /\ answer' = {[call |-> call, row |-> row]}
        /\ Len(work.batches) = 1 /\ Calling
        /\ gpu' = gpu /\ acc' = acc /\ hetero' = hetero /\ model' = model /\ call' = call
    BY <1>5 DEF Report, Calling
  <2>2. TheConfig' = TheConfig
    BY <2>1, LeftAlone DEF ConfigurationKept
  <2>3. work.itr = 1
    <3>1. work.itr \in 1..Len(work.batches)
      BY <2>1, StagesReady DEF TypedInv, WorkOK
    <3>. QED  BY <2>1, <3>1
  <2>4. Reads(row) = Figures(TheConfig, call)
    BY <2>1, <2>3, RowReadsFigures
  <2> HIDE DEF row
  <2>5. TheAnswer' = {[call |-> call, figures |-> Figures(TheConfig, call)]}
    <3>2. Promised(TheConfig)' = Promised(TheConfig)
      BY <2>2 DEF Promised
    <3>1. TheAnswer' = {[call |-> call, figures |-> Reads(row)]}
      <4> DEFINE promised == Promised(TheConfig)
                 Read(r) == [name \in promised |-> Column(r, name)]
      <4>1. TheAnswer' = {[call |-> a.call, figures |-> Read(a.row)] : a \in answer'}
        BY <3>2 DEF TheAnswer, Reads, Column
      <4>2. Reads(row) = Read(row)
        BY DEF Reads
      <4> HIDE DEF promised, Read
      <4>3. TheAnswer' = {[call |-> call, figures |-> Read(row)]}
        BY <2>1, <4>1
      <4>. QED  BY <4>2, <4>3
    <3>. QED  BY <2>4, <3>1
  <2>6. TheCalling = {call} /\ TheCalling' = {}
    BY <2>1 DEF TheCalling
  <2>. QED  BY <2>2, <2>5, <2>6, ServiceSteps
<1>6. CASE UNCHANGED vars
  <2>1. /\ pc' = pc /\ gpu' = gpu /\ acc' = acc /\ hetero' = hetero /\ model' = model
        /\ call' = call /\ answer' = answer
    BY <1>6 DEF vars
  <2>2. TheConfig' = TheConfig
    BY <2>1, LeftAlone DEF ConfigurationKept
  <2>. QED  BY <2>1, <2>2, AnswerKept DEF TheCalling, Unseen
<1>. QED  BY <1>1, <1>2, <1>3, <1>4, <1>5, <1>6 DEF Next

(* Whatever was configured, simulated and logged before, with whatever        *)
(* outcome, what is promised of an answer of simulate() is the figures of the  *)
(* configuration and the call: neither the tables of tiles nor what the        *)
(* simulator was asked before shows, nothing is carried over from another     *)
(* call, and the branches of the pipeline compute the overlap of the stages.  *)
THEOREM AnswersAreFigures ==
  ASSUME SimulatorAnswers, SimulatorInQuanta, KeysApart
  PROVE  Spec => AnswersFromConfiguration
<1>1. Init => Service!Init
  <2> SUFFICES ASSUME Init PROVE Service!Init
    OBVIOUS
  <2>1. pc = "none" /\ answer = {}
    BY DEF Init
  <2>. QED  BY <2>1 DEF Service!Init
<1>2. AsNewInv /\ TypedInv /\ Consistent /\ CountInv /\ [Next]_vars => Service!Next \/ Unseen
  BY StepsImplementService
<1>. QED
  BY <1>1, <1>2, AsNewInvHolds, TypedInvHolds, SimulationConsistent, CountInvHolds, PTL
  DEF Spec, AnswersFromConfiguration, Service!Spec, Unseen, TheConfig, TheCalling, TheAnswer, Reads
=============================================================================
