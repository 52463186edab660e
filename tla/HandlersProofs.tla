--------------------------- MODULE HandlersProofs ----------------------------
(***************************************************************************)
(* Proofs about the components that handle one kind of request or event:   *)
(* the storage charge, the hooks of a push, the challenges, the pages of a *)
(* list, and the external copies.                                          *)
(***************************************************************************)
EXTENDS PushHooks, StorageQuota, Challenge, Pagination, ExternalPinning, FiniteSetTheorems, TLAPS

----------------------------------------------------------------------------
(* The storage charge.                                                      *)

Checks == [at : {"sized", "priced", "proposed"}, repo : Holdings, size : Nat, current : Nat, cost : Nat]

QuotaTypes ==
    /\ stored \in [Holdings -> Nat]
    /\ used \in Nat /\ used < Word
    /\ balance \in Nat /\ paid \in Nat
    /\ check \in [Changes -> Checks \cup {NoCheck}]
    /\ grown \in BOOLEAN

(* A difference taken modulo the word's width is a number below it, and the *)
(* difference itself if it fits.                                            *)
LEMMA Modulo ==
    ASSUME NEW w \in Nat \ {0}, NEW d \in Int
    PROVE  /\ d % w \in Nat /\ d % w < w
           /\ 0 <= d /\ d < w => d % w = d
OBVIOUS

(* Rounding down twice does not give more than rounding down the sum.       *)
LEMMA RoundedSum ==
    ASSUME NEW g \in Nat \ {0}, NEW a \in Nat, NEW b \in Nat
    PROVE  /\ a \div g \in Nat /\ b \div g \in Nat /\ (a + b) \div g \in Nat
           /\ (a \div g) + (b \div g) <= (a + b) \div g
OBVIOUS

(* Prices grow with what is bought.                                         *)
LEMMA Prices ==
    ASSUME NEW p \in Nat, NEW x \in Nat, NEW y \in Nat
    PROVE  /\ x * p \in Nat
           /\ x * p + y * p = (x + y) * p
           /\ x <= y => x * p <= y * p
OBVIOUS

(* A new usage is one a word can hold, and the sum if that fits.            *)
LEMMA UsageTypes ==
    ASSUME QuotaTypes, NEW cur \in Nat, NEW size \in Nat
    PROVE  /\ NewUsage(cur, size) \in Nat /\ NewUsage(cur, size) < Word
           /\ size >= cur /\ used + (size - cur) < Word
              => NewUsage(cur, size) = used + (size - cur)
<1> DEFINE d == (size - cur) % Word
<1>1. size - cur \in Int /\ used \in Nat /\ Word \in Nat \ {0}
  BY QuotaAssumption DEF QuotaTypes
<1>2. d \in Nat /\ (size >= cur /\ size - cur < Word => d = size - cur)
  BY <1>1, Modulo
<1>3. used + d \in Int
  BY <1>1, <1>2
<1> HIDE DEF d
<1>4. /\ (used + d) % Word \in Nat /\ (used + d) % Word < Word
      /\ used + d < Word => (used + d) % Word = used + d
  BY <1>1, <1>2, <1>3, Modulo
<1>5. NewUsage(cur, size) = (used + d) % Word
  BY DEF NewUsage, d
<1> QED BY <1>1, <1>2, <1>4, <1>5

(* What a change costs is not negative.                                     *)
LEMMA CostTypes ==
    ASSUME NEW a \in Nat, NEW b \in Nat
    PROVE  CalculateStorageCost(a, b) \in Nat
<1>1. Word \in Nat \ {0} /\ GB \in Nat \ {0} /\ FreeLimit \in Nat /\ Price \in Nat
  BY QuotaAssumption
<1>2. (b - a) % Word \in Nat
  BY <1>1, Modulo
<1>3. ((b - a) % Word) \div GB \in Nat
  BY <1>1, <1>2, RoundedSum
<1>4. (((b - a) % Word) \div GB) * Price \in Nat
  BY <1>1, <1>3, Prices
<1>5. ASSUME b > FreeLimit
      PROVE  ((b - FreeLimit) \div GB) * Price \in Nat
  <2>1. b - FreeLimit \in Nat
    BY <1>1, <1>5
  <2>2. (b - FreeLimit) \div GB \in Nat
    BY <1>1, <2>1, RoundedSum
  <2> QED BY <1>1, <2>2, Prices
<1> QED BY <1>1, <1>4, <1>5 DEF CalculateStorageCost

LEMMA QuotaTypesStart == QuotaInit => QuotaTypes
BY QuotaAssumption DEF QuotaInit, QuotaTypes

(* What a check has read is a repository and numbers.                       *)
LEMMA CheckParts ==
    ASSUME QuotaTypes, NEW c \in Changes, check[c].at \in {"sized", "priced", "proposed"}
    PROVE  /\ check[c] \in Checks /\ check[c].repo \in Holdings
           /\ check[c].size \in Nat /\ check[c].current \in Nat /\ check[c].cost \in Nat
           /\ stored[check[c].repo] \in Nat
<1>1. check[c] \in Checks \cup {NoCheck}
  BY DEF QuotaTypes
<1>2. check[c] # NoCheck
  BY DEF NoCheck
<1>3. check[c] \in Checks
  BY <1>1, <1>2
<1>4. /\ check[c].repo \in Holdings
      /\ check[c].size \in Nat /\ check[c].current \in Nat /\ check[c].cost \in Nat
  BY <1>3 DEF Checks
<1> QED BY <1>3, <1>4 DEF QuotaTypes

(* The chain's charge, and its new usage.                                   *)
LEMMA ChargeTypes ==
    ASSUME QuotaTypes, NEW c \in Changes, c \in Proposed
    PROVE  /\ Charge(c) \in Nat
           /\ NewUsage(stored[check[c].repo], check[c].size) \in Nat
           /\ NewUsage(stored[check[c].repo], check[c].size) < Word
<1>1. check[c].size \in Nat /\ stored[check[c].repo] \in Nat
  BY CheckParts DEF Proposed
<1>2. NewUsage(stored[check[c].repo], check[c].size) \in Nat /\ NewUsage(stored[check[c].repo], check[c].size) < Word
  BY <1>1, UsageTypes
<1> QED BY <1>2, CostTypes DEF Charge, QuotaTypes

(* A check that has begun.                                                  *)
LEMMA Begun ==
    ASSUME QuotaTypes, NEW c \in Changes, check[c] # NoCheck
    PROVE  check[c] \in Checks /\ check[c].at \in {"sized", "priced", "proposed"}
<1>1. check[c] \in Checks
  BY DEF QuotaTypes
<1> QED BY <1>1 DEF Checks

(* A step of the check of c to another place, with a cost.                  *)
LEMMA CheckMoves ==
    ASSUME NEW k \in Checks, NEW l \in {"priced", "proposed"}, NEW cost \in Nat,
           NEW n, n = [k EXCEPT !.at = l, !.cost = cost]
    PROVE  /\ n \in Checks
           /\ n.cost = cost /\ n.repo = k.repo /\ n.size = k.size /\ n.current = k.current
BY DEF Checks

LEMMA QuotaTypesStep == QuotaTypes /\ [QuotaNext]_quotaVars => QuotaTypes'
<1> SUFFICES ASSUME QuotaTypes, [QuotaNext]_quotaVars
             PROVE  QuotaTypes'
  OBVIOUS
<1>1. ASSUME UNCHANGED <<stored, used, balance, paid, grown>>,
             NEW c \in Changes, NEW k \in Checks \cup {NoCheck}, check' = [check EXCEPT ![c] = k]
      PROVE  QuotaTypes'
  BY <1>1 DEF QuotaTypes
<1>2. ASSUME NEW c \in Changes, NEW r \in Holdings, NEW size \in Sizes, QueryPackfile(c, r, size)
      PROVE  QuotaTypes'
  <2>1. PICK cur \in {stored[r], 0} : check' = [check EXCEPT ![c] = NewCheck(r, size, cur)]
    BY <1>2 DEF QueryPackfile
  <2>2. cur \in Nat /\ size \in Nat
    BY <2>1, QuotaAssumption DEF QuotaTypes
  <2>3. NewCheck(r, size, cur) \in Checks
    BY <2>2 DEF NewCheck, Checks
  <2> QED BY <1>1, <1>2, <2>1, <2>3 DEF QueryPackfile
<1>3. ASSUME NEW c \in Changes, QueryQuota(c)
      PROVE  QuotaTypes'
  <2>1. PICK cost : cost = CalculateStorageCost(used, NewUsage(check[c].current, check[c].size))
    OBVIOUS
  <2>2. PICK l \in {"priced", "proposed"} : l = IF cost = 0 THEN "proposed" ELSE "priced"
    OBVIOUS
  <2>3. check' = [check EXCEPT ![c] = [@ EXCEPT !.at = l, !.cost = cost]]
    BY <1>3, <2>1, <2>2 DEF QueryQuota
  <2>4. check[c] \in Checks /\ cost \in Nat
    BY <1>3, <2>1, CheckParts, UsageTypes, CostTypes DEF QueryQuota, Sized, QuotaTypes
  <2>5. PICK k : k = [check[c] EXCEPT !.at = l, !.cost = cost]
    OBVIOUS
  <2>6. k \in Checks
    BY <2>2, <2>4, <2>5, CheckMoves
  <2>7. check' = [check EXCEPT ![c] = k]
    BY <2>3, <2>5
  <2> QED BY <1>1, <1>3, <2>6, <2>7 DEF QueryQuota
<1>4. ASSUME NEW c \in Changes, QueryBalance(c)
      PROVE  QuotaTypes'
  <2>1. check[c] \in Checks
    BY <1>4, CheckParts DEF QueryBalance, Priced
  <2>2. [check[c] EXCEPT !.at = "proposed"] \in Checks
    BY <2>1 DEF Checks
  <2>3. check' = [check EXCEPT ![c] = [check[c] EXCEPT !.at = "proposed"]]
    BY <1>4 DEF QueryBalance
  <2> QED BY <1>1, <1>4, <2>2, <2>3 DEF QueryBalance
<1>5. ASSUME NEW c \in Changes, Drop(c)
      PROVE  QuotaTypes'
  BY <1>1, <1>5 DEF Drop
<1>6. ASSUME NEW c \in Changes, ApproveUpload(c)
      PROVE  QuotaTypes'
  <2>1. /\ c \in Proposed /\ Charge(c) <= balance
        /\ balance' = balance - Charge(c) /\ paid' = paid + Charge(c)
        /\ used' = NewUsage(stored[check[c].repo], check[c].size)
        /\ stored' = [stored EXCEPT ![check[c].repo] = check[c].size]
        /\ grown' = (grown /\ check[c].size >= stored[check[c].repo])
        /\ check' = [check EXCEPT ![c] = NoCheck]
    BY <1>6 DEF ApproveUpload
  <2>2. Charge(c) \in Nat /\ used' \in Nat /\ used' < Word
    BY <2>1, ChargeTypes
  <2>3. check[c].size \in Nat
    BY <2>1, CheckParts DEF Proposed
  <2>4. balance' \in Nat /\ paid' \in Nat
    BY <2>1, <2>2 DEF QuotaTypes
  <2>5. stored' \in [Holdings -> Nat]
    BY <2>1, <2>3 DEF QuotaTypes
  <2>6. check' \in [Changes -> Checks \cup {NoCheck}]
    BY <2>1 DEF QuotaTypes
  <2>7. grown' \in BOOLEAN
    BY <2>1, Zenon
  <2> QED BY <2>1, <2>2, <2>4, <2>5, <2>6, <2>7 DEF QuotaTypes
<1>7. CASE UNCHANGED quotaVars
  BY <1>7 DEF quotaVars, QuotaTypes
<1> QED BY <1>2, <1>3, <1>4, <1>5, <1>6, <1>7 DEF QuotaNext

(* What a usage costs when it is reached in one go.                         *)
Whole(u) == (IF u > FreeLimit THEN (u - FreeLimit) \div GB ELSE 0) * Price

(* An owner's usage, with a packfile that is to be stored, is below 2^64    *)
(* bytes.                                                                   *)
UsageFits == \A c \in Changes : check[c] # NoCheck => used + check[c].size < Word

(* The new usage is then the old one and the growth.                        *)
LEMMA NothingWraps ==
    ASSUME QuotaTypes, UsageFits, NEW c \in Changes, check[c] # NoCheck,
           NEW n \in Nat, check[c].size >= n
    PROVE  /\ check[c].size - n \in Nat /\ used + (check[c].size - n) < Word
           /\ NewUsage(n, check[c].size) = used + (check[c].size - n)
<1>1. check[c].size \in Nat /\ used \in Nat /\ Word \in Nat
  BY Begun, CheckParts, QuotaAssumption DEF QuotaTypes
<1>2. used + check[c].size < Word
  BY DEF UsageFits
<1>3. check[c].size - n \in Nat /\ used + (check[c].size - n) < Word
  BY <1>1, <1>2
<1> QED BY <1>1, <1>3, UsageTypes

(* The charge for growing from one usage to another, added to that for the  *)
(* first, is at most that for the second.                                   *)
LEMMA ChargesAddUp ==
    ASSUME NEW u \in Nat, NEW d \in Nat, u + d < Word
    PROVE  Whole(u) + CalculateStorageCost(u, u + d) <= Whole(u + d)
<1>1. Word \in Nat \ {0} /\ GB \in Nat \ {0} /\ FreeLimit \in Nat /\ Price \in Nat
  BY QuotaAssumption
<1>2. CASE u > FreeLimit
  <2> DEFINE a == u - FreeLimit
  <2>1. a \in Nat /\ u + d > FreeLimit /\ (u + d) - FreeLimit = a + d /\ (u + d) - u = d /\ d < Word
    BY <1>1, <1>2
  <2>2. d % Word = d
    BY <1>1, <2>1, Modulo
  <2>3. CalculateStorageCost(u, u + d) = (d \div GB) * Price
    BY <1>2, <2>1, <2>2 DEF CalculateStorageCost
  <2>4. Whole(u) = (a \div GB) * Price /\ Whole(u + d) = ((a + d) \div GB) * Price
    BY <1>2, <2>1 DEF Whole
  <2>5. /\ a \div GB \in Nat /\ d \div GB \in Nat /\ (a + d) \div GB \in Nat
        /\ (a \div GB) + (d \div GB) <= (a + d) \div GB
    BY <1>1, <2>1, RoundedSum
  <2> DEFINE x == a \div GB
             y == d \div GB
             z == (a + d) \div GB
  <2>6. x * Price + y * Price = (x + y) * Price /\ (x + y) * Price <= z * Price
    <3> HIDE DEF x, y, z
    <3>1. x \in Nat /\ y \in Nat /\ z \in Nat /\ x + y <= z
      BY <2>5 DEF x, y, z
    <3>2. x * Price + y * Price = (x + y) * Price
      BY <1>1, <3>1, Prices
    <3>3. x + y \in Nat
      BY <3>1
    <3>4. (x + y) * Price <= z * Price
      BY <1>1, <3>1, <3>3, Prices
    <3> QED BY <3>2, <3>4
  <2>7. x * Price + y * Price <= z * Price
    BY <2>6
  <2> QED BY <2>3, <2>4, <2>7
<1>3. CASE ~(u > FreeLimit)
  <2>1. Whole(u) = 0
    BY <1>1, <1>3 DEF Whole
  <2>2. CASE u + d <= FreeLimit
    <3>1. CalculateStorageCost(u, u + d) = 0
      BY <1>3, <2>2 DEF CalculateStorageCost
    <3>2. ~(u + d > FreeLimit)
      BY <1>1, <2>2
    <3>3. Whole(u + d) = 0
      BY <1>1, <3>2 DEF Whole
    <3> QED BY <2>1, <3>1, <3>3
  <2>3. CASE u + d > FreeLimit
    <3>1. ~(u + d <= FreeLimit)
      BY <1>1, <2>3
    <3>2. CalculateStorageCost(u, u + d) = Whole(u + d)
      BY <1>3, <2>3, <3>1 DEF CalculateStorageCost, Whole
    <3>3. CalculateStorageCost(u, u + d) \in Nat
      <4>1. u + d \in Nat
        OBVIOUS
      <4> QED BY <4>1, CostTypes
    <3> QED BY <2>1, <3>2, <3>3
  <2> QED BY <1>1, <2>2, <2>3
<1> QED BY <1>2, <1>3

LEMMA WholeTypes ==
    ASSUME NEW u \in Nat
    PROVE  Whole(u) \in Int
<1>1. GB \in Nat \ {0} /\ FreeLimit \in Nat /\ Price \in Nat
  BY QuotaAssumption
<1>2. CASE u > FreeLimit
  <2>1. u - FreeLimit \in Nat
    BY <1>1, <1>2
  <2>2. (u - FreeLimit) \div GB \in Nat
    BY <1>1, <2>1, RoundedSum
  <2>3. ((u - FreeLimit) \div GB) * Price \in Nat
    BY <1>1, <2>2, Prices
  <2> QED BY <1>2, <2>3 DEF Whole
<1>3. CASE ~(u > FreeLimit)
  BY <1>1, <1>3 DEF Whole
<1> QED BY <1>2, <1>3

LEMMA NeverOverchargedStep ==
    QuotaTypes /\ UsageFits /\ NeverOvercharged /\ [QuotaNext]_quotaVars => NeverOvercharged'
<1> SUFFICES ASSUME QuotaTypes, UsageFits, NeverOvercharged, [QuotaNext]_quotaVars, grown'
             PROVE  paid' <= Whole(used')
  BY DEF NeverOvercharged, Whole
<1>1. ASSUME UNCHANGED <<used, paid, grown>>
      PROVE  paid' <= Whole(used')
  BY <1>1 DEF NeverOvercharged, Whole
<1>2. ASSUME NEW c \in Changes, ApproveUpload(c)
      PROVE  paid' <= Whole(used')
  <2> DEFINE old == stored[check[c].repo]
             d == check[c].size - old
  <2>1. c \in Proposed /\ check[c] # NoCheck
    BY <1>2 DEF ApproveUpload, Proposed, NoCheck
  <2>2. check[c].size \in Nat /\ old \in Nat /\ used \in Nat /\ paid \in Nat
    BY <2>1, CheckParts DEF Proposed, QuotaTypes
  <2>3. grown /\ check[c].size >= old /\ paid' = paid + Charge(c) /\ used' = NewUsage(old, check[c].size)
    BY <1>2 DEF ApproveUpload
  <2>4. d \in Nat /\ used + d < Word /\ NewUsage(old, check[c].size) = used + d
    BY <2>1, <2>2, <2>3, NothingWraps
  <2>5. Charge(c) = CalculateStorageCost(used, used + d)
    BY <2>4 DEF Charge
  <2> HIDE DEF d, old
  <2>6. Whole(used) + Charge(c) <= Whole(used + d)
    BY <2>2, <2>4, <2>5, ChargesAddUp
  <2>7. paid <= Whole(used)
    BY <2>3 DEF NeverOvercharged, Whole
  <2>8. Charge(c) \in Nat
    BY <2>1, ChargeTypes
  <2>9. Whole(used) \in Int /\ Whole(used + d) \in Int
    BY <2>2, <2>4, WholeTypes
  <2>10. paid' <= Whole(used + d)
    BY <2>2, <2>3, <2>6, <2>7, <2>8, <2>9
  <2> QED BY <2>3, <2>4, <2>10
<1>3. ASSUME NEW c \in Changes, NEW r \in Holdings, NEW size \in Sizes, QueryPackfile(c, r, size)
      PROVE  paid' <= Whole(used')
  BY <1>1, <1>3 DEF QueryPackfile
<1>4. ASSUME NEW c \in Changes, QueryQuota(c) \/ QueryBalance(c) \/ Drop(c)
      PROVE  paid' <= Whole(used')
  BY <1>1, <1>4 DEF QueryQuota, QueryBalance, Drop
<1>5. CASE UNCHANGED quotaVars
  BY <1>1, <1>5 DEF quotaVars
<1> QED BY <1>2, <1>3, <1>4, <1>5 DEF QuotaNext

(* However an owner's growth is cut into uploads, for any free limit, price *)
(* and unit, the rounded charges do not exceed the one for the whole, as    *)
(* long as the usage fits in its 64 bits.                                   *)
THEOREM PiecesCostNoMore == QuotaSpec /\ []UsageFits => []NeverOvercharged
<1>1. QuotaInit => QuotaTypes /\ NeverOvercharged
  <2> SUFFICES ASSUME QuotaInit PROVE NeverOvercharged
    BY QuotaTypesStart
  <2>1. FreeLimit \in Nat /\ Price \in Nat
    BY QuotaAssumption
  <2>2. used = 0 /\ paid = 0 /\ ~(used > FreeLimit)
    BY <2>1 DEF QuotaInit
  <2>3. 0 * Price = 0
    BY <2>1
  <2> QED BY <2>1, <2>2, <2>3 DEF NeverOvercharged
<1>2. (QuotaTypes /\ NeverOvercharged) /\ UsageFits /\ [QuotaNext]_quotaVars
        => (QuotaTypes /\ NeverOvercharged)'
  BY QuotaTypesStep, NeverOverchargedStep
<1> QED BY <1>1, <1>2, PTL DEF QuotaSpec

(* Rounding down a sum gives at most one part rounded down and the other    *)
(* rounded up.                                                              *)
LEMMA RoundedUp ==
    ASSUME NEW g \in Nat \ {0}, NEW a \in Nat, NEW b \in Nat
    PROVE  /\ (b + g - 1) \div g \in Nat
           /\ (a + b) \div g <= (a \div g) + ((b + g - 1) \div g)
           /\ a <= b => a \div g <= b \div g
OBVIOUS

(* The price of a growth, whatever was used before: at most the gigabytes   *)
(* of it, and less than these by the free storage at most.                  *)
LEMMA CostBounds ==
    ASSUME NEW u \in Nat, NEW d \in Nat, u + d < Word
    PROVE  /\ CalculateStorageCost(u, u + d) <= (d \div GB) * Price
           /\ (d \div GB) * Price <= CalculateStorageCost(u, u + d) + FreeStorage
           /\ (d \div GB) * Price \in Nat /\ FreeStorage \in Nat
<1>1. Word \in Nat \ {0} /\ GB \in Nat \ {0} /\ FreeLimit \in Nat /\ Price \in Nat
  BY QuotaAssumption
<1>2. PICK x : x = d \div GB
  OBVIOUS
<1>3. PICK f : f = (FreeLimit + GB - 1) \div GB
  OBVIOUS
<1>4. x \in Nat /\ f \in Nat
  BY <1>1, <1>2, <1>3, RoundedSum, RoundedUp
<1>5. FreeStorage = f * Price
  BY <1>3 DEF FreeStorage
<1>6. x * Price \in Nat /\ f * Price \in Nat /\ x * Price + f * Price = (x + f) * Price
  BY <1>1, <1>4, Prices
<1>7. CASE u > FreeLimit
  <2>1. (u + d) - u = d /\ d < Word
    BY <1>1
  <2>2. d % Word = d
    BY <1>1, <2>1, Modulo
  <2>3. CalculateStorageCost(u, u + d) = x * Price
    BY <1>2, <1>7, <2>1, <2>2 DEF CalculateStorageCost
  <2> QED BY <1>2, <1>5, <1>6, <2>3
<1>8. CASE ~(u > FreeLimit) /\ u + d <= FreeLimit
  <2>1. CalculateStorageCost(u, u + d) = 0
    BY <1>8 DEF CalculateStorageCost
  <2>2. d <= FreeLimit /\ FreeLimit <= FreeLimit + GB - 1 /\ FreeLimit + GB - 1 \in Nat
    BY <1>1, <1>8
  <2>3. d <= FreeLimit + GB - 1
    BY <1>1, <2>2
  <2>4. x <= f
    BY <1>1, <1>2, <1>3, <2>2, <2>3, RoundedUp
  <2>5. x * Price <= f * Price
    BY <1>1, <1>4, <2>4, Prices
  <2> QED BY <1>2, <1>5, <1>6, <2>1, <2>5
<1>9. CASE ~(u > FreeLimit) /\ u + d > FreeLimit
  <2>1. PICK e \in Nat : e = (u + d) - FreeLimit
    BY <1>1, <1>9
  <2>2. PICK y : y = e \div GB
    OBVIOUS
  <2>3. e <= d /\ d <= e + FreeLimit /\ e + FreeLimit \in Nat
    BY <1>1, <1>9, <2>1
  <2>4. CalculateStorageCost(u, u + d) = y * Price
    BY <1>1, <1>9, <2>1, <2>2 DEF CalculateStorageCost
  <2>5. y \in Nat /\ y <= x
    BY <1>1, <1>2, <2>2, <2>3, RoundedSum, RoundedUp
  <2>6. x <= (e + FreeLimit) \div GB /\ (e + FreeLimit) \div GB <= y + f /\ (e + FreeLimit) \div GB \in Nat
    BY <1>1, <1>2, <1>3, <2>2, <2>3, RoundedSum, RoundedUp
  <2>7. x <= y + f /\ y + f \in Nat
    BY <1>4, <2>5, <2>6
  <2>8. y * Price <= x * Price /\ x * Price <= (y + f) * Price /\ y * Price + f * Price = (y + f) * Price
    BY <1>1, <1>4, <2>5, <2>7, Prices
  <2> QED BY <1>2, <1>5, <1>6, <2>4, <2>8
<1> QED BY <1>1, <1>7, <1>8, <1>9

(* While packfiles only grow, what a check read of one is not more than     *)
(* what it has now.                                                         *)
ReadBefore ==
    grown => \A c \in Changes : check[c] # NoCheck => check[c].current <= stored[check[c].repo]

(* The cost a check has worked out is that of the growth it saw, less the   *)
(* free storage at most.                                                    *)
PricedRight ==
    \A c \in Priced \cup Proposed :
        check[c].size >= check[c].current
            => ((check[c].size - check[c].current) \div GB) * Price <= check[c].cost + FreeStorage

ForeseenInv == QuotaTypes /\ ReadBefore /\ PricedRight

LEMMA ForeseenStep == ForeseenInv /\ UsageFits /\ [QuotaNext]_quotaVars => ForeseenInv'
<1> SUFFICES ASSUME QuotaTypes, ReadBefore, PricedRight, UsageFits, [QuotaNext]_quotaVars
             PROVE  ReadBefore' /\ PricedRight'
  BY QuotaTypesStep DEF ForeseenInv
<1>1. check \in [Changes -> Checks \cup {NoCheck}]
  BY DEF QuotaTypes
<1>2. ASSUME UNCHANGED <<stored, used, balance, paid, grown>>,
             NEW c \in Changes, NEW k \in Checks \cup {NoCheck}, check' = [check EXCEPT ![c] = k],
             k # NoCheck => k.current <= stored[k.repo] \/ ~grown,
             k.at \in {"priced", "proposed"} /\ k.size >= k.current
                 => ((k.size - k.current) \div GB) * Price <= k.cost + FreeStorage
      PROVE  ReadBefore' /\ PricedRight'
  <2>1. check'[c] = k /\ \A b \in Changes \ {c} : check'[b] = check[b]
    BY <1>1, <1>2
  <2>2. ReadBefore'
    BY <1>2, <2>1 DEF ReadBefore
  <2>3. PricedRight'
    BY <1>2, <2>1 DEF PricedRight, Priced, Proposed
  <2> QED BY <2>2, <2>3
<1>3. ASSUME NEW c \in Changes, NEW r \in Holdings, NEW size \in Sizes, QueryPackfile(c, r, size)
      PROVE  ReadBefore' /\ PricedRight'
  <2>1. PICK cur \in {stored[r], 0} : check' = [check EXCEPT ![c] = NewCheck(r, size, cur)]
    BY <1>3 DEF QueryPackfile
  <2>2. cur \in Nat /\ size \in Nat /\ cur <= stored[r]
    BY <2>1, QuotaAssumption DEF QuotaTypes
  <2>3. PICK k : k = NewCheck(r, size, cur)
    OBVIOUS
  <2>4. k \in Checks /\ k.at = "sized" /\ k.current = cur /\ k.repo = r
    BY <2>2, <2>3 DEF NewCheck, Checks
  <2> QED BY <1>2, <1>3, <2>1, <2>2, <2>3, <2>4 DEF QueryPackfile
<1>4. ASSUME NEW c \in Changes, QueryQuota(c)
      PROVE  ReadBefore' /\ PricedRight'
  <2>1. PICK cost : cost = CalculateStorageCost(used, NewUsage(check[c].current, check[c].size))
    OBVIOUS
  <2>2. PICK l \in {"priced", "proposed"} : l = IF cost = 0 THEN "proposed" ELSE "priced"
    OBVIOUS
  <2>3. check' = [check EXCEPT ![c] = [check[c] EXCEPT !.at = l, !.cost = cost]]
    BY <1>4, <2>1, <2>2 DEF QueryQuota
  <2>4. check[c] # NoCheck /\ check[c] \in Checks
        /\ check[c].current \in Nat /\ check[c].size \in Nat /\ used \in Nat
    BY <1>4, CheckParts DEF QueryQuota, Sized, NoCheck, QuotaTypes
  <2>5. cost \in Nat
    BY <2>1, <2>4, UsageTypes, CostTypes DEF QuotaTypes
  <2>6. PICK k : k = [check[c] EXCEPT !.at = l, !.cost = cost]
    OBVIOUS
  <2>7. k \in Checks /\ k.cost = cost /\ k.repo = check[c].repo /\ k.size = check[c].size
        /\ k.current = check[c].current
    <3>1. k \in Checks
      BY <2>2, <2>4, <2>5, <2>6, CheckMoves
    <3> QED BY <2>4, <2>5, <2>6, <3>1 DEF Checks
  <2>8. ASSUME check[c].size >= check[c].current
        PROVE  ((check[c].size - check[c].current) \div GB) * Price <= cost + FreeStorage
    BY <2>1, <2>4, <2>8, NothingWraps, CostBounds
  <2>9. k.current <= stored[k.repo] \/ ~grown
    BY <2>4, <2>7 DEF ReadBefore
  <2> QED BY <1>2, <1>4, <2>3, <2>6, <2>7, <2>8, <2>9 DEF QueryQuota
<1>5. ASSUME NEW c \in Changes, QueryBalance(c)
      PROVE  ReadBefore' /\ PricedRight'
  <2>1. check[c] # NoCheck /\ check[c] \in Checks /\ c \in Priced
    BY <1>5, CheckParts DEF QueryBalance, Priced, NoCheck
  <2>2. PICK k : k = [check[c] EXCEPT !.at = "proposed"]
    OBVIOUS
  <2>3. k \in Checks /\ k.cost = check[c].cost /\ k.repo = check[c].repo /\ k.size = check[c].size
        /\ k.current = check[c].current
    BY <2>1, <2>2 DEF Checks
  <2>4. check' = [check EXCEPT ![c] = k]
    BY <1>5, <2>2 DEF QueryBalance
  <2>5. k.current <= stored[k.repo] \/ ~grown
    BY <2>1, <2>3 DEF ReadBefore
  <2>6. k.size >= k.current => ((k.size - k.current) \div GB) * Price <= k.cost + FreeStorage
    BY <2>1, <2>3 DEF PricedRight
  <2> QED BY <1>2, <1>5, <2>3, <2>4, <2>5, <2>6 DEF QueryBalance
<1>6. ASSUME NEW c \in Changes, Drop(c)
      PROVE  ReadBefore' /\ PricedRight'
  <2>1. NoCheck.at \notin {"priced", "proposed"}
    BY DEF NoCheck
  <2> QED BY <1>2, <1>6, <2>1 DEF Drop
<1>7. ASSUME NEW c \in Changes, ApproveUpload(c)
      PROVE  ReadBefore' /\ PricedRight'
  <2>1. /\ c \in Proposed
        /\ stored' = [stored EXCEPT ![check[c].repo] = check[c].size]
        /\ grown' = (grown /\ check[c].size >= stored[check[c].repo])
        /\ check' = [check EXCEPT ![c] = NoCheck]
    BY <1>7 DEF ApproveUpload
  <2>2. check'[c] = NoCheck /\ \A b \in Changes \ {c} : check'[b] = check[b]
    BY <1>1, <2>1
  <2>3. PricedRight'
    <3>1. NoCheck.at \notin {"priced", "proposed"}
      BY DEF NoCheck
    <3> QED BY <2>2, <3>1 DEF PricedRight, Priced, Proposed
  <2>4. ASSUME grown', NEW b \in Changes, check'[b] # NoCheck
        PROVE  check'[b].current <= stored'[check'[b].repo]
    <3>1. b # c /\ check'[b] = check[b] /\ check[b] # NoCheck
      BY <2>2, <2>4
    <3>2. grown /\ check[c].size >= stored[check[c].repo]
      BY <2>1, <2>4
    <3>3. check[b].current \in Nat /\ check[b].repo \in Holdings /\ stored[check[b].repo] \in Nat
      BY <3>1, Begun, CheckParts
    <3>4. check[b].current <= stored[check[b].repo]
      BY <3>1, <3>2 DEF ReadBefore
    <3>5. check[c].size \in Nat /\ check[c].repo \in Holdings /\ stored \in [Holdings -> Nat]
      BY <2>1, CheckParts DEF Proposed, QuotaTypes
    <3>6. stored[check[b].repo] <= stored'[check[b].repo] /\ stored'[check[b].repo] \in Nat
      BY <2>1, <3>2, <3>3, <3>5
    <3> QED BY <3>1, <3>3, <3>4, <3>6
  <2> QED BY <2>3, <2>4 DEF ReadBefore
<1>8. CASE UNCHANGED quotaVars
  BY <1>8 DEF quotaVars, ReadBefore, PricedRight, Priced, Proposed
<1> QED BY <1>3, <1>4, <1>5, <1>6, <1>7, <1>8 DEF QuotaNext

LEMMA ForeseenFollows == ForeseenInv /\ UsageFits => ChargeIsForeseen
<1> SUFFICES ASSUME ForeseenInv, UsageFits, grown, NEW c \in Proposed,
                    check[c].size >= stored[check[c].repo]
             PROVE  Charge(c) <= check[c].cost + FreeStorage
  BY DEF ChargeIsForeseen
<1>1. c \in Changes /\ QuotaTypes /\ check[c] # NoCheck
  BY DEF ForeseenInv, Proposed, NoCheck
<1>2. PICK s, o, n, k : s = check[c].size /\ o = stored[check[c].repo] /\ n = check[c].current /\ k = check[c].cost
  OBVIOUS
<1>3. s \in Nat /\ o \in Nat /\ n \in Nat /\ k \in Nat /\ used \in Nat
  BY <1>1, <1>2, CheckParts DEF Proposed, QuotaTypes
<1>4. n <= o /\ o <= s
  BY <1>1, <1>2, <1>3 DEF ForeseenInv, ReadBefore
<1>5. s - o \in Nat /\ used + (s - o) < Word /\ NewUsage(o, s) = used + (s - o)
  BY <1>1, <1>2, <1>3, <1>4, NothingWraps
<1>6. Charge(c) = CalculateStorageCost(used, used + (s - o))
  BY <1>2, <1>5 DEF Charge
<1>7. Charge(c) <= ((s - o) \div GB) * Price /\ Charge(c) \in Nat /\ ((s - o) \div GB) * Price \in Nat
      /\ FreeStorage \in Nat
  BY <1>1, <1>3, <1>5, <1>6, CostBounds, ChargeTypes
<1>8. s - n \in Nat /\ s - o <= s - n /\ GB \in Nat \ {0} /\ Price \in Nat
  BY <1>3, <1>4, QuotaAssumption
<1>9. PICK x, y : x = (s - o) \div GB /\ y = (s - n) \div GB
  OBVIOUS
<1>10. x \in Nat /\ y \in Nat /\ x <= y
  BY <1>5, <1>8, <1>9, RoundedSum, RoundedUp
<1>11. x * Price <= y * Price /\ y * Price \in Nat
  BY <1>8, <1>10, Prices
<1>12. y * Price <= k + FreeStorage
  BY <1>2, <1>3, <1>4, <1>9 DEF ForeseenInv, PricedRight
<1> QED BY <1>2, <1>3, <1>7, <1>9, <1>11, <1>12

(* For any prices, limits and sizes, and any number of uploads that are     *)
(* checked and approved at once: the charge for a proposal is at most what  *)
(* its own check worked out, and the price of the free storage.  The        *)
(* invariant is that the size a check read is not more than the one on the  *)
(* chain, and that its cost is that of the growth it saw.                   *)
THEOREM ChargesForeseen == QuotaSpec /\ []UsageFits => []ChargeIsForeseen
<1>1. QuotaInit => ForeseenInv
  <2> SUFFICES ASSUME QuotaInit PROVE ReadBefore /\ PricedRight
    BY QuotaTypesStart DEF ForeseenInv
  <2>1. \A c \in Changes : check[c] = NoCheck
    BY DEF QuotaInit
  <2>2. NoCheck.at \notin {"priced", "proposed"}
    BY DEF NoCheck
  <2> QED BY <2>1, <2>2 DEF ReadBefore, PricedRight, Priced, Proposed
<1> QED BY <1>1, ForeseenStep, ForeseenFollows, PTL DEF QuotaSpec

----------------------------------------------------------------------------
(* The hooks of a push.                                                     *)

HooksTypes ==
    /\ tip \in [Refs -> Commits \cup {Zero}]
    /\ push \in Seq(Updates)
    /\ at \in {"pre", "apply", "post"} => Len(push) >= 1

(* Between receive-pack and post-receive: what a ref had is reached, once   *)
(* post-receive has done its work.                                          *)
KeptAtPost == at = "post" => had \subseteq Reached(tip, dangling \cup Saved(push[1])) \cup lost

HooksInv == HooksTypes /\ OldTipsKept /\ KeptAtPost

(* A commit is an ancestor of itself, and ancestors of ancestors are        *)
(* ancestors.                                                               *)
LEMMA Ancestry ==
    ASSUME NEW c \in Commits
    PROVE  /\ c \in Line[c]
           /\ \A d \in Line[c] : d \in Commits /\ Line[d] \subseteq Line[c]
<1>1. c \in Line[c]
  BY DEF Line
<1>2. ASSUME NEW d \in Line[c]
      PROVE  d \in Commits /\ Line[d] \subseteq Line[c]
  <2>1. d \in Commits
    BY <1>2 DEF Line
  <2>2. ASSUME NEW a \in Line[d]
        PROVE  a \in Line[c]
    <3>1. a \in Commits
      BY <2>1, <2>2 DEF Line
    <3>2. ASSUME NEW S \in SUBSET Commits, c \in S, WithParents(S)
          PROVE  a \in S
      <4>1. d \in S
        BY <1>2, <3>2 DEF Line
      <4> QED BY <2>1, <2>2, <3>2, <4>1 DEF Line
    <3> QED BY <3>1, <3>2 DEF Line
  <2> QED BY <2>1, <2>2
<1> QED BY <1>1, <1>2

(* More refs reach more.                                                    *)
LEMMA ReachedGrows ==
    ASSUME NEW t, NEW d, NEW e, d \subseteq e
    PROVE  Reached(t, d) \subseteq Reached(t, e)
BY DEF Reached

(* The updates that apply are some of the push, and find the value they     *)
(* expect.                                                                  *)
Finds(us) == us \in Seq(Updates) /\ \A i \in DOMAIN us : us[i] \in Updates /\ Applies(us[i])

LEMMA FoundPushes ==
    ASSUME NEW a \in Updates, NEW b \in Updates
    PROVE  /\ Finds(<<>>)
           /\ Applies(a) => Finds(<<a>>)
           /\ Applies(b) => Finds(<<b>>)
           /\ Applies(a) /\ Applies(b) => Finds(<<a>> \o <<b>>)
<1>1. Finds(<<>>)
  BY DEF Finds
<1>2. ASSUME NEW u \in Updates, Applies(u)
      PROVE  Finds(<<u>>)
  <2>1. <<u>> \in Seq(Updates) /\ DOMAIN <<u>> = {1} /\ <<u>>[1] = u
    OBVIOUS
  <2> QED BY <1>2, <2>1 DEF Finds
<1>3. ASSUME Applies(a), Applies(b)
      PROVE  Finds(<<a>> \o <<b>>)
  <2> DEFINE s == <<a>> \o <<b>>
  <2>1. s \in Seq(Updates) /\ DOMAIN s = {1, 2} /\ s[1] = a /\ s[2] = b
    OBVIOUS
  <2> HIDE DEF s
  <2>2. Finds(s)
    BY <1>3, <2>1 DEF Finds
  <2> QED BY <2>2 DEF s
<1> QED BY <1>1, <1>2, <1>3

LEMMA AppliedFinds ==
    ASSUME HooksTypes, at = "apply"
    PROVE  Finds(Applied)
<1> DEFINE a == push[1]
           b == push[2]
<1>1. a \in Updates /\ (Len(push) = 2 => b \in Updates)
  BY DEF HooksTypes
<1>2. Applied = IfApplies(a) \o (IF Len(push) = 2 THEN IfApplies(b) ELSE <<>>)
  BY DEF Applied
<1>3. /\ (Applies(a) /\ IfApplies(a) = <<a>>) \/ IfApplies(a) = <<>>
      /\ (Applies(b) /\ IfApplies(b) = <<b>>) \/ IfApplies(b) = <<>>
  BY DEF IfApplies
<1> HIDE DEF a, b
<1>4. <<>> \o <<>> = <<>> /\ <<a>> \o <<>> = <<a>>
  OBVIOUS
<1>5. CASE Len(push) = 2
  <2>1. <<>> \o <<b>> = <<b>>
    OBVIOUS
  <2>2. \/ Applied = <<>>
        \/ Applied = <<a>> /\ Applies(a)
        \/ Applied = <<b>> /\ Applies(b)
        \/ Applied = <<a>> \o <<b>> /\ Applies(a) /\ Applies(b)
    BY <1>2, <1>3, <1>4, <1>5, <2>1
  <2> QED BY <1>1, <1>5, <2>2, FoundPushes
<1>6. CASE Len(push) # 2
  <2>1. Applied = <<>> \/ (Applied = <<a>> /\ Applies(a))
    BY <1>2, <1>3, <1>4, <1>6
  <2> QED BY <1>1, <2>1, FoundPushes
<1> QED BY <1>5, <1>6

(* The refs after the updates have commits, each the one it had or the new  *)
(* one of an update.                                                        *)
LEMMA MovedRefs ==
    ASSUME HooksTypes, NEW us, Finds(us), NEW r \in Refs
    PROVE  /\ Moved(us)[r] \in Commits \cup {Zero}
           /\ \/ Moved(us)[r] = tip[r]
              \/ \E i \in DOMAIN us : us[i].ref = r /\ us[i].old = tip[r] /\ Moved(us)[r] = us[i].new
<1>1. CASE \E i \in DOMAIN us : us[i].ref = r
  <2>1. PICK i : i = CHOOSE j \in DOMAIN us : us[j].ref = r
    OBVIOUS
  <2>2. i \in DOMAIN us /\ us[i].ref = r
    BY <1>1, <2>1, Zenon
  <2>3. Moved(us)[r] = us[i].new
    BY <1>1, <2>1 DEF Moved
  <2>4. us[i] \in Updates /\ us[i].old = tip[r]
    BY <2>2 DEF Finds, Applies
  <2>5. us[i].new \in Commits \cup {Zero}
    BY <2>4 DEF Updates
  <2> QED BY <2>2, <2>3, <2>4, <2>5
<1>2. CASE ~(\E i \in DOMAIN us : us[i].ref = r)
  <2>1. Moved(us)[r] = tip[r]
    BY <1>2 DEF Moved
  <2> QED BY <2>1 DEF HooksTypes
<1> QED BY <1>1, <1>2

(* What was reached is reached after the updates, from a ref or through     *)
(* what post-receive will keep, or it is behind something passed over.      *)
LEMMA StillReached ==
    ASSUME HooksTypes, NEW us, Finds(us), NEW D, dangling \subseteq D,
           us # <<>> => Saved(us[1]) \subseteq D
    PROVE  Reached(tip, dangling) \subseteq Reached(Moved(us), D) \cup PassedOver(us)
<1> SUFFICES ASSUME NEW x \in Reached(tip, dangling)
             PROVE  x \in Reached(Moved(us), D) \cup PassedOver(us)
  OBVIOUS
<1>1. PICK c \in (dangling \cup {tip[r] : r \in Refs}) \ {Zero} : x \in Line[c]
  BY DEF Reached
<1>2. ASSUME c \in D \cup {Moved(us)[r] : r \in Refs}
      PROVE  x \in Reached(Moved(us), D)
  BY <1>1, <1>2 DEF Reached
<1>3. CASE c \in dangling
  BY <1>2, <1>3
<1>4. ASSUME NEW r \in Refs, c = tip[r]
      PROVE  x \in Reached(Moved(us), D) \cup PassedOver(us)
  <2>1. CASE Moved(us)[r] = tip[r]
    BY <1>2, <1>4, <2>1
  <2>2. CASE Moved(us)[r] # tip[r]
    <3>1. PICK i \in DOMAIN us : us[i].ref = r /\ us[i].old = c /\ Moved(us)[r] = us[i].new
      BY <1>4, <2>2, MovedRefs
    <3>2. us[i] \in Updates /\ c # Zero
      BY <1>1, <3>1 DEF Finds
    <3>3. CASE ~Rewrites(us[i])
      <4>1. us[i].new # Zero /\ us[i].new \in Commits /\ c \in Line[us[i].new]
        BY <3>1, <3>2, <3>3 DEF Rewrites, Deletes, IsForcePush, Creates, Updates
      <4>2. x \in Line[us[i].new]
        BY <1>1, <4>1, Ancestry
      <4>3. us[i].new \in (D \cup {Moved(us)[q] : q \in Refs}) \ {Zero}
        BY <1>4, <3>1, <4>1
      <4> QED BY <4>2, <4>3 DEF Reached
    <3>4. CASE Rewrites(us[i]) /\ (i # 1 \/ MergeBaseFails(us[i]))
      <4>1. x \in PassedOver(us)
        BY <1>1, <3>1, <3>4 DEF PassedOver
      <4> QED BY <4>1
    <3>5. CASE Rewrites(us[i]) /\ i = 1 /\ ~MergeBaseFails(us[i])
      <4>1. us # <<>>
        BY <3>1
      <4>2. c \in D
        BY <3>1, <3>5, <4>1 DEF Saved
      <4> QED BY <1>2, <4>2
    <3> QED BY <3>3, <3>4, <3>5
  <2> QED BY <2>1, <2>2
<1> QED BY <1>1, <1>3, <1>4

LEMMA ApplyStep == HooksInv /\ Apply => HooksInv'
<1> SUFFICES ASSUME HooksTypes, OldTipsKept, Apply
             PROVE  HooksInv'
  BY DEF HooksInv
<1>1. /\ at = "apply" /\ push' = Applied /\ tip' = Moved(Applied) /\ UNCHANGED dangling
      /\ at' = IF Applied = <<>> THEN "idle" ELSE "post"
      /\ had' = had \cup ({Moved(Applied)[r] : r \in Refs} \ {Zero})
      /\ lost' = lost \cup PassedOver(Applied)
  BY DEF Apply
<1>2. Finds(Applied)
  BY <1>1, AppliedFinds
<1>3. HooksTypes'
  <2>1. Applied \in Seq(Updates) /\ (Applied # <<>> => Len(Applied) >= 1)
    BY <1>2 DEF Finds
  <2>2. tip' \in [Refs -> Commits \cup {Zero}]
    <3>1. tip' = [r \in Refs |-> Moved(Applied)[r]]
      BY <1>1 DEF Moved
    <3> QED BY <1>2, <3>1, MovedRefs
  <2> QED BY <1>1, <2>1, <2>2 DEF HooksTypes
<1>4. had \subseteq Reached(tip, dangling) \cup lost
  BY <1>1 DEF OldTipsKept
<1>5. ASSUME NEW D, dangling \subseteq D, Applied # <<>> => Saved(Applied[1]) \subseteq D
      PROVE  had' \subseteq Reached(Moved(Applied), D) \cup lost'
  <2>1. Reached(tip, dangling) \subseteq Reached(Moved(Applied), D) \cup PassedOver(Applied)
    BY <1>2, <1>5, StillReached
  <2>2. ASSUME NEW r \in Refs, Moved(Applied)[r] # Zero
        PROVE  Moved(Applied)[r] \in Reached(Moved(Applied), D)
    <3>1. Moved(Applied)[r] \in Commits
      BY <1>2, <2>2, MovedRefs
    <3>2. Moved(Applied)[r] \in Line[Moved(Applied)[r]]
      BY <3>1, Ancestry
    <3>3. Moved(Applied)[r] \in (D \cup {Moved(Applied)[q] : q \in Refs}) \ {Zero}
      BY <2>2
    <3> QED BY <3>2, <3>3 DEF Reached
  <2> QED BY <1>1, <1>4, <2>1, <2>2
<1>6. CASE Applied = <<>>
  <2>1. Reached(tip, dangling)' = Reached(Moved(Applied), dangling)
    BY <1>1 DEF Reached
  <2>2. had' \subseteq Reached(Moved(Applied), dangling) \cup lost'
    BY <1>5, <1>6
  <2> QED BY <1>1, <1>3, <1>6, <2>1, <2>2 DEF HooksInv, OldTipsKept, KeptAtPost
<1>7. CASE Applied # <<>>
  <2> DEFINE D == dangling \cup Saved(Applied[1])
  <2>1. Reached(tip, dangling \cup Saved(push[1]))' = Reached(Moved(Applied), D)
    <3>1. Saved(push[1])' = Saved(Applied[1])
      BY <1>1 DEF Saved, Rewrites, IsForcePush, Creates, Deletes, MergeBaseFails, Related
    <3> QED BY <1>1, <3>1 DEF Reached
  <2>2. had' \subseteq Reached(Moved(Applied), D) \cup lost'
    BY <1>5
  <2> QED BY <1>1, <1>3, <1>7, <2>1, <2>2 DEF HooksInv, OldTipsKept, KeptAtPost
<1> QED BY <1>6, <1>7

LEMMA PostReceiveStep == HooksInv /\ PostReceive => HooksInv'
<1> SUFFICES ASSUME HooksTypes, KeptAtPost, PostReceive
             PROVE  HooksInv'
  BY DEF HooksInv
<1> DEFINE S == Saved(push[1])
<1>1. at = "post" /\ at' = "idle" /\ push' = <<>> /\ UNCHANGED <<tip, had>>
  BY DEF PostReceive
<1>2. HooksTypes'
  BY <1>1 DEF HooksTypes
<1>3. had \subseteq Reached(tip, dangling \cup S) \cup lost
  BY <1>1 DEF KeptAtPost
<1>4. had \subseteq Reached(tip, dangling') \cup lost'
  <2> HIDE DEF S
  <2>1. CASE dangling' = dangling \cup S /\ lost' = lost
    BY <1>3, <2>1
  <2>2. CASE dangling' = dangling /\ lost' = lost \cup UNION {Line[c] : c \in S}
    BY <1>3, <2>2 DEF Reached
  <2> QED BY <2>1, <2>2 DEF PostReceive, S
<1>5. Reached(tip, dangling)' = Reached(tip, dangling')
  BY <1>1 DEF Reached
<1> QED BY <1>1, <1>2, <1>4, <1>5 DEF HooksInv, OldTipsKept, KeptAtPost

LEMMA HooksStep == HooksInv /\ [HooksNext]_hooksVars => HooksInv'
<1> SUFFICES ASSUME HooksInv, [HooksNext]_hooksVars
             PROVE  HooksInv'
  OBVIOUS
<1>1. ASSUME UNCHANGED <<tip, dangling, push, at, had, lost>>
      PROVE  HooksInv'
  BY <1>1 DEF HooksInv, HooksTypes, OldTipsKept, KeptAtPost, Reached, Saved, Rewrites, IsForcePush,
              Creates, Deletes, MergeBaseFails, Related
<1>2. CASE UNCHANGED hooksVars
  BY <1>1, <1>2 DEF hooksVars
<1>3. ASSUME NEW r \in Refs, NEW x, SetRecord(r, x)
      PROVE  HooksInv'
  BY <1>1, <1>3 DEF SetRecord
<1>4. ASSUME NEW us \in Seq(Updates), Len(us) >= 1, Receive(us)
      PROVE  HooksInv'
  BY <1>4 DEF HooksInv, HooksTypes, OldTipsKept, KeptAtPost, Receive, Reached
<1>5. CASE PreReceive
  <2>1. HooksTypes'
    <3>1. CASE at' = "apply" /\ push' = push
      BY <1>5, <3>1 DEF HooksInv, HooksTypes, PreReceive
    <3>2. CASE at' = "idle" /\ push' = <<>>
      BY <1>5, <3>2 DEF HooksInv, HooksTypes, PreReceive
    <3> QED BY <1>5, <3>1, <3>2 DEF PreReceive
  <2>2. OldTipsKept' /\ KeptAtPost'
    BY <1>5 DEF HooksInv, OldTipsKept, KeptAtPost, PreReceive, Reached
  <2> QED BY <2>1, <2>2 DEF HooksInv
<1>6. ASSUME NEW t \in [Refs -> Commits \cup {Zero}], CacheAgain(t)
      PROVE  HooksInv'
  <2>1. at = "idle" /\ at' = at /\ push' = push /\ tip' = t /\ dangling' = {}
        /\ had' = {t[r] : r \in Refs} \ {Zero}
    BY <1>6 DEF CacheAgain
  <2>2. HooksTypes'
    BY <2>1 DEF HooksInv, HooksTypes
  <2>3. ASSUME NEW c \in had'
        PROVE  c \in Reached(t, {})
    <3>1. c \in Commits /\ c \in ({} \cup {t[r] : r \in Refs}) \ {Zero}
      BY <2>1, <2>3
    <3> QED BY <3>1, Ancestry DEF Reached
  <2>4. Reached(tip, dangling)' = Reached(t, {})
    BY <2>1 DEF Reached
  <2> QED BY <2>1, <2>2, <2>3, <2>4 DEF HooksInv, OldTipsKept, KeptAtPost
<1>7. ASSUME NEW u \in Updates, Receive(<<u>>)
      PROVE  HooksInv'
  <2>1. <<u>> \in Seq(Updates) /\ Len(<<u>>) >= 1
    OBVIOUS
  <2> QED BY <1>4, <1>7, <2>1
<1>8. ASSUME NEW u \in Updates, NEW v \in Updates, Receive(<<u, v>>)
      PROVE  HooksInv'
  <2>1. <<u, v>> \in Seq(Updates) /\ Len(<<u, v>>) >= 1
    OBVIOUS
  <2> QED BY <1>4, <1>8, <2>1
<1> QED BY <1>2, <1>3, <1>5, <1>6, <1>7, <1>8, ApplyStep, PostReceiveStep DEF HooksNext

(* Any history of commits, any number of branches: what a ref of the cached *)
(* directory had stays reachable when git gc runs, unless it is behind a    *)
(* commit whose going post-receive did not see or could not record.  The    *)
(* proof rests on ancestry being transitive: an old tip that is not put     *)
(* under refs/dangling is behind the new one, and so is everything that was *)
(* behind it.                                                               *)
THEOREM HooksKeepOldTips == HooksSpec => []OldTipsKept
<1>1. HooksInit => HooksInv
  BY DEF HooksInit, HooksInv, HooksTypes, OldTipsKept, KeptAtPost
<1>2. HooksInv => OldTipsKept
  BY DEF HooksInv
<1> QED BY <1>1, <1>2, HooksStep, PTL DEF HooksSpec

----------------------------------------------------------------------------
(* The answer to a challenge.  What recursive functions compute is shown    *)
(* from the least number for which it would fail, and that they exist from  *)
(* the part of them up to it.                                               *)

(* Induction, as the least element of a set of numbers.                     *)
LEMMA LeastNumber ==
    ASSUME NEW S \in SUBSET Nat, S # {}
    PROVE  \E n \in S : \A m \in S : n <= m
<1>1. PICK n \in S : \A m \in S : ~(<<m, n>> \in OpToRel(<, Nat))
  BY NatLessThanWellFounded, WFMin
<1>2. \A m \in S : n \in Nat /\ m \in Nat /\ ~(m < n)
  BY <1>1 DEF OpToRel
<1>3. \A m \in S : n <= m
  BY <1>2
<1> QED BY <1>3

(* Powers of two.                                                           *)

(* The first n of them.                                                     *)
Doubles(g, n) == g[0] = 1 /\ \A m \in 0..(n - 1) : g[m + 1] = 2 * g[m]

LEMMA DoublesExist == \A n \in Nat : \E g : Doubles(g, n)
<1> DEFINE S == {n \in Nat : ~\E g : Doubles(g, n)}
<1> SUFFICES ASSUME S # {}
             PROVE  FALSE
  OBVIOUS
<1>1. PICK n \in S : \A m \in S : n <= m
  BY LeastNumber
<1>2. n \in Nat /\ ~\E g : Doubles(g, n)
  OBVIOUS
<1>3. CASE n = 0
  <2>1. Doubles([m \in {0} |-> 1], 0)
    BY DEF Doubles
  <2> QED BY <1>2, <1>3, <2>1
<1>4. CASE n > 0
  <2>1. n - 1 \in Nat /\ n - 1 \notin S
    BY <1>1, <1>2, <1>4
  <2>2. PICK g : Doubles(g, n - 1)
    BY <2>1
  <2>3. PICK h : h = [m \in 0..n |-> IF m = n THEN 2 * g[n - 1] ELSE g[m]]
    OBVIOUS
  <2>4. /\ h[0] = g[0] /\ h[n] = 2 * g[n - 1]
        /\ \A m \in 0..(n - 1) : h[m] = g[m]
    BY <1>2, <1>4, <2>3
  <2>5. ASSUME NEW m \in 0..(n - 1)
        PROVE  h[m + 1] = 2 * h[m]
    <3>1. CASE m = n - 1
      BY <1>2, <2>4, <3>1
    <3>2. CASE m # n - 1
      <4>1. m \in 0..(n - 1 - 1) /\ m + 1 \in 0..(n - 1)
        BY <1>2, <3>2
      <4> QED BY <2>2, <2>4, <4>1 DEF Doubles
    <3> QED BY <3>1, <3>2
  <2>6. Doubles(h, n)
    BY <2>2, <2>4, <2>5 DEF Doubles
  <2> QED BY <1>2, <2>6
<1> QED BY <1>2, <1>3, <1>4

LEMMA DoublesAgree ==
    ASSUME NEW g, NEW h, NEW n \in Nat, Doubles(g, n), Doubles(h, n)
    PROVE  g[n] = h[n]
<1> DEFINE S == {m \in 0..n : g[m] # h[m]}
<1> SUFFICES ASSUME S # {}
             PROVE  FALSE
  OBVIOUS
<1>1. S \in SUBSET Nat
  OBVIOUS
<1>2. PICK m \in S : \A k \in S : m <= k
  <2> HIDE DEF S
  <2> QED BY <1>1, LeastNumber
<1>3. m \in 0..n /\ g[m] # h[m] /\ m # 0
  BY DEF Doubles
<1>4. m - 1 \in 0..(n - 1) /\ m - 1 \in 0..n /\ m - 1 < m /\ m = (m - 1) + 1
  BY <1>3
<1>5. g[m - 1] = h[m - 1]
  BY <1>2, <1>3, <1>4
<1>6. g[m] = 2 * g[m - 1] /\ h[m] = 2 * h[m - 1]
  BY <1>4 DEF Doubles
<1> QED BY <1>3, <1>5, <1>6

LEMMA PowerUnfolded == Power = [n \in Nat |-> IF n = 0 THEN 1 ELSE 2 * Power[n - 1]]
<1> DEFINE D(n) == CHOOSE g : Doubles(g, n)
           P == [n \in Nat |-> D(n)[n]]
<1>1. \A n \in Nat : Doubles(D(n), n)
  BY DoublesExist
<1> HIDE DEF D
<1>2. P[0] = 1
  BY <1>1 DEF Doubles
<1>3. ASSUME NEW n \in Nat, n # 0
      PROVE  P[n] = 2 * P[n - 1]
  <2>1. n - 1 \in Nat /\ n - 1 \in 0..(n - 1) /\ (n - 1) + 1 = n /\ 0..(n - 1 - 1) \subseteq 0..(n - 1)
    BY <1>3
  <2>2. Doubles(D(n), n) /\ Doubles(D(n - 1), n - 1)
    BY <1>1, <2>1
  <2>3. Doubles(D(n), n - 1)
    BY <2>1, <2>2 DEF Doubles
  <2>4. D(n)[n - 1] = D(n - 1)[n - 1]
    BY <2>1, <2>2, <2>3, DoublesAgree
  <2>5. D(n)[n] = 2 * D(n)[n - 1]
    BY <2>1, <2>2 DEF Doubles
  <2> QED BY <2>1, <2>4, <2>5
<1>4. P = [n \in Nat |-> P[n]]
  OBVIOUS
<1> HIDE DEF P
<1>5. \A n \in Nat : P[n] = IF n = 0 THEN 1 ELSE 2 * P[n - 1]
  BY <1>2, <1>3
<1>6. P = [n \in Nat |-> IF n = 0 THEN 1 ELSE 2 * P[n - 1]]
  BY <1>4, <1>5
<1> QED BY <1>6, Zenon DEF Power

LEMMA PowerZero == Power[0] = 1
BY PowerUnfolded

LEMMA PowerNext == \A n \in Nat : Power[n + 1] = 2 * Power[n]
<1> SUFFICES ASSUME NEW n \in Nat
             PROVE  Power[n + 1] = 2 * Power[n]
  OBVIOUS
<1>1. n + 1 \in Nat /\ n + 1 # 0 /\ (n + 1) - 1 = n
  OBVIOUS
<1>2. \A m \in Nat : Power[m] = IF m = 0 THEN 1 ELSE 2 * Power[m - 1]
  BY PowerUnfolded
<1> QED BY <1>1, <1>2

LEMMA PowerGrows == \A n \in Nat : Power[n] \in Nat /\ Power[n] > n
<1> DEFINE S == {n \in Nat : ~(Power[n] \in Nat /\ Power[n] > n)}
<1> SUFFICES ASSUME S # {}
             PROVE  FALSE
  OBVIOUS
<1>1. PICK n \in S : \A m \in S : n <= m
  BY LeastNumber
<1>2. n \in Nat /\ ~(Power[n] \in Nat /\ Power[n] > n)
  OBVIOUS
<1>3. n # 0
  BY <1>2, PowerZero
<1>4. n - 1 \in Nat /\ n - 1 \notin S /\ (n - 1) + 1 = n
  BY <1>1, <1>2, <1>3
<1>5. Power[n - 1] \in Nat /\ Power[n - 1] > n - 1
  BY <1>4
<1>6. Power[n] = 2 * Power[n - 1]
  BY <1>4, PowerNext
<1> QED BY <1>2, <1>4, <1>5, <1>6

(* NewTree finds a power of two that is large enough.                       *)
LEMMA DepthLargeEnough ==
    ASSUME NEW n \in Nat
    PROVE  Depth(n) \in Nat /\ Power[Depth(n)] >= n
<1> DEFINE S == {d \in 0..n : Power[d] >= n}
<1>1. S \in SUBSET Nat
  OBVIOUS
<1>2. n \in S
  BY PowerGrows
<1>3. PICK d \in S : \A e \in S : d <= e
  <2> HIDE DEF S
  <2> QED BY <1>1, <1>2, LeastNumber
<1>4. d \in 0..n /\ Power[d] >= n /\ \A e \in 0..n : Power[e] >= n => d <= e
  BY <1>3
<1>5. Depth(n) \in 0..n /\ Power[Depth(n)] >= n
  BY <1>4, Zenon DEF Depth
<1> QED BY <1>5

(* The tree.                                                                *)

(* A heap with hs on its b leaves, or the part of one from node k on.       *)
HeapNode(g, hs, b, i) ==
    /\ i < b => g[i] = <<"node", g[2 * i], g[2 * i + 1]>>
    /\ i >= b /\ i - b < Len(hs) => g[i] = <<"leaf", hs[i - b + 1]>>
    /\ i >= b /\ ~(i - b < Len(hs)) => g[i] = <<"zeros">>

HeapFrom(g, hs, b, k) == \A i \in k..(2 * b - 1) : HeapNode(g, hs, b, i)

LEMMA HeapExists ==
    ASSUME NEW hs, Len(hs) \in Nat, NEW b \in Nat \ {0}
    PROVE  \E g : g = [i \in 1..(2 * b - 1) |-> g[i]] /\ HeapFrom(g, hs, b, 1)
<1> DEFINE S == {k \in 1..(2 * b) : \E g : HeapFrom(g, hs, b, k)}
<1>1. S \in SUBSET Nat
  OBVIOUS
<1>2. 2 * b \in S
  <2>1. \A i \in (2 * b)..(2 * b - 1) : FALSE
    OBVIOUS
  <2>2. \E g : HeapFrom(g, hs, b, 2 * b)
    BY <2>1 DEF HeapFrom
  <2> QED BY <2>2
<1>3. PICK k \in S : \A m \in S : k <= m
  <2> HIDE DEF S
  <2> QED BY <1>1, <1>2, LeastNumber
<1>4. k \in 1..(2 * b)
  OBVIOUS
<1>5. PICK g : HeapFrom(g, hs, b, k)
  OBVIOUS
<1>6. k = 1
  <2> SUFFICES ASSUME k # 1
               PROVE  FALSE
    OBVIOUS
  <2>1. PICK j : j = k - 1
    OBVIOUS
  <2>2. j \in 1..(2 * b - 1) /\ j < k /\ j \in 1..(2 * b) /\ 2 * j >= k /\ j \in Nat
    BY <1>4, <2>1
  <2>3. PICK x : x = IF j < b THEN <<"node", g[2 * j], g[2 * j + 1]>>
                     ELSE IF j - b < Len(hs) THEN <<"leaf", hs[j - b + 1]>> ELSE <<"zeros">>
    OBVIOUS
  <2>4. j >= b => ~(j < b)
    BY <2>2
  <2>5. /\ j < b => x = <<"node", g[2 * j], g[2 * j + 1]>>
        /\ j >= b /\ j - b < Len(hs) => x = <<"leaf", hs[j - b + 1]>>
        /\ j >= b /\ ~(j - b < Len(hs)) => x = <<"zeros">>
    BY <2>3, <2>4, Zenon
  <2>6. PICK h : h = [i \in j..(2 * b - 1) |-> IF i = j THEN x ELSE g[i]]
    OBVIOUS
  <2>7. h[j] = x /\ \A i \in k..(2 * b - 1) : h[i] = g[i]
    BY <1>4, <2>1, <2>2, <2>6
  <2>8. HeapNode(h, hs, b, j)
    <3>1. j < b => 2 * j \in k..(2 * b - 1) /\ 2 * j + 1 \in k..(2 * b - 1)
      BY <1>4, <2>2
    <3>2. j < b => h[2 * j] = g[2 * j] /\ h[2 * j + 1] = g[2 * j + 1]
      BY <2>7, <3>1
    <3> QED BY <2>5, <2>7, <3>2 DEF HeapNode
  <2>9. ASSUME NEW i \in k..(2 * b - 1)
        PROVE  HeapNode(h, hs, b, i)
    <3>1. HeapNode(g, hs, b, i)
      BY <1>5 DEF HeapFrom
    <3>2. i < b => 2 * i \in k..(2 * b - 1) /\ 2 * i + 1 \in k..(2 * b - 1)
      BY <1>4
    <3>3. h[i] = g[i] /\ (i < b => h[2 * i] = g[2 * i] /\ h[2 * i + 1] = g[2 * i + 1])
      BY <2>7, <3>2
    <3> QED BY <3>1, <3>3 DEF HeapNode
  <2>10. \A i \in j..(2 * b - 1) : i = j \/ i \in k..(2 * b - 1)
    BY <1>4, <2>1
  <2>11. HeapFrom(h, hs, b, j)
    BY <2>8, <2>9, <2>10 DEF HeapFrom
  <2>12. j \in S
    BY <2>2, <2>11
  <2> QED BY <1>3, <1>4, <2>2, <2>12
<1>7. PICK h : h = [i \in 1..(2 * b - 1) |-> g[i]]
  OBVIOUS
<1>8. \A i \in 1..(2 * b - 1) : h[i] = g[i]
  BY <1>7
<1>9. h = [i \in 1..(2 * b - 1) |-> h[i]]
  BY <1>7, <1>8
<1>10. ASSUME NEW i \in 1..(2 * b - 1)
       PROVE  HeapNode(h, hs, b, i)
  <2>1. HeapNode(g, hs, b, i)
    BY <1>5, <1>6 DEF HeapFrom
  <2>2. i < b => 2 * i \in 1..(2 * b - 1) /\ 2 * i + 1 \in 1..(2 * b - 1)
    OBVIOUS
  <2>3. h[i] = g[i] /\ (i < b => h[2 * i] = g[2 * i] /\ h[2 * i + 1] = g[2 * i + 1])
    BY <1>8, <2>2
  <2> QED BY <2>1, <2>3 DEF HeapNode
<1> QED BY <1>9, <1>10 DEF HeapFrom

LEMMA NodesHeap ==
    ASSUME NEW hs, Len(hs) \in Nat, NEW b, b = Power[Depth(Len(hs))]
    PROVE  b \in Nat \ {0} /\ b >= Len(hs) /\ HeapFrom(Nodes(hs), hs, b, 1)
<1>1. b \in Nat \ {0} /\ b >= Len(hs)
  <2>1. Depth(Len(hs)) \in Nat
    BY DepthLargeEnough
  <2>2. b \in Nat /\ b > Depth(Len(hs))
    BY <2>1, PowerGrows
  <2> QED BY <2>1, <2>2, DepthLargeEnough
<1>2. PICK g : g = [i \in 1..(2 * b - 1) |-> g[i]] /\ HeapFrom(g, hs, b, 1)
  BY <1>1, HeapExists
<1>3. ASSUME NEW i \in 1..(2 * b - 1)
      PROVE  g[i] = IF i < b THEN <<"node", g[2 * i], g[2 * i + 1]>>
                    ELSE IF i - b < Len(hs) THEN <<"leaf", hs[i - b + 1]>> ELSE <<"zeros">>
  <2>1. HeapNode(g, hs, b, i)
    BY <1>2 DEF HeapFrom
  <2>2. i < b \/ i >= b
    BY <1>1
  <2>3. CASE i < b
    BY <2>1, <2>3 DEF HeapNode
  <2>4. CASE i >= b /\ i - b < Len(hs)
    <3>1. ~(i < b)
      BY <1>1, <2>4
    <3> QED BY <2>1, <2>4, <3>1 DEF HeapNode
  <2>5. CASE i >= b /\ ~(i - b < Len(hs))
    <3>1. ~(i < b)
      BY <1>1, <2>5
    <3> QED BY <2>1, <2>5, <3>1 DEF HeapNode
  <2> QED BY <2>2, <2>3, <2>4, <2>5
<1>4. g = [i \in 1..(2 * b - 1) |-> IF i < b THEN <<"node", g[2 * i], g[2 * i + 1]>>
                    ELSE IF i - b < Len(hs) THEN <<"leaf", hs[i - b + 1]>> ELSE <<"zeros">>]
  BY <1>2, <1>3
<1>5. PICK N : N = Nodes(hs)
  OBVIOUS
<1>6. N = [i \in 1..(2 * b - 1) |-> IF i < b THEN <<"node", N[2 * i], N[2 * i + 1]>>
                    ELSE IF i - b < Len(hs) THEN <<"leaf", hs[i - b + 1]>> ELSE <<"zeros">>]
  BY <1>4, <1>5, Zenon DEF Nodes
<1>7. \A i \in 1..(2 * b - 1) : N[i] = IF i < b THEN <<"node", N[2 * i], N[2 * i + 1]>>
                    ELSE IF i - b < Len(hs) THEN <<"leaf", hs[i - b + 1]>> ELSE <<"zeros">>
  BY <1>6, Zenon
<1>8. ASSUME NEW i \in 1..(2 * b - 1)
      PROVE  HeapNode(N, hs, b, i)
  <2>1. i >= b => ~(i < b)
    BY <1>1
  <2> QED BY <1>7, <2>1, Zenon DEF HeapNode
<1> QED BY <1>1, <1>5, <1>8 DEF HeapFrom

(* Equal roots are roots of equal trees: what is below equal nodes is       *)
(* equal, and the leaves are not nodes.                                     *)
LEMMA NodeParts ==
    ASSUME NEW u, NEW v, NEW x, NEW y, <<"node", u, v>> = <<"node", x, y>>
    PROVE  u = x /\ v = y
OBVIOUS

LEMMA SameNodes ==
    ASSUME NEW F, NEW G, NEW hs, NEW gs, NEW b \in Nat \ {0}, NEW c \in Nat \ {0}, b <= c,
           HeapFrom(F, hs, b, 1), HeapFrom(G, gs, c, 1), F[1] = G[1]
    PROVE  \A i \in 1..(2 * b - 1) : F[i] = G[i]
<1> DEFINE S == {i \in 1..(2 * b - 1) : F[i] # G[i]}
<1> SUFFICES ASSUME S # {}
             PROVE  FALSE
  OBVIOUS
<1>1. S \in SUBSET Nat
  OBVIOUS
<1>2. PICK i \in S : \A m \in S : i <= m
  <2> HIDE DEF S
  <2> QED BY <1>1, LeastNumber
<1>3. i \in 1..(2 * b - 1) /\ F[i] # G[i] /\ i # 1
  OBVIOUS
<1>4. PICK p : p = i \div 2
  OBVIOUS
<1>5. /\ p \in 1..(2 * b - 1) /\ p \in 1..(2 * c - 1) /\ p < i /\ p < b /\ p < c
      /\ i = 2 * p \/ i = 2 * p + 1
  BY <1>3, <1>4
<1>6. F[p] = G[p]
  BY <1>2, <1>3, <1>5
<1>7. F[p] = <<"node", F[2 * p], F[2 * p + 1]>> /\ G[p] = <<"node", G[2 * p], G[2 * p + 1]>>
  BY <1>5 DEF HeapFrom, HeapNode
<1>8. F[2 * p] = G[2 * p] /\ F[2 * p + 1] = G[2 * p + 1]
  <2>1. <<"node", F[2 * p], F[2 * p + 1]>> = <<"node", G[2 * p], G[2 * p + 1]>>
    BY <1>6, <1>7, Zenon
  <2> QED BY <2>1, NodeParts
<1> QED BY <1>3, <1>5, <1>8

Tree(F, hs, b) == b \in Nat \ {0} /\ Len(hs) \in Nat /\ b >= Len(hs) /\ HeapFrom(F, hs, b, 1)

LEMMA SameLeaves ==
    ASSUME NEW F, NEW hs, NEW b, Tree(F, hs, b), NEW G, NEW gs, NEW c, Tree(G, gs, c), b <= c, F[1] = G[1]
    PROVE  /\ Len(hs) = Len(gs)
           /\ \A i \in 1..Len(hs) : hs[i] = gs[i]
<1> USE DEF Tree
<1>1. \A i \in 1..(2 * b - 1) : F[i] = G[i]
  BY SameNodes
<1>2. \A i \in b..(2 * b - 1) : F[i] = (IF i - b < Len(hs) THEN <<"leaf", hs[i - b + 1]>> ELSE <<"zeros">>)
  <2> SUFFICES ASSUME NEW i \in b..(2 * b - 1)
               PROVE  F[i] = (IF i - b < Len(hs) THEN <<"leaf", hs[i - b + 1]>> ELSE <<"zeros">>)
    OBVIOUS
  <2>1. i \in 1..(2 * b - 1) /\ i >= b
    OBVIOUS
  <2>2. HeapNode(F, hs, b, i)
    BY <2>1 DEF HeapFrom
  <2> QED BY <2>1, <2>2, Zenon DEF HeapNode
<1>3. b = c
  <2> SUFFICES ASSUME b < c
               PROVE  FALSE
    OBVIOUS
  <2>1. b \in 1..(2 * c - 1) /\ b \in b..(2 * b - 1) /\ b \in 1..(2 * b - 1)
    OBVIOUS
  <2>2. G[b] = <<"node", G[2 * b], G[2 * b + 1]>>
    BY <2>1 DEF HeapFrom, HeapNode
  <2>3. F[b] = <<"leaf", hs[b - b + 1]>> \/ F[b] = <<"zeros">>
    BY <1>2, <2>1
  <2>4. F[b] = G[b]
    BY <1>1, <2>1
  <2>5. "node" # "leaf" /\ "node" # "zeros"
    OBVIOUS
  <2> QED BY <2>2, <2>3, <2>4, <2>5
<1>4. \A i \in b..(2 * b - 1) : G[i] = (IF i - b < Len(gs) THEN <<"leaf", gs[i - b + 1]>> ELSE <<"zeros">>)
  <2> SUFFICES ASSUME NEW i \in b..(2 * b - 1)
               PROVE  G[i] = (IF i - b < Len(gs) THEN <<"leaf", gs[i - b + 1]>> ELSE <<"zeros">>)
    OBVIOUS
  <2>1. i \in 1..(2 * b - 1) /\ i >= b
    OBVIOUS
  <2>2. HeapNode(G, gs, b, i)
    BY <1>3, <2>1 DEF HeapFrom
  <2> QED BY <2>1, <2>2, Zenon DEF HeapNode
<1>5. ASSUME NEW j \in 0..(b - 1)
      PROVE  /\ (j < Len(hs)) = (j < Len(gs))
             /\ j < Len(hs) => hs[j + 1] = gs[j + 1]
  <2>1. j + b \in b..(2 * b - 1) /\ j + b \in 1..(2 * b - 1) /\ (j + b) - b = j
    OBVIOUS
  <2>2. F[j + b] = IF j < Len(hs) THEN <<"leaf", hs[j + 1]>> ELSE <<"zeros">>
    BY <1>2, <2>1
  <2>3. G[j + b] = IF j < Len(gs) THEN <<"leaf", gs[j + 1]>> ELSE <<"zeros">>
    BY <1>4, <2>1
  <2>4. F[j + b] = G[j + b]
    BY <1>1, <2>1
  <2> QED BY <2>2, <2>3, <2>4
<1>6. Len(hs) = Len(gs)
  <2>1. CASE Len(hs) < Len(gs)
    <3>1. Len(hs) \in 0..(b - 1)
      BY <1>3, <2>1
    <3> QED BY <1>5, <2>1, <3>1
  <2>2. CASE Len(gs) < Len(hs)
    <3>1. Len(gs) \in 0..(b - 1)
      BY <1>3, <2>2
    <3> QED BY <1>5, <2>2, <3>1
  <2> QED BY <2>1, <2>2
<1>7. ASSUME NEW i \in 1..Len(hs)
      PROVE  hs[i] = gs[i]
  <2>1. i - 1 \in 0..(b - 1) /\ i - 1 < Len(hs) /\ (i - 1) + 1 = i
    OBVIOUS
  <2> QED BY <1>5, <2>1
<1> QED BY <1>6, <1>7

(* Chunks.                                                                  *)
LEMMA ChunkCount ==
    ASSUME NEW f \in Files
    PROVE  /\ Len(computeChunkHashes(f)) \in Nat \ {0}
           /\ computeChunkHashes(f) = [i \in 1..Len(computeChunkHashes(f)) |-> computeChunkHashes(f)[i]]
<1>1. Len(f) \in Nat \ {0} /\ ChunkSize \in Nat \ {0}
  BY ChallengeAssumption
<1>2. PICK n : n = (Len(f) + ChunkSize - 1) \div ChunkSize
  OBVIOUS
<1>3. n \in Nat \ {0}
  BY <1>1, <1>2
<1>4. PICK hs : hs = computeChunkHashes(f)
  OBVIOUS
<1>5. hs = [i \in 1..n |-> <<"chunk", SubSeq(f, (i - 1) * ChunkSize + 1, Smaller(i * ChunkSize, Len(f)))>>]
  BY <1>2, <1>4 DEF computeChunkHashes
<1>6. Len(hs) = n /\ hs = [i \in 1..n |-> hs[i]]
  BY <1>3, <1>5
<1> QED BY <1>3, <1>4, <1>6

(* ComputeMerkleRoot tells files with different chunks apart.               *)
LEMMA SameRoot ==
    ASSUME NEW f \in Files, NEW g \in Files, ComputeMerkleRoot(f) = ComputeMerkleRoot(g)
    PROVE  computeChunkHashes(f) = computeChunkHashes(g)
<1>1. PICK hs, gs : hs = computeChunkHashes(f) /\ gs = computeChunkHashes(g)
  OBVIOUS
<1>2. Len(hs) \in Nat /\ hs = [i \in 1..Len(hs) |-> hs[i]]
  BY <1>1, ChunkCount
<1>3. Len(gs) \in Nat /\ gs = [i \in 1..Len(gs) |-> gs[i]]
  BY <1>1, ChunkCount
<1>4. PICK b, c : b = Power[Depth(Len(hs))] /\ c = Power[Depth(Len(gs))]
  OBVIOUS
<1>5. PICK F, G : F = Nodes(hs) /\ G = Nodes(gs)
  OBVIOUS
<1>6. b \in Nat /\ Tree(F, hs, b)
  BY <1>2, <1>4, <1>5, NodesHeap DEF Tree
<1>7. c \in Nat /\ Tree(G, gs, c)
  BY <1>3, <1>4, <1>5, NodesHeap DEF Tree
<1>8. F[1] = G[1]
  BY <1>1, <1>5 DEF ComputeMerkleRoot
<1>9. Len(hs) = Len(gs) /\ \A i \in 1..Len(hs) : hs[i] = gs[i]
  <2>1. CASE b <= c
    BY <1>6, <1>7, <1>8, <2>1, SameLeaves
  <2>2. CASE c <= b
    <3>1. Len(gs) = Len(hs) /\ \A i \in 1..Len(gs) : gs[i] = hs[i]
      BY <1>6, <1>7, <1>8, <2>2, SameLeaves
    <3> QED BY <3>1
  <2> QED BY <1>6, <1>7, <2>1, <2>2
<1> QED BY <1>1, <1>2, <1>3, <1>9

(* The way up.                                                              *)

LEMMA Halved ==
    ASSUME NEW x \in Nat, NEW a \in Nat \ {0}
    PROVE  x \div (2 * a) = (x \div a) \div 2
<1>1. PICK q, h \in Int : q = x \div a /\ h = q \div 2
  OBVIOUS
<1>2. q \in Nat /\ a * q <= x /\ x < a * q + a
  BY <1>1
<1>3. h \in Nat /\ (q = 2 * h \/ q = 2 * h + 1)
  BY <1>1, <1>2
<1>4. PICK m \in Int : m = a * h
  OBVIOUS
<1>5. a * q = 2 * m \/ a * q = 2 * m + a
  BY <1>2, <1>3, <1>4
<1>6. 2 * m <= x /\ x < 2 * m + 2 * a
  BY <1>2, <1>4, <1>5
<1>7. (2 * a) * h <= x /\ x < (2 * a) * h + (2 * a) /\ 2 * a \in Nat \ {0}
  BY <1>3, <1>4, <1>6
<1>8. x \div (2 * a) = h
  BY <1>3, <1>7
<1> QED BY <1>1, <1>8

(* Verification climbs from leaf x to the root, with what it is given.      *)
Climbs(u, x, hashes, index, n) ==
    /\ u[0] = <<"leaf", x>>
    /\ \A k \in 1..n :
         u[k] = IF (index \div Power[k - 1]) % 2 = 0 THEN <<"node", u[k - 1], hashes[k]>>
                ELSE <<"node", hashes[k], u[k - 1]>>

LEMMA ClimbExists ==
    ASSUME NEW x, NEW hashes, NEW index, NEW n \in Nat
    PROVE  \E u : Climbs(u, x, hashes, index, n)
<1> DEFINE S == {m \in Nat : ~\E u : Climbs(u, x, hashes, index, m)}
<1> SUFFICES ASSUME S # {}
             PROVE  FALSE
  OBVIOUS
<1>1. PICK m \in S : \A k \in S : m <= k
  BY LeastNumber
<1>2. m \in Nat /\ ~\E u : Climbs(u, x, hashes, index, m)
  OBVIOUS
<1>3. CASE m = 0
  <2>1. PICK u : u = [k \in {0} |-> <<"leaf", x>>]
    OBVIOUS
  <2>2. Climbs(u, x, hashes, index, 0)
    BY <2>1 DEF Climbs
  <2> QED BY <1>2, <1>3, <2>2
<1>4. CASE m > 0
  <2>1. m - 1 \in Nat /\ m - 1 \notin S
    BY <1>1, <1>2, <1>4
  <2>2. PICK u : Climbs(u, x, hashes, index, m - 1)
    BY <2>1
  <2>3. PICK y : y = IF (index \div Power[m - 1]) % 2 = 0 THEN <<"node", u[m - 1], hashes[m]>>
                     ELSE <<"node", hashes[m], u[m - 1]>>
    OBVIOUS
  <2>4. PICK v : v = [k \in 0..m |-> IF k = m THEN y ELSE u[k]]
    OBVIOUS
  <2>5. v[0] = u[0] /\ v[m] = y /\ \A k \in 0..(m - 1) : v[k] = u[k]
    BY <1>2, <1>4, <2>4
  <2>6. ASSUME NEW k \in 1..m
        PROVE  v[k] = IF (index \div Power[k - 1]) % 2 = 0 THEN <<"node", v[k - 1], hashes[k]>>
                      ELSE <<"node", hashes[k], v[k - 1]>>
    <3>1. k - 1 \in 0..(m - 1) /\ v[k - 1] = u[k - 1]
      BY <1>2, <2>5
    <3>2. CASE k = m
      BY <2>3, <2>5, <3>1, <3>2, Zenon
    <3>3. CASE k # m
      <4>1. k \in 1..(m - 1) /\ k \in 0..(m - 1)
        BY <1>2, <3>3
      <4>2. v[k] = u[k]
        BY <2>5, <4>1
      <4>3. u[k] = IF (index \div Power[k - 1]) % 2 = 0 THEN <<"node", u[k - 1], hashes[k]>>
                   ELSE <<"node", hashes[k], u[k - 1]>>
        BY <2>2, <4>1, Zenon DEF Climbs
      <4> QED BY <3>1, <4>2, <4>3, Zenon
    <3> QED BY <3>2, <3>3
  <2>7. v[0] = <<"leaf", x>>
    BY <2>2, <2>5, Zenon DEF Climbs
  <2>8. Climbs(v, x, hashes, index, m)
    BY <2>6, <2>7, Zenon DEF Climbs
  <2> QED BY <1>2, <2>8
<1> QED BY <1>2, <1>3, <1>4

LEMMA VerifiedByClimb ==
    ASSUME NEW x, NEW hashes, Len(hashes) \in Nat, NEW index, NEW root,
           \A u : Climbs(u, x, hashes, index, Len(hashes)) => u[Len(hashes)] = root
    PROVE  VerifyProof(x, hashes, index, root)
<1> DEFINE Up(u, k) == IF k = 0 THEN <<"leaf", x>>
                       ELSE IF (index \div Power[k - 1]) % 2 = 0 THEN <<"node", u[k - 1], hashes[k]>>
                       ELSE <<"node", hashes[k], u[k - 1]>>
<1>1. PICK n \in Nat : n = Len(hashes)
  OBVIOUS
<1>2. PICK u : Climbs(u, x, hashes, index, n)
  BY ClimbExists
<1>3. PICK v : v = [k \in 0..n |-> u[k]]
  OBVIOUS
<1>4. \A k \in 0..n : v[k] = u[k]
  BY <1>3
<1>5. ASSUME NEW k \in 0..n
      PROVE  v[k] = Up(v, k)
  <2>1. CASE k = 0
    BY <1>2, <1>4, <2>1, Zenon DEF Climbs
  <2>2. CASE k # 0
    <3>1. k \in 1..n /\ k - 1 \in 0..n
      BY <2>2
    <3>2. v[k] = u[k] /\ v[k - 1] = u[k - 1]
      BY <1>4, <3>1
    <3> QED BY <1>2, <2>2, <3>1, <3>2, Zenon DEF Climbs
  <2> QED BY <2>1, <2>2
<1>6. v = [k \in 0..n |-> v[k]]
  BY <1>3, <1>4
<1>7. v = [k \in 0..n |-> Up(v, k)]
  <2> HIDE DEF Up
  <2> QED BY <1>5, <1>6
<1>8. \E w : w = [k \in 0..n |-> Up(w, k)]
  BY <1>7, Zenon
<1>9. ASSUME NEW w, w = [k \in 0..n |-> Up(w, k)]
      PROVE  w[n] = root
  <2>1. \A k \in 0..n : w[k] = Up(w, k)
    <3> HIDE DEF Up
    <3> QED BY <1>9, Zenon
  <2>2. w[0] = <<"leaf", x>>
    <3>1. 0 \in 0..n
      OBVIOUS
    <3> QED BY <2>1, <3>1, Zenon
  <2>3. \A k \in 1..n : k \in 0..n /\ k # 0
    OBVIOUS
  <2>4. Climbs(w, x, hashes, index, n)
    BY <2>1, <2>2, <2>3, Zenon DEF Climbs
  <2> QED BY <1>1, <2>4
<1> QED BY <1>1, <1>8, <1>9, Zenon DEF VerifyProof

(* From place r of a level of 2w nodes to place h of one of w.              *)
LevelUp(w, b, r, h) ==
    /\ h \in Nat /\ h < w /\ (r + 2 * w) \div 2 = h + w
    /\ h + w \in 1..(2 * b - 1) /\ h + w < b /\ w <= b
    /\ \/ r = 2 * h /\ r % 2 = 0 /\ r + 2 * w = 2 * (h + w) /\ (r + 2 * w) % 2 = 0
       \/ r = 2 * h + 1 /\ r % 2 # 0 /\ r + 2 * w = 2 * (h + w) + 1 /\ (r + 2 * w) % 2 # 0

LEMMA OneUp ==
    ASSUME NEW w \in Nat \ {0}, NEW b \in Nat, 2 * w <= b, NEW r \in Nat, r < 2 * w, NEW h, h = r \div 2
    PROVE  LevelUp(w, b, r, h)
<1> USE DEF LevelUp
<1>1. h \in Nat /\ (r = 2 * h \/ r = 2 * h + 1)
  OBVIOUS
<1>2. h < w
  BY <1>1
<1>3. h + w \in 1..(2 * b - 1) /\ h + w < b /\ w <= b
  BY <1>1, <1>2
<1>4. CASE r = 2 * h
  <2>1. r + 2 * w = 2 * (h + w) /\ h + w \in Nat
    BY <1>1, <1>4
  <2>2. r % 2 = 0 /\ (r + 2 * w) % 2 = 0 /\ (r + 2 * w) \div 2 = h + w
    BY <1>1, <1>4, <2>1
  <2> QED BY <1>1, <1>2, <1>3, <1>4, <2>1, <2>2
<1>5. CASE r = 2 * h + 1
  <2>1. r + 2 * w = 2 * (h + w) + 1 /\ h + w \in Nat
    BY <1>1, <1>5
  <2>2. r % 2 # 0 /\ (r + 2 * w) % 2 # 0 /\ (r + 2 * w) \div 2 = h + w
    BY <1>1, <1>5, <2>1
  <2> QED BY <1>1, <1>2, <1>3, <1>5, <2>1, <2>2
<1> QED BY <1>1, <1>4, <1>5

SiblingsOf(N, index, d, hashes) ==
    \A k \in 1..d : hashes[k] = N[Sibling((index + Power[d]) \div Power[k - 1])]

(* With the siblings that GenerateProof collects, node r of the level and   *)
(* place r in it go up together: every step computes a node of the tree,    *)
(* and the last one its root.                                               *)
LEMMA ClimbReachesRoot ==
    ASSUME NEW N, NEW hs, NEW d \in Nat, Tree(N, hs, Power[d]), NEW index \in Nat, index < Len(hs),
           NEW hashes, SiblingsOf(N, index, d, hashes),
           NEW u, Climbs(u, hs[index + 1], hashes, index, d)
    PROVE  u[d] = N[1]
<1>1. PICK b : b = Power[d]
  OBVIOUS
<1>2. b \in Nat \ {0} /\ Len(hs) \in Nat /\ b >= Len(hs) /\ HeapFrom(N, hs, b, 1)
  BY <1>1 DEF Tree
<1> DEFINE Width(k) == Power[d - k]
           place(k) == index \div Power[k]
           nodeAt(k) == (index + b) \div Power[k]
           Good(k) == /\ place(k) \in Nat /\ place(k) < Width(k)
                      /\ Width(k) \in Nat /\ Width(k) <= b
                      /\ nodeAt(k) = place(k) + Width(k)
                      /\ u[k] = N[nodeAt(k)]
           S == {k \in 0..d : ~Good(k)}
<1>3. Good(0)
  <2>1. Power[0] = 1 /\ d - 0 = d
    BY PowerZero
  <2>2. place(0) = index /\ nodeAt(0) = index + b
    BY <1>2, <2>1
  <2>3. Width(0) = b
    BY <1>1, <2>1
  <2>4. index + b \in 1..(2 * b - 1) /\ index + b >= b /\ (index + b) - b = index
    BY <1>2
  <2>5. N[index + b] = <<"leaf", hs[index + 1]>>
    <3>1. HeapNode(N, hs, b, index + b)
      BY <1>2, <2>4 DEF HeapFrom
    <3>2. (index + b) - b < Len(hs)
      BY <2>4
    <3>3. N[index + b] = <<"leaf", hs[(index + b) - b + 1]>>
      BY <2>4, <3>1, <3>2, Zenon DEF HeapNode
    <3> QED BY <2>4, <3>3
  <2>6. u[0] = N[nodeAt(0)]
    BY <2>2, <2>5 DEF Climbs
  <2>7. place(0) \in Nat /\ place(0) < Width(0) /\ Width(0) \in Nat /\ Width(0) <= b /\ nodeAt(0) = place(0) + Width(0)
    BY <1>2, <2>2, <2>3
  <2> QED BY <2>6, <2>7
<1>4. ASSUME NEW k \in 0..(d - 1), Good(k)
      PROVE  Good(k + 1)
  <2>1. k \in Nat /\ d - k - 1 \in Nat /\ d - k = (d - k - 1) + 1 /\ d - (k + 1) = d - k - 1 /\ (k + 1) - 1 = k
        /\ k + 1 \in 1..d
    OBVIOUS
  <2>2. PICK a : a = Power[k]
    OBVIOUS
  <2>3. a \in Nat \ {0} /\ Power[k + 1] = 2 * a
    <3>1. Power[k] \in Nat /\ Power[k] > k
      BY <2>1, PowerGrows
    <3>2. Power[k + 1] = 2 * Power[k]
      BY <2>1, PowerNext
    <3> QED BY <2>1, <2>2, <3>1, <3>2
  <2>4. PICK w : w = Power[d - k - 1]
    OBVIOUS
  <2>5. w \in Nat \ {0} /\ Width(k + 1) = w /\ Width(k) = 2 * w
    <3>1. w \in Nat /\ w > d - k - 1
      BY <2>1, <2>4, PowerGrows
    <3>2. Power[(d - k - 1) + 1] = 2 * w
      BY <2>1, <2>4, PowerNext
    <3> QED BY <2>1, <2>4, <3>1, <3>2
  <2>6. PICK r : r = place(k)
    OBVIOUS
  <2>7. PICK p : p = nodeAt(k)
    OBVIOUS
  <2>8. r \in Nat /\ r < 2 * w /\ 2 * w <= b /\ p = r + 2 * w /\ u[k] = N[p]
    <3> HIDE DEF place, nodeAt, Width
    <3> QED BY <1>4, <2>5, <2>6, <2>7
  <2>9. place(k + 1) = r \div 2 /\ nodeAt(k + 1) = p \div 2
    <3>1. index \div (2 * a) = (index \div a) \div 2
      BY <2>3, Halved
    <3>2. index + b \in Nat
      BY <1>2
    <3>3. (index + b) \div (2 * a) = ((index + b) \div a) \div 2
      BY <2>3, <3>2, Halved
    <3> QED BY <2>2, <2>3, <2>6, <2>7, <3>1, <3>3
  <2>10. PICK h : h = r \div 2
    OBVIOUS
  <2>11. PICK P : P = h + w
    OBVIOUS
  <2>12. /\ h \in Nat /\ h < w /\ p \div 2 = P
         /\ P \in 1..(2 * b - 1) /\ P < b /\ w <= b
         /\ \/ r = 2 * h /\ r % 2 = 0 /\ p = 2 * P /\ p % 2 = 0
            \/ r = 2 * h + 1 /\ r % 2 # 0 /\ p = 2 * P + 1 /\ p % 2 # 0
    <3>1. w \in Nat \ {0} /\ b \in Nat /\ 2 * w <= b /\ r \in Nat /\ r < 2 * w
      BY <1>2, <2>5, <2>8
    <3>2. LevelUp(w, b, r, h)
      BY <2>10, <3>1, OneUp
    <3>3. p = r + 2 * w
      BY <2>8
    <3> QED BY <2>11, <3>2, <3>3, Zenon DEF LevelUp
  <2>13. N[P] = <<"node", N[2 * P], N[2 * P + 1]>>
    BY <1>2, <2>12, Zenon DEF HeapFrom, HeapNode
  <2>14. hashes[k + 1] = N[Sibling(p)]
    <3>1. hashes[k + 1] = N[Sibling((index + Power[d]) \div Power[(k + 1) - 1])]
      BY <2>1, Zenon DEF SiblingsOf
    <3> QED BY <1>1, <2>1, <2>7, <3>1
  <2>15. u[k + 1] = IF r % 2 = 0 THEN <<"node", u[k], hashes[k + 1]>> ELSE <<"node", hashes[k + 1], u[k]>>
    <3>1. u[k + 1] = IF (index \div Power[(k + 1) - 1]) % 2 = 0 THEN <<"node", u[(k + 1) - 1], hashes[k + 1]>>
                     ELSE <<"node", hashes[k + 1], u[(k + 1) - 1]>>
      BY <2>1, Zenon DEF Climbs
    <3>2. Power[(k + 1) - 1] = Power[k] /\ u[(k + 1) - 1] = u[k] /\ index \div Power[k] = r
      BY <2>1, <2>6
    <3> QED BY <3>1, <3>2, Zenon
  <2>16. u[k + 1] = N[P]
    <3>1. CASE r % 2 = 0 /\ p = 2 * P /\ p % 2 = 0
      <4>1. Sibling(p) = 2 * P + 1
        BY <3>1 DEF Sibling
      <4>2. u[k] = N[2 * P] /\ hashes[k + 1] = N[2 * P + 1]
        BY <2>8, <2>14, <3>1, <4>1
      <4> QED BY <2>13, <2>15, <3>1, <4>2, Zenon
    <3>2. CASE r % 2 # 0 /\ p = 2 * P + 1 /\ p % 2 # 0
      <4>1. Sibling(p) = 2 * P
        BY <2>12, <3>2 DEF Sibling
      <4>2. u[k] = N[2 * P + 1] /\ hashes[k + 1] = N[2 * P]
        BY <2>8, <2>14, <3>2, <4>1
      <4> QED BY <2>13, <2>15, <3>2, <4>2, Zenon
    <3> QED BY <2>12, <3>1, <3>2
  <2>17. place(k + 1) = h /\ nodeAt(k + 1) = P /\ P = h + w
    BY <2>9, <2>10, <2>11, <2>12
  <2> HIDE DEF place, nodeAt, Width
  <2> QED BY <2>5, <2>16, <2>17, <2>12
<1> HIDE DEF Good
<1>5. S = {}
  <2> SUFFICES ASSUME S # {}
               PROVE  FALSE
    OBVIOUS
  <2>1. S \in SUBSET Nat
    OBVIOUS
  <2>2. PICK k \in S : \A m \in S : k <= m
    <3> HIDE DEF S
    <3> QED BY <2>1, LeastNumber
  <2>3. k \in 0..d /\ ~Good(k) /\ k # 0
    BY <1>3
  <2>4. k - 1 \in 0..(d - 1) /\ k - 1 \in 0..d /\ k - 1 \notin S /\ (k - 1) + 1 = k
    BY <2>2, <2>3
  <2>5. Good(k - 1)
    BY <2>4
  <2> QED BY <1>4, <2>3, <2>4, <2>5
<1>6. Good(d)
  BY <1>5
<1>7. Width(d) = 1
  BY PowerZero
<1>8. nodeAt(d) = 1 /\ u[d] = N[nodeAt(d)]
  <2>1. place(d) \in Nat /\ place(d) < Width(d) /\ nodeAt(d) = place(d) + Width(d) /\ u[d] = N[nodeAt(d)]
    BY <1>6 DEF Good
  <2> HIDE DEF place, nodeAt, Width
  <2> QED BY <1>7, <2>1
<1> QED BY <1>8

(* GenerateProof's index is that of the first chunk like the one asked for. *)
LEMMA FirstOfItsKind ==
    ASSUME NEW hs, Len(hs) \in Nat, NEW c \in Nat, c < Len(hs), NEW index,
           index = (CHOOSE i \in 1..Len(hs) : hs[i] = hs[c + 1] /\ \A j \in 1..(i - 1) : hs[j] # hs[i]) - 1
    PROVE  index \in Nat /\ index <= c /\ hs[index + 1] = hs[c + 1]
<1> DEFINE S == {i \in 1..Len(hs) : hs[i] = hs[c + 1]}
           First(i) == hs[i] = hs[c + 1] /\ \A j \in 1..(i - 1) : hs[j] # hs[i]
<1>1. S \in SUBSET Nat /\ c + 1 \in S
  OBVIOUS
<1>2. PICK i \in S : \A j \in S : i <= j
  <2> HIDE DEF S
  <2> QED BY <1>1, LeastNumber
<1>3. i \in 1..Len(hs) /\ First(i)
  <2>1. i \in 1..Len(hs) /\ hs[i] = hs[c + 1]
    BY <1>2
  <2>2. ASSUME NEW j \in 1..(i - 1), hs[j] = hs[i]
        PROVE  FALSE
    <3>1. j \in 1..Len(hs) /\ j < i
      BY <2>1
    <3>2. j \in S
      BY <2>1, <2>2, <3>1
    <3> QED BY <1>2, <2>1, <3>1, <3>2
  <2> QED BY <2>1, <2>2
<1>4. PICK f : f = CHOOSE j \in 1..Len(hs) : First(j)
  OBVIOUS
<1>5. f \in 1..Len(hs) /\ First(f)
  BY <1>3, <1>4, Zenon
<1>6. index = f - 1
  BY <1>4
<1>7. f <= c + 1
  <2> SUFFICES ASSUME f > c + 1
               PROVE  FALSE
    BY <1>5
  <2>1. c + 1 \in 1..(f - 1)
    BY <1>5
  <2> QED BY <1>5, <2>1
<1>8. index \in Nat /\ index <= c /\ index + 1 = f
  BY <1>5, <1>6, <1>7
<1> QED BY <1>5, <1>8

(* The proof of a chunk of a file leads to the file's root.                 *)
LEMMA ProofIsAccepted ==
    ASSUME NEW f \in Files, NEW c \in Nat, c < Len(computeChunkHashes(f)), NEW a, a = GenerateProof(f, c)
    PROVE  /\ a.root = ComputeMerkleRoot(f)
           /\ a.chunkHash = computeChunkHashes(f)[c + 1]
           /\ a.index <= c /\ computeChunkHashes(f)[a.index + 1] = a.chunkHash
           /\ VerifyProof(a.chunkHash, a.hashes, a.index, a.root)
<1> DEFINE hs == computeChunkHashes(f)
           N == Nodes(hs)
           d == Depth(Len(hs))
           index == (CHOOSE i \in 1..Len(hs) : hs[i] = hs[c + 1] /\ \A j \in 1..(i - 1) : hs[j] # hs[i]) - 1
           hashes == [k \in 1..d |-> N[Sibling((index + Power[d]) \div Power[k - 1])]]
<1>1. a = [hashes |-> hashes, index |-> index, root |-> N[1], chunkHash |-> hs[c + 1]]
  BY Zenon DEF GenerateProof
<1>2. N[1] = ComputeMerkleRoot(f)
  BY DEF ComputeMerkleRoot
<1>3. Len(hs) \in Nat /\ c < Len(hs)
  BY ChunkCount
<1> HIDE DEF hs
<1>4. d \in Nat
  BY <1>3, DepthLargeEnough
<1>5. Tree(N, hs, Power[d])
  BY <1>3, NodesHeap DEF Tree
<1>6. index \in Nat /\ index <= c /\ hs[index + 1] = hs[c + 1]
  BY <1>3, FirstOfItsKind
<1> HIDE DEF N, d, index
<1>7. Len(hashes) = d /\ SiblingsOf(N, index, d, hashes)
  BY <1>4 DEF SiblingsOf
<1>8. a.hashes = hashes /\ a.index = index /\ a.root = N[1] /\ a.chunkHash = hs[c + 1]
  <2> HIDE DEF hashes
  <2> QED BY <1>1
<1> HIDE DEF hashes
<1>9. ASSUME NEW u, Climbs(u, hs[c + 1], hashes, index, d)
      PROVE  u[d] = N[1]
  <2>1. Climbs(u, hs[index + 1], hashes, index, d)
    BY <1>6, <1>9, Zenon
  <2>2. index < Len(hs)
    BY <1>3, <1>6
  <2> QED BY <1>4, <1>5, <1>6, <1>7, <2>1, <2>2, ClimbReachesRoot
<1>10. VerifyProof(hs[c + 1], hashes, index, N[1])
  BY <1>4, <1>7, <1>9, VerifiedByClimb
<1>11. hs = computeChunkHashes(f)
  BY DEF hs
<1> QED BY <1>6, <1>8, <1>10, <1>2, <1>11

(* What the chain asked for is a chunk of the file it asked about; the file *)
(* that was got, and the proof, may be of another one.                      *)
Asked ==
    /\ content \in Files
    /\ step # "waiting" =>
        /\ challenge.file \in Files
        /\ challenge.index \in Nat /\ challenge.index < Len(computeChunkHashes(challenge.file))
        /\ challenge.root = ComputeMerkleRoot(challenge.file)

Proved ==
    /\ step \in {"got", "proved", "submitted"} => got \in Files
    /\ step \in {"proved", "submitted"} =>
        /\ challenge.index < Len(computeChunkHashes(got))
        /\ answer = GenerateProof(got, challenge.index)
    /\ step = "submitted" => answer.root = challenge.root

ChallengeInv == Asked /\ Proved

LEMMA ChallengeStep == ChallengeInv /\ [ChallengeNext]_challengeVars => ChallengeInv'
<1> SUFFICES ASSUME ChallengeInv, [ChallengeNext]_challengeVars
             PROVE  ChallengeInv'
  OBVIOUS
<1> USE DEF ChallengeInv, Asked, Proved
<1>1. CASE UNCHANGED challengeVars
  BY <1>1 DEF challengeVars
<1>2. ASSUME NEW f \in Files, Replace(f)
      PROVE  ChallengeInv'
  BY <1>2 DEF Replace
<1>3. ASSUME NEW i \in 0..Len(content), Ask(i)
      PROVE  ChallengeInv'
  <2>1. i \in Nat
    BY ChallengeAssumption
  <2> QED BY <1>3, <2>1 DEF Ask
<1>4. CASE Get
  BY <1>4 DEF Get
<1>5. CASE Prove
  BY <1>5 DEF Prove
<1>6. CASE Submit
  BY <1>6 DEF Submit
<1> QED BY <1>1, <1>2, <1>3, <1>4, <1>5, <1>6 DEF ChallengeNext

LEMMA ChallengeStart == ChallengeInit => ChallengeInv
BY DEF ChallengeInit, ChallengeInv, Asked, Proved

(* The proof the challenge handler submits, for any files and any chunk     *)
(* size: the chain's verification accepts it for the chunk it asked for,    *)
(* whatever the content was replaced by in between.  Equal roots are roots  *)
(* of equal chunks, and the siblings lead from any chunk to the root.       *)
THEOREM SubmittedAccepted == ChallengeSpec => []SubmittedIsAccepted
<1>1. ChallengeInv => SubmittedIsAccepted
  <2> SUFFICES ASSUME ChallengeInv, step = "submitted"
               PROVE  /\ answer.chunkHash = computeChunkHashes(challenge.file)[challenge.index + 1]
                      /\ answer.index <= challenge.index
                      /\ computeChunkHashes(challenge.file)[answer.index + 1] = answer.chunkHash
                      /\ VerifyProof(answer.chunkHash, answer.hashes, answer.index, challenge.root)
    BY DEF SubmittedIsAccepted
  <2>1. /\ got \in Files /\ challenge.file \in Files
        /\ challenge.index \in Nat /\ challenge.index < Len(computeChunkHashes(got))
        /\ answer = GenerateProof(got, challenge.index)
        /\ answer.root = challenge.root /\ challenge.root = ComputeMerkleRoot(challenge.file)
    BY DEF ChallengeInv, Asked, Proved
  <2>2. /\ answer.root = ComputeMerkleRoot(got)
        /\ answer.chunkHash = computeChunkHashes(got)[challenge.index + 1]
        /\ answer.index <= challenge.index /\ computeChunkHashes(got)[answer.index + 1] = answer.chunkHash
        /\ VerifyProof(answer.chunkHash, answer.hashes, answer.index, answer.root)
    BY <2>1, ProofIsAccepted
  <2>3. computeChunkHashes(got) = computeChunkHashes(challenge.file)
    BY <2>1, <2>2, SameRoot
  <2> QED BY <2>1, <2>2, <2>3
<1> QED BY <1>1, ChallengeStart, ChallengeStep, PTL DEF ChallengeSpec

----------------------------------------------------------------------------
(* The pages of a list.                                                     *)

(* The list is never longer than git can count, and what the client has is *)
(* where its last answer left it.                                           *)
PagesTypes ==
    /\ list \in {"commits", "entries", "changes"}
    /\ total \in Nat /\ pushed \in 0..MaxPushed /\ total + MaxPushed - pushed < GitWord \div 2
    /\ pushed <= total
    /\ list # "commits" => pushed = 0
    /\ offset \in Nat /\ limit \in Nat /\ offset < PageWord /\ limit < PageWord
    /\ nextKey \in Nat \cup {NoKey} /\ more \in BOOLEAN
    /\ seen \in Seq(Int)
    /\ more /\ nextKey = NoKey => seen = <<>> /\ pushed = 0
    /\ nextKey # NoKey => more /\ nextKey < total

(* The position the client has come to.                                     *)
Position == IF ~more THEN total ELSE IF nextKey = NoKey THEN offset ELSE nextKey

(* Everything wanted before that position was shown, the entry excepted     *)
(* that the first next key passes over.  A commit's age does not change     *)
(* when others come in: the position moves back in the list.                *)
ShownSoFar ==
    IF list = "commits"
    THEN \A a \in 1..(total - pushed - offset) : a > total - Position => a \in Shown
    ELSE \A p \in offset..(Position - 1) : p # offset + PageLimit => p \in Shown

(* Nothing from behind that position was, unless others came in.            *)
NotBeyond ==
    \A i \in DOMAIN seen : IF list = "commits" THEN seen[i] > total - Position ELSE seen[i] < Position

InOrder(s) == \A i, j \in DOMAIN s : i < j => Precedes(s[i], s[j])

PagesInv ==
    /\ PagesTypes
    /\ Fits => /\ ShownSoFar
               /\ pushed = 0 => NotBeyond /\ InOrder(seen)

LEMMA LimitType == PagesTypes => PageLimit \in Nat \ {0} /\ PageLimit < PageWord
BY PagesAssumption DEF PagesTypes, PageLimit

(* A sequence after another keeps its elements, behind the other's.         *)
LEMMA Appended ==
    ASSUME NEW s \in Seq(Int), NEW t \in Seq(Int)
    PROVE  /\ s \o t \in Seq(Int)
           /\ \A i \in DOMAIN s : i \in DOMAIN (s \o t) /\ (s \o t)[i] = s[i]
           /\ \A i \in DOMAIN t : Len(s) + i \in DOMAIN (s \o t) /\ (s \o t)[Len(s) + i] = t[i]
           /\ \A k \in DOMAIN (s \o t) : k \in DOMAIN s \/ (k > Len(s) /\ k - Len(s) \in DOMAIN t)
OBVIOUS

LEMMA AppendedInOrder ==
    ASSUME NEW s \in Seq(Int), NEW t \in Seq(Int), InOrder(s), InOrder(t),
           \A i \in DOMAIN s, j \in DOMAIN t : Precedes(s[i], t[j])
    PROVE  InOrder(s \o t)
<1> SUFFICES ASSUME NEW i \in DOMAIN (s \o t), NEW j \in DOMAIN (s \o t), i < j
             PROVE  Precedes((s \o t)[i], (s \o t)[j])
  BY DEF InOrder
<1>1. i \in Nat /\ j \in Nat /\ Len(s) \in Nat /\ DOMAIN s = 1..Len(s)
  OBVIOUS
<1>2. CASE i \in DOMAIN s /\ j \in DOMAIN s
  BY <1>2, Appended DEF InOrder
<1>3. CASE i \in DOMAIN s /\ j > Len(s) /\ j - Len(s) \in DOMAIN t
  <2>1. (s \o t)[i] = s[i] /\ (s \o t)[j] = t[j - Len(s)]
    BY <1>1, <1>3, Appended
  <2> QED BY <1>3, <2>1
<1>4. CASE i > Len(s) /\ i - Len(s) \in DOMAIN t /\ j > Len(s) /\ j - Len(s) \in DOMAIN t
  <2>1. (s \o t)[i] = t[i - Len(s)] /\ (s \o t)[j] = t[j - Len(s)] /\ i - Len(s) < j - Len(s)
    BY <1>1, <1>4, Appended
  <2> QED BY <1>4, <2>1 DEF InOrder
<1> QED BY <1>1, <1>2, <1>3, <1>4, Appended

(* The positions from a up to b.                                            *)
LEMMA FromPositions ==
    ASSUME NEW a \in Nat, NEW b \in Nat
    PROVE  /\ From(a, b) \in Seq(Nat)
           /\ \A i \in DOMAIN From(a, b) : From(a, b)[i] = a + i - 1 /\ From(a, b)[i] \in a..(b - 1)
           /\ \A p \in a..(b - 1) : p - a + 1 \in DOMAIN From(a, b) /\ From(a, b)[p - a + 1] = p
<1> DEFINE n == IF a < b THEN b - a ELSE 0
<1>1. n \in Nat /\ From(a, b) = [i \in 1..n |-> a + i - 1]
  BY DEF From
<1>2. \A i \in 1..n : a + i - 1 \in Nat
  OBVIOUS
<1>3. From(a, b) \in Seq(Nat) /\ DOMAIN From(a, b) = 1..n
  <2> HIDE DEF n
  <2> QED BY <1>1, <1>2
<1>4. \A i \in 1..n : a + i - 1 \in a..(b - 1)
  OBVIOUS
<1>5. \A p \in a..(b - 1) : p - a + 1 \in 1..n /\ a + (p - a + 1) - 1 = p
  OBVIOUS
<1> HIDE DEF n
<1>6. \A i \in DOMAIN From(a, b) : From(a, b)[i] = a + i - 1
  BY <1>1
<1> QED BY <1>3, <1>4, <1>5, <1>6

(* The entries of a page that are trees, or those that are not, each once   *)
(* and in their order.                                                      *)
LEMMA SortedPage ==
    ASSUME NEW page \in Seq(Nat), NEW kind,
           \A i, j \in DOMAIN page : i < j => page[i] < page[j]
    PROVE  /\ Sorted(page, kind) \in Seq(Nat)
           /\ \A i, j \in DOMAIN Sorted(page, kind) : i < j => Sorted(page, kind)[i] < Sorted(page, kind)[j]
           /\ \A i \in DOMAIN Sorted(page, kind) :
                /\ Sorted(page, kind)[i] \in kind
                /\ \E j \in DOMAIN page : page[j] = Sorted(page, kind)[i]
           /\ \A j \in DOMAIN page : page[j] \in kind =>
                \E i \in DOMAIN Sorted(page, kind) : Sorted(page, kind)[i] = page[j]
<1> DEFINE S == {i \in DOMAIN page : page[i] \in kind}
           n == Cardinality(S)
           Before(k) == {j \in S : j < k}
           pos == [i \in 1..n |-> CHOOSE k \in S : Cardinality(Before(k)) = i - 1]
           rank == [k \in S |-> Cardinality(Before(k)) + 1]
<1>1. S \subseteq Nat /\ S \subseteq DOMAIN page
  OBVIOUS
<1>2. IsFiniteSet(S) /\ n \in Nat
  <2>1. IsFiniteSet(DOMAIN page)
    BY FS_Interval
  <2>2. IsFiniteSet(S)
    BY <2>1, FS_Subset
  <2> QED BY <2>2, FS_CardinalityType
<1>3. Sorted(page, kind) = [i \in 1..n |-> page[CHOOSE k \in S : Cardinality(Before(k)) = i - 1]]
  BY DEF Sorted
<1>4. Sorted(page, kind) = [i \in 1..n |-> page[pos[i]]]
  BY <1>3
<1>5. \A k \in S : page[k] \in kind
  OBVIOUS
<1>6. \A k \in DOMAIN page : page[k] \in kind => k \in S
  OBVIOUS
<1> HIDE DEF S
<1>7. ASSUME NEW k \in S
      PROVE  IsFiniteSet(Before(k)) /\ Cardinality(Before(k)) \in Nat /\ Cardinality(Before(k)) < n
  <2>1. Before(k) \in SUBSET S /\ Before(k) # S
    BY <1>1
  <2> HIDE DEF Before
  <2>2. IsFiniteSet(Before(k)) /\ Cardinality(Before(k)) <= n /\ Cardinality(Before(k)) # n
    BY <1>2, <2>1, FS_Subset
  <2>3. Cardinality(Before(k)) \in Nat
    BY <2>2, FS_CardinalityType
  <2> QED BY <1>2, <2>2, <2>3
<1>8. ASSUME NEW j \in S, NEW k \in S, j < k
      PROVE  Cardinality(Before(j)) < Cardinality(Before(k))
  <2>1. Before(j) \in SUBSET Before(k) /\ Before(j) # Before(k)
    <3>1. \A x \in S : x \in Nat /\ (x < j => x < k) /\ ~(j < j)
      BY <1>1, <1>8
    <3>2. j \in Before(k) /\ j \notin Before(j)
      BY <1>8, <3>1
    <3>3. Before(j) \in SUBSET Before(k)
      BY <3>1
    <3> HIDE DEF Before
    <3> QED BY <3>2, <3>3
  <2>2. IsFiniteSet(Before(k)) /\ Cardinality(Before(k)) \in Nat /\ Cardinality(Before(j)) \in Nat
    BY <1>7
  <2> HIDE DEF Before
  <2> QED BY <2>1, <2>2, FS_Subset
<1> HIDE DEF Before
<1>9. ASSUME NEW j \in S, NEW k \in S, Cardinality(Before(j)) <= Cardinality(Before(k))
      PROVE  j <= k
  BY <1>1, <1>7, <1>8, <1>9
<1>10. ASSUME NEW i \in 1..n
       PROVE  \E k \in S : Cardinality(Before(k)) = i - 1
  <2>1. rank \in Injection(S, 1..n)
    <3>1. rank \in [S -> 1..n]
      BY <1>2, <1>7
    <3>2. \A a, b \in S : rank[a] = rank[b] => a = b
      BY <1>1, <1>7, <1>8
    <3> HIDE DEF rank
    <3> QED BY <3>1, <3>2 DEF Injection, IsInjective
  <2>2. IsFiniteSet(1..n) /\ Cardinality(1..n) = n
    BY <1>2, FS_Interval
  <2>3. rank \in Surjection(S, 1..n)
    <3> HIDE DEF rank
    <3> QED BY <2>1, <2>2, FS_Injection
  <2>4. PICK k \in S : rank[k] = i
    <3> HIDE DEF rank
    <3> QED BY <2>3 DEF Surjection
  <2> QED BY <1>7, <2>4
<1>11. ASSUME NEW i \in 1..n
       PROVE  pos[i] \in S /\ Cardinality(Before(pos[i])) = i - 1
  BY <1>10
<1> HIDE DEF pos, n
<1>12. DOMAIN Sorted(page, kind) = 1..n /\ \A i \in 1..n : Sorted(page, kind)[i] = page[pos[i]]
  BY <1>4
<1>13. Sorted(page, kind) \in Seq(Nat)
  <2>1. \A k \in S : page[k] \in Nat
    BY <1>1
  <2>2. \A i \in 1..n : page[pos[i]] \in Nat
    BY <1>11, <2>1
  <2> QED BY <1>2, <1>4, <2>2
<1>14. ASSUME NEW i \in 1..n, NEW j \in 1..n, i < j
       PROVE  page[pos[i]] < page[pos[j]]
  <2>1. pos[i] \in S /\ pos[j] \in S /\ Cardinality(Before(pos[i])) = i - 1 /\ Cardinality(Before(pos[j])) = j - 1
    BY <1>11
  <2>2. pos[i] < pos[j]
    <3>1. pos[i] \in Nat /\ pos[j] \in Nat
      BY <1>1, <2>1
    <3>2. ~(pos[j] <= pos[i])
      <4> SUFFICES ASSUME pos[j] <= pos[i]
                   PROVE  FALSE
        OBVIOUS
      <4>1. CASE pos[j] = pos[i]
        BY <1>2, <1>14, <2>1, <4>1
      <4>2. CASE pos[j] < pos[i]
        <5>1. Cardinality(Before(pos[j])) < Cardinality(Before(pos[i]))
          BY <1>8, <2>1, <4>2
        <5> QED BY <1>2, <1>14, <2>1, <5>1
      <4> QED BY <3>1, <4>1, <4>2
    <3> QED BY <3>2, <3>1
  <2>3. pos[i] \in DOMAIN page /\ pos[j] \in DOMAIN page
    BY <1>1, <2>1
  <2> QED BY <2>2, <2>3
<1>15. ASSUME NEW j \in DOMAIN page, page[j] \in kind
       PROVE  \E i \in DOMAIN Sorted(page, kind) : Sorted(page, kind)[i] = page[j]
  <2> DEFINE i == Cardinality(Before(j)) + 1
  <2>1. j \in S
    BY <1>15, <1>6
  <2>2. i \in 1..n /\ i - 1 = Cardinality(Before(j))
    BY <1>2, <1>7, <2>1
  <2> HIDE DEF i
  <2>3. pos[i] \in S /\ Cardinality(Before(pos[i])) = Cardinality(Before(j))
    BY <1>11, <2>2
  <2>4. pos[i] = j
    <3>1. Cardinality(Before(j)) \in Nat
      BY <1>7, <2>1
    <3>2. pos[i] <= j /\ j <= pos[i]
      BY <1>9, <2>1, <2>3, <3>1
    <3>3. pos[i] \in Nat /\ j \in Nat
      BY <1>1, <2>1, <2>3
    <3> QED BY <3>2, <3>3
  <2> QED BY <1>12, <2>2, <2>4
<1>16. \A i \in 1..n : page[pos[i]] \in kind /\ pos[i] \in DOMAIN page
  BY <1>1, <1>11, <1>5
<1>17. \A i, j \in DOMAIN Sorted(page, kind) : i < j => Sorted(page, kind)[i] < Sorted(page, kind)[j]
  BY <1>12, <1>14
<1>18. \A i \in DOMAIN Sorted(page, kind) :
         /\ Sorted(page, kind)[i] \in kind
         /\ \E j \in DOMAIN page : page[j] = Sorted(page, kind)[i]
  BY <1>12, <1>16
<1> QED BY <1>13, <1>15, <1>17, <1>18

(* The handlers show the positions of a page, each once and in order.       *)
LEMMA ArrangedPage ==
    ASSUME PagesTypes, NEW a \in Nat, NEW b \in Nat
    PROVE  /\ Arranged(From(a, b)) \in Seq(Int)
           /\ InOrder(Arranged(From(a, b)))
           /\ \A i \in DOMAIN Arranged(From(a, b)) : \E p \in a..(b - 1) : Arranged(From(a, b))[i] = At(p)
           /\ \A p \in a..(b - 1) : \E i \in DOMAIN Arranged(From(a, b)) : Arranged(From(a, b))[i] = At(p)
<1>1. PICK page : page = From(a, b)
  OBVIOUS
<1>2. /\ page \in Seq(Nat)
      /\ \A i \in DOMAIN page : page[i] = a + i - 1 /\ page[i] \in a..(b - 1)
      /\ \A p \in a..(b - 1) : p - a + 1 \in DOMAIN page /\ page[p - a + 1] = p
  BY <1>1, FromPositions
<1>3. \A i, j \in DOMAIN page : i < j => page[i] < page[j]
  BY <1>2
<1>4. total \in Nat
  BY DEF PagesTypes
<1>5. CASE list # "entries"
  <2>1. PICK t : t = Arranged(page)
    OBVIOUS
  <2>2. t = [i \in DOMAIN page |-> At(page[i])]
    BY <1>5, <2>1 DEF Arranged
  <2>3. \A p \in Nat : At(p) \in Int
    BY <1>4 DEF At
  <2>4. t \in Seq(Int) /\ DOMAIN t = DOMAIN page /\ \A i \in DOMAIN page : t[i] = At(page[i])
    BY <1>2, <2>2, <2>3
  <2>5. \A p, q \in Nat : p < q => Precedes(At(p), At(q))
    <3>1. CASE list = "commits"
      BY <1>4, <3>1 DEF At, Precedes
    <3>2. CASE list = "changes"
      BY <3>2 DEF At, Precedes
    <3> QED BY <1>5, <3>1, <3>2 DEF PagesTypes
  <2>6. InOrder(t)
    <3>1. \A i \in DOMAIN page : page[i] \in Nat
      BY <1>2
    <3> QED BY <1>3, <2>4, <2>5, <3>1 DEF InOrder
  <2>7. \A i \in DOMAIN t : \E p \in a..(b - 1) : t[i] = At(p)
    BY <1>2, <2>4
  <2>8. \A p \in a..(b - 1) : \E i \in DOMAIN t : t[i] = At(p)
    BY <1>2, <2>4
  <2> QED BY <1>1, <2>1, <2>4, <2>6, <2>7, <2>8
<1>6. CASE list = "entries"
  <2>1. PICK u, v : u = Sorted(page, Subtrees) /\ v = Sorted(page, Nat \ Subtrees)
    OBVIOUS
  <2>2. /\ u \in Seq(Nat)
        /\ \A i, j \in DOMAIN u : i < j => u[i] < u[j]
        /\ \A i \in DOMAIN u : u[i] \in Subtrees /\ \E j \in DOMAIN page : page[j] = u[i]
        /\ \A j \in DOMAIN page : page[j] \in Subtrees => \E i \in DOMAIN u : u[i] = page[j]
    BY <1>2, <1>3, <2>1, SortedPage
  <2>3. /\ v \in Seq(Nat)
        /\ \A i, j \in DOMAIN v : i < j => v[i] < v[j]
        /\ \A i \in DOMAIN v : v[i] \in Nat \ Subtrees /\ \E j \in DOMAIN page : page[j] = v[i]
        /\ \A j \in DOMAIN page : page[j] \in Nat \ Subtrees => \E i \in DOMAIN v : v[i] = page[j]
    <3>1. PICK kind : kind = Nat \ Subtrees
      OBVIOUS
    <3>2. v = Sorted(page, kind)
      BY <2>1, <3>1
    <3>3. /\ v \in Seq(Nat)
          /\ \A i, j \in DOMAIN v : i < j => v[i] < v[j]
          /\ \A i \in DOMAIN v : v[i] \in kind /\ \E j \in DOMAIN page : page[j] = v[i]
          /\ \A j \in DOMAIN page : page[j] \in kind => \E i \in DOMAIN v : v[i] = page[j]
      BY <1>2, <1>3, <3>2, SortedPage
    <3> QED BY <3>1, <3>3
  <2>4. Arranged(page) = u \o v
    BY <1>6, <2>1 DEF Arranged
  <2>5. u \in Seq(Int) /\ v \in Seq(Int)
    BY <2>2, <2>3
  <2>6. \A p, q \in Nat : p < q \/ (p \in Subtrees /\ q \notin Subtrees) => Precedes(p, q)
    BY <1>6 DEF Precedes, IsTree
  <2>7. InOrder(u) /\ InOrder(v)
    <3>1. \A i \in DOMAIN u : u[i] \in Nat
      BY <2>2
    <3>2. \A i \in DOMAIN v : v[i] \in Nat
      BY <2>3
    <3> QED BY <2>2, <2>3, <2>6, <3>1, <3>2 DEF InOrder
  <2>8. \A i \in DOMAIN u, j \in DOMAIN v : Precedes(u[i], v[j])
    BY <2>2, <2>3, <2>6
  <2>9. \A p \in Nat : At(p) = p
    BY <1>6 DEF At
  <2>10. PICK t : t = u \o v
    OBVIOUS
  <2>11. t \in Seq(Int) /\ InOrder(t)
    BY <2>5, <2>7, <2>8, <2>10, Appended, AppendedInOrder
  <2>12. ASSUME NEW k \in DOMAIN t
         PROVE  \E p \in a..(b - 1) : t[k] = At(p)
    <3>1. \E j \in DOMAIN page : page[j] = t[k]
      <4>1. CASE k \in DOMAIN u
        BY <2>2, <2>5, <2>10, <4>1, Appended
      <4>2. CASE k > Len(u) /\ k - Len(u) \in DOMAIN v
        <5>1. k = Len(u) + (k - Len(u))
          BY <2>11, <2>12, <2>5
        <5>2. t[k] = v[k - Len(u)]
          BY <2>5, <2>10, <4>2, <5>1, Appended
        <5> QED BY <2>3, <4>2, <5>2
      <4> QED BY <2>5, <2>10, <2>12, <4>1, <4>2, Appended
    <3>2. \A j \in DOMAIN page : page[j] \in Nat /\ page[j] \in a..(b - 1)
      BY <1>2
    <3> QED BY <2>9, <3>1, <3>2
  <2>13. ASSUME NEW p \in a..(b - 1)
         PROVE  \E i \in DOMAIN t : t[i] = At(p)
    <3>1. PICK j \in DOMAIN page : page[j] = p
      BY <1>2
    <3>2. p \in Nat /\ At(p) = p
      BY <2>9
    <3>3. CASE p \in Subtrees
      BY <2>2, <2>5, <2>10, <3>1, <3>2, <3>3, Appended
    <3>4. CASE p \notin Subtrees
      <4>1. PICK i \in DOMAIN v : v[i] = p
        BY <2>3, <3>1, <3>2, <3>4
      <4>2. Len(u) + i \in DOMAIN t /\ t[Len(u) + i] = p
        BY <2>5, <2>10, <4>1, Appended
      <4> QED BY <3>2, <4>2
    <3> QED BY <3>3, <3>4
  <2> QED BY <1>1, <2>4, <2>10, <2>11, <2>12, <2>13
<1> QED BY <1>5, <1>6

(* git reads a number below its largest int as it is.                       *)
LEMMA IntOfSmall ==
    ASSUME NEW n \in Nat
    PROVE  AsInt(n) \in Int /\ (n < GitWord \div 2 => AsInt(n) = n)
BY PagesAssumption DEF AsInt

(* An answer is a page that begins where the client is and ends before its  *)
(* next key, or with the list: only the first page of a tree or a diff      *)
(* leaves an entry out.  A skip that is negative shows other commits, but   *)
(* then none were wanted.                                                   *)
LEMMA AnswerPage ==
    ASSUME PagesInv, more, NEW q, q = IF Answer.next = NoKey THEN total ELSE Answer.next
    PROVE  \E a, b \in Nat :
             /\ Answer.page = From(a, b)
             /\ Answer.next \in Nat \cup {NoKey} /\ (Answer.next # NoKey => Answer.next < total)
             /\ Fits => /\ \A p \in Position..(q - 1) :
                             p \in a..(b - 1) \/ (list # "commits" /\ p = offset + PageLimit)
                        /\ b <= q
                        /\ (a = Position /\ Position <= q) \/ seen = <<>>
<1> DEFINE half == GitWord \div 2
<1>1. /\ total \in Nat /\ offset \in Nat /\ offset < PageWord /\ nextKey \in Nat \cup {NoKey}
      /\ PageLimit \in Nat \ {0} /\ PageLimit < PageWord
      /\ nextKey = NoKey => seen = <<>>
      /\ nextKey # NoKey => nextKey < total
      /\ PageWord \in Nat \ {0} /\ half \in Nat /\ half + half <= PageWord /\ total < half
  BY LimitType, PagesAssumption DEF PagesInv, PagesTypes
<1>2. Fits /\ list = "commits" => PageLimit < half /\ offset < half
  BY <1>1 DEF Fits
<1>3. Fits => offset + PageLimit < PageWord
  BY <1>1 DEF Fits
<1>4. Position = IF nextKey = NoKey THEN offset ELSE nextKey
  BY DEF Position
<1>5. \A x, y \in Nat : Plus(x, y) \in Nat /\ (x + y < PageWord => Plus(x, y) = x + y)
  BY <1>1 DEF Plus
<1>6. \A x, y \in Nat : Least(x, y) \in Nat /\ Least(x, y) = IF x < y THEN x ELSE y
  BY DEF Least
<1> USE DEF NoKey
<1>7. CASE list = "commits"
  <2>1. PICK start : start = Position
    OBVIOUS
  <2>2. PICK PL : PL = PageLimit
    OBVIOUS
  <2>3. start \in Nat /\ start < PageWord /\ (Fits => start < half)
    BY <1>1, <1>2, <1>4, <1>7, <2>1
  <2>4. PICK shown : shown = Plus(start, PL)
    OBVIOUS
  <2>5. shown \in Nat /\ (Fits => shown = start + PL)
    <3>1. Fits => start + PL < PageWord
      BY <1>1, <1>2, <1>7, <2>2, <2>3
    <3> QED BY <1>1, <1>5, <2>2, <2>3, <2>4, <3>1
  <2>6. PICK first : first = IF AsInt(start) < 0 THEN 0 ELSE AsInt(start)
    OBVIOUS
  <2>7. first \in Nat /\ (Fits => first = start)
    BY <2>3, <2>6, IntOfSmall
  <2>8. PICK count : count = AsInt(PL)
    OBVIOUS
  <2>9. count \in Int /\ (Fits => count = PL)
    BY <1>1, <1>2, <1>7, <2>2, <2>8, IntOfSmall
  <2>10. PICK e : e = IF count < 0 THEN total ELSE Least(total, first + count)
    OBVIOUS
  <2>11. e \in Nat /\ (Fits => e = IF total < start + PL THEN total ELSE start + PL)
    <3>1. count >= 0 => first + count \in Nat
      BY <2>7, <2>9
    <3>2. e \in Nat
      BY <1>1, <1>6, <2>9, <2>10, <3>1
    <3>3. ASSUME Fits
          PROVE  e = IF total < start + PL THEN total ELSE start + PL
      <4>1. first = start /\ count = PL /\ PL \in Nat /\ start + PL \in Nat /\ ~(count < 0)
        BY <1>1, <2>2, <2>3, <2>7, <2>9, <3>3
      <4> QED BY <1>1, <1>6, <2>10, <4>1
    <3> QED BY <3>2, <3>3
  <2>12. Answer = [page |-> From(first, e), next |-> IF total > shown THEN shown ELSE NoKey]
    <3>1. Skip = start
      BY <1>4, <2>1 DEF Skip
    <3> QED BY <1>7, <2>2, <2>4, <2>6, <2>8, <2>10, <3>1 DEF Answer, CommitsPage, CommitHistory
  <2>13. Answer.page = From(first, e) /\ Answer.next = IF total > shown THEN shown ELSE NoKey
    BY <2>12
  <2>14. q = IF total > shown THEN shown ELSE total
    BY <1>1, <2>5, <2>13
  <2>15. Answer.next \in Nat \cup {NoKey} /\ (Answer.next # NoKey => Answer.next < total)
    BY <1>1, <2>5, <2>13
  <2>16. ASSUME Fits
         PROVE  /\ \A p \in start..(q - 1) : p \in first..(e - 1)
                /\ e <= q
                /\ (first = start /\ start <= q) \/ seen = <<>>
    <3>1. first = start /\ shown = start + PL /\ e = IF total < start + PL THEN total ELSE start + PL
      BY <2>5, <2>7, <2>11, <2>16
    <3>2. e = q
      BY <1>1, <2>2, <2>3, <2>14, <3>1
    <3>3. start <= q \/ seen = <<>>
      BY <1>1, <1>4, <2>1, <2>2, <2>3, <2>14, <3>1
    <3> QED BY <2>3, <2>11, <3>1, <3>2, <3>3
  <2> QED BY <1>7, <2>1, <2>7, <2>11, <2>13, <2>15, <2>16
<1>8. CASE list # "commits" /\ nextKey = NoKey
  <2>1. PICK end : end = Plus(offset, PageLimit)
    OBVIOUS
  <2>2. PICK next : next = Plus(end, 1)
    OBVIOUS
  <2>3. end \in Nat /\ next \in Nat /\ (Fits => end = offset + PageLimit)
    BY <1>1, <1>3, <1>5, <2>1, <2>2
  <2>4. Fits => next = end + 1 \/ (end + 1 >= PageWord)
    BY <1>1, <2>2, <2>3 DEF Plus
  <2>5. PICK e : e = Least(total, end)
    OBVIOUS
  <2>6. e \in Nat /\ e = IF total < end THEN total ELSE end
    BY <1>1, <1>6, <2>3, <2>5
  <2>7. Answer = [page |-> From(offset, e),
                  next |-> IF offset <= next /\ end <= next /\ next < total THEN next ELSE NoKey]
    BY <1>8, <2>1, <2>2, <2>5 DEF Answer, OffsetPage
  <2>8. /\ Answer.page = From(offset, e)
        /\ Answer.next = IF offset <= next /\ end <= next /\ next < total THEN next ELSE NoKey
    BY <2>7
  <2>9. q = IF offset <= next /\ end <= next /\ next < total THEN next ELSE total
    BY <1>1, <2>3, <2>8
  <2>10. Answer.next \in Nat \cup {NoKey} /\ (Answer.next # NoKey => Answer.next < total)
    BY <2>3, <2>8
  <2>11. ASSUME Fits
         PROVE  /\ \A p \in offset..(q - 1) : p \in offset..(e - 1) \/ p = offset + PageLimit
                /\ e <= q
    BY <1>1, <2>3, <2>4, <2>6, <2>9, <2>11
  <2> QED BY <1>1, <1>4, <1>8, <2>6, <2>8, <2>10, <2>11
<1>9. CASE list # "commits" /\ nextKey # NoKey
  <2>1. PICK e : e = Least(total, nextKey + PageLimit)
    OBVIOUS
  <2>2. nextKey \in Nat /\ e \in Nat /\ e = IF total < nextKey + PageLimit THEN total ELSE nextKey + PageLimit
    <3>1. nextKey \in Nat /\ nextKey + PageLimit \in Nat
      BY <1>1, <1>9
    <3> QED BY <1>1, <1>6, <2>1, <3>1
  <2>3. Answer = [page |-> From(nextKey, e),
                  next |-> IF nextKey + PageLimit < total THEN nextKey + PageLimit ELSE NoKey]
    BY <1>9, <2>1 DEF Answer, KeyedPage
  <2>4. /\ Answer.page = From(nextKey, e)
        /\ Answer.next = IF nextKey + PageLimit < total THEN nextKey + PageLimit ELSE NoKey
    BY <2>3
  <2>5. q = e /\ nextKey <= q
    BY <1>1, <1>9, <2>2, <2>4
  <2>6. Answer.next \in Nat \cup {NoKey} /\ (Answer.next # NoKey => Answer.next < total)
    BY <1>1, <2>2, <2>4
  <2> QED BY <1>4, <1>9, <2>2, <2>4, <2>5, <2>6
<1> QED BY <1>7, <1>8, <1>9

LEMMA PagesStart == PagesInit => PagesInv
<1> SUFFICES ASSUME PagesInit
             PROVE  PagesInv
  OBVIOUS
<1> USE DEF PagesInit
<1>1. PagesTypes
  BY PagesAssumption DEF PagesTypes
<1>2. DOMAIN seen = {}
  OBVIOUS
<1>3. ShownSoFar
  <2>1. total \in Nat /\ offset \in Nat /\ Position = offset /\ pushed = 0
    BY <1>1 DEF PagesTypes, Position
  <2> QED BY <2>1 DEF ShownSoFar
<1>4. NotBeyond /\ InOrder(seen)
  BY <1>2 DEF NotBeyond, InOrder
<1> QED BY <1>1, <1>3, <1>4 DEF PagesInv

LEMMA PageStep == PagesInv /\ NextPage => PagesInv'
<1> SUFFICES ASSUME PagesInv, NextPage
             PROVE  PagesInv'
  OBVIOUS
<1>1. /\ more /\ seen' = seen \o Arranged(Answer.page) /\ nextKey' = Answer.next
      /\ more' = (Answer.next # NoKey)
      /\ list' = list /\ total' = total /\ offset' = offset /\ limit' = limit /\ pushed' = pushed
  BY DEF NextPage, Show
<1>2. PICK q : q = IF Answer.next = NoKey THEN total ELSE Answer.next
  OBVIOUS
<1>3. PICK a \in Nat, b \in Nat :
        /\ Answer.page = From(a, b)
        /\ Answer.next \in Nat \cup {NoKey} /\ (Answer.next # NoKey => Answer.next < total)
        /\ Fits => /\ \A p \in Position..(q - 1) :
                        p \in a..(b - 1) \/ (list # "commits" /\ p = offset + PageLimit)
                   /\ b <= q
                   /\ (a = Position /\ Position <= q) \/ seen = <<>>
  BY <1>1, <1>2, AnswerPage
<1>4. PagesTypes
  BY DEF PagesInv
<1>5. PICK t : t = Arranged(From(a, b))
  OBVIOUS
<1>6. /\ t \in Seq(Int) /\ InOrder(t)
      /\ \A i \in DOMAIN t : \E p \in a..(b - 1) : t[i] = At(p)
      /\ \A p \in a..(b - 1) : \E i \in DOMAIN t : t[i] = At(p)
  BY <1>4, <1>5, ArrangedPage
<1>7. seen \in Seq(Int) /\ total \in Nat /\ pushed \in Nat /\ offset \in Nat /\ PageLimit \in Nat /\ q \in Nat
  BY <1>2, <1>3, <1>4, LimitType DEF PagesTypes
<1>8. Position \in Nat
  BY <1>4 DEF PagesTypes, Position
<1>9. seen' = seen \o t
  BY <1>1, <1>3, <1>5
<1>10. PagesTypes'
  <2>1. seen' \in Seq(Int)
    BY <1>6, <1>7, <1>9
  <2> QED BY <1>1, <1>3, <1>4, <2>1 DEF PagesTypes
<1>11. Position' = q /\ PageLimit' = PageLimit /\ (Fits' => Fits)
  BY <1>1, <1>2 DEF Position, PageLimit, Fits
<1>12. Shown \subseteq Shown' /\ \A i \in DOMAIN t : t[i] \in Shown'
  <2>1. \A i \in DOMAIN seen : i \in DOMAIN seen' /\ seen'[i] = seen[i]
    BY <1>6, <1>7, <1>9, Appended
  <2>2. \A i \in DOMAIN t : Len(seen) + i \in DOMAIN seen' /\ seen'[Len(seen) + i] = t[i]
    BY <1>6, <1>7, <1>9, Appended
  <2>3. Shown' = {seen'[i] : i \in DOMAIN seen'} /\ Shown = {seen[i] : i \in DOMAIN seen}
    BY DEF Shown
  <2> QED BY <2>1, <2>2, <2>3
<1>13. ASSUME Fits'
       PROVE  /\ ShownSoFar'
              /\ (pushed = 0 => NotBeyond /\ InOrder(seen))'
  <2>1. /\ \A p \in Position..(q - 1) :
             p \in a..(b - 1) \/ (list # "commits" /\ p = offset + PageLimit)
        /\ b <= q
        /\ (a = Position /\ Position <= q) \/ seen = <<>>
    BY <1>3, <1>11, <1>13
  <2>2. ShownSoFar /\ (pushed = 0 => NotBeyond /\ InOrder(seen))
    BY <1>11, <1>13 DEF PagesInv
  <2>3. ShownSoFar'
    <3>1. CASE list = "commits"
      <4> SUFFICES ASSUME NEW x \in 1..(total - pushed - offset), x > total - q
                   PROVE  x \in Shown'
        BY <1>1, <1>11, <3>1 DEF ShownSoFar
      <4>1. CASE x > total - Position
        BY <1>12, <2>2, <3>1, <4>1 DEF ShownSoFar
      <4>2. CASE ~(x > total - Position)
        <5>1. total - x \in Position..(q - 1) /\ total - (total - x) = x
          BY <1>7, <1>8, <4>2
        <5>2. total - x \in a..(b - 1)
          BY <2>1, <3>1, <5>1
        <5>3. At(total - x) = x
          BY <3>1, <5>1 DEF At
        <5> QED BY <1>6, <1>12, <5>2, <5>3
      <4> QED BY <4>1, <4>2
    <3>2. CASE list # "commits"
      <4> SUFFICES ASSUME NEW p \in offset..(q - 1), p # offset + PageLimit
                   PROVE  p \in Shown'
        BY <1>1, <1>11, <3>2 DEF ShownSoFar
      <4>1. CASE p < Position
        <5>1. p \in offset..(Position - 1)
          BY <1>7, <1>8, <4>1
        <5> QED BY <1>12, <2>2, <3>2, <5>1 DEF ShownSoFar
      <4>2. CASE ~(p < Position)
        <5>1. p \in Position..(q - 1)
          BY <1>7, <1>8, <4>2
        <5>2. p \in a..(b - 1) /\ At(p) = p
          BY <2>1, <3>2, <5>1 DEF At
        <5> QED BY <1>6, <1>12, <5>2
      <4> QED BY <4>1, <4>2
    <3> QED BY <3>1, <3>2
  <2>4. ASSUME pushed = 0
        PROVE  NotBeyond' /\ InOrder(seen')
    <3>1. NotBeyond /\ InOrder(seen)
      BY <2>2, <2>4
    <3>2. Position <= q \/ seen = <<>>
      BY <2>1
    <3>3. \A i \in DOMAIN t : IF list = "commits" THEN t[i] > total - q ELSE t[i] < q
      <4> SUFFICES ASSUME NEW i \in DOMAIN t
                   PROVE  IF list = "commits" THEN t[i] > total - q ELSE t[i] < q
        OBVIOUS
      <4>1. PICK p \in a..(b - 1) : t[i] = At(p)
        BY <1>6
      <4>2. p \in Nat /\ p < q
        BY <1>7, <2>1
      <4> QED BY <1>7, <4>1, <4>2 DEF At
    <3>4. \A i \in DOMAIN seen : IF list = "commits" THEN seen[i] > total - q ELSE seen[i] < q
      <4> SUFFICES ASSUME NEW i \in DOMAIN seen
                   PROVE  IF list = "commits" THEN seen[i] > total - q ELSE seen[i] < q
        OBVIOUS
      <4>1. seen[i] \in Int /\ seen # <<>>
        BY <1>7
      <4>2. IF list = "commits" THEN seen[i] > total - Position ELSE seen[i] < Position
        BY <3>1 DEF NotBeyond
      <4> QED BY <1>7, <1>8, <3>2, <4>1, <4>2
    <3>5. NotBeyond'
      <4> SUFFICES ASSUME NEW k \in DOMAIN seen'
                   PROVE  IF list = "commits" THEN seen'[k] > total - q ELSE seen'[k] < q
        BY <1>1, <1>11 DEF NotBeyond
      <4>1. CASE k \in DOMAIN seen
        BY <1>6, <1>7, <1>9, <3>4, <4>1, Appended
      <4>2. CASE k > Len(seen) /\ k - Len(seen) \in DOMAIN t
        <5>1. seen'[k] = t[k - Len(seen)]
          BY <1>6, <1>7, <1>9, <4>2
        <5> QED BY <3>3, <4>2, <5>1
      <4> QED BY <1>6, <1>7, <1>9, <4>1, <4>2, Appended
    <3>6. \A i \in DOMAIN seen, j \in DOMAIN t : Precedes(seen[i], t[j])
      <4> SUFFICES ASSUME NEW i \in DOMAIN seen, NEW j \in DOMAIN t
                   PROVE  Precedes(seen[i], t[j])
        OBVIOUS
      <4>1. PICK p \in a..(b - 1) : t[j] = At(p)
        BY <1>6
      <4>2. seen[i] \in Int /\ p \in Nat /\ a = Position /\ Position <= p
        BY <1>7, <1>8, <2>1
      <4>3. IF list = "commits" THEN seen[i] > total - Position ELSE seen[i] < Position
        BY <3>1 DEF NotBeyond
      <4>4. IF list = "commits" THEN seen[i] > t[j] /\ t[j] \in Int ELSE seen[i] < t[j] /\ t[j] \in Int
        BY <1>7, <1>8, <4>1, <4>2, <4>3 DEF At
      <4>5. CASE list = "commits"
        BY <4>4, <4>5 DEF Precedes
      <4>6. CASE list = "changes"
        BY <4>4, <4>6 DEF Precedes
      <4>7. CASE list = "entries"
        BY <4>2, <4>4, <4>7 DEF Precedes
      <4> QED BY <1>4, <4>5, <4>6, <4>7 DEF PagesTypes
    <3>7. InOrder(seen \o t)
      BY <1>6, <1>7, <3>1, <3>6, AppendedInOrder
    <3> QED BY <1>9, <3>5, <3>7
  <2>5. InOrder(seen') => InOrder(seen)'
    BY <1>1 DEF InOrder, Precedes, IsTree
  <2> QED BY <1>1, <2>3, <2>4, <2>5
<1> QED BY <1>10, <1>13 DEF PagesInv

LEMMA PushStep == PagesInv /\ PushCommit => PagesInv'
<1> SUFFICES ASSUME PagesInv, PushCommit
             PROVE  PagesInv'
  OBVIOUS
<1>1. /\ list = "commits" /\ more /\ seen # <<>> /\ pushed < MaxPushed
      /\ total' = total + 1 /\ pushed' = pushed + 1
      /\ list' = list /\ offset' = offset /\ limit' = limit /\ nextKey' = nextKey /\ seen' = seen /\ more' = more
  BY DEF PushCommit
<1>2. PagesTypes
  BY DEF PagesInv
<1>3. nextKey \in Nat /\ nextKey < total /\ nextKey # NoKey
  BY <1>1, <1>2 DEF PagesTypes
<1>4. PagesTypes'
  BY <1>1, <1>2, <1>3, PagesAssumption DEF PagesTypes
<1>5. Position = nextKey /\ Position' = nextKey /\ PageLimit' = PageLimit /\ Fits' = Fits /\ Shown' = Shown
  BY <1>1, <1>3 DEF Position, PageLimit, Fits, Shown
<1>6. ASSUME Fits
      PROVE  ShownSoFar'
  <2>1. ShownSoFar
    BY <1>6 DEF PagesInv
  <2>2. total \in Nat /\ pushed \in Nat /\ offset \in Nat
    BY <1>2 DEF PagesTypes
  <2>3. \A x \in 1..((total + 1) - (pushed + 1) - offset) :
          x > (total + 1) - nextKey => x \in 1..(total - pushed - offset) /\ x > total - nextKey
    BY <1>3, <2>2
  <2> QED BY <1>1, <1>5, <2>1, <2>3 DEF ShownSoFar
<1>7. pushed' # 0
  BY <1>1, <1>2 DEF PagesTypes
<1> QED BY <1>4, <1>5, <1>6, <1>7 DEF PagesInv

(* git turns down no request whose numbers fit.                             *)
LEMMA RefusedStep == PagesInv /\ GitRefuses => PagesInv'
<1> SUFFICES ASSUME PagesInv, GitRefuses
             PROVE  PagesInv'
  OBVIOUS
<1>1. /\ list = "commits" /\ more /\ (NoInt(Skip) \/ NoInt(PageLimit)) /\ more' = FALSE
      /\ nextKey' = NoKey /\ UNCHANGED <<list, total, offset, limit, seen, pushed>>
  BY DEF GitRefuses
<1>2. ~Fits
  <2>1. /\ offset \in Nat /\ total \in Nat /\ nextKey \in Nat \cup {NoKey} /\ PageLimit \in Nat
        /\ nextKey # NoKey => nextKey < total
        /\ total < GitWord \div 2 /\ GitWord \div 2 \in Nat
    BY LimitType, PagesAssumption DEF PagesInv, PagesTypes
  <2> QED BY <1>1, <2>1 DEF Fits, NoInt, Skip, NoKey
<1>3. PagesTypes'
  BY <1>1 DEF PagesInv, PagesTypes
<1>4. ~Fits'
  BY <1>1, <1>2 DEF Fits, PageLimit
<1> QED BY <1>3, <1>4 DEF PagesInv

(* The pages of PaginateCommitHistoryResponse, PaginateTreeContentResponse  *)
(* and PaginateDiffResponse, for lists of every length that git can count,  *)
(* and any number of commits that come in between: whoever follows the next *)
(* keys to the end, with an offset and a limit that fit, gets what it asked *)
(* for, misses at most the one entry behind a first page of a tree or diff, *)
(* and, unless the list grew, sees nothing twice or out of order.           *)
THEOREM PagesOfTheList == PagesSpec => []PagesAreTheList
<1>1. PagesInv /\ [PagesNext]_pageVars => PagesInv'
  <2> SUFFICES ASSUME PagesInv, [PagesNext]_pageVars
               PROVE  PagesInv'
    OBVIOUS
  <2>1. CASE UNCHANGED pageVars
    BY <2>1 DEF pageVars, PagesInv, PagesTypes, Position, ShownSoFar, NotBeyond, InOrder, Precedes,
                IsTree, Shown, Fits, PageLimit
  <2> QED BY <2>1, PageStep, PushStep, RefusedStep DEF PagesNext
<1>2. PagesInv => PagesAreTheList
  <2> SUFFICES ASSUME PagesInv, Fits
               PROVE  /\ ~more => Wanted \ Shown \subseteq IF list = "commits" THEN {} ELSE {offset + PageLimit}
                      /\ SeenOnceInOrder
    BY DEF PagesAreTheList, AllPagesSeen, SeenOnceInOrder
  <2>1. SeenOnceInOrder
    BY DEF PagesInv, InOrder, SeenOnceInOrder
  <2>2. ASSUME ~more
        PROVE  Wanted \ Shown \subseteq IF list = "commits" THEN {} ELSE {offset + PageLimit}
    <3>1. total \in Nat /\ pushed \in Nat /\ offset \in Nat /\ ShownSoFar /\ Position = total
      BY <2>2 DEF PagesInv, PagesTypes, Position
    <3>2. CASE list = "commits"
      <4>1. ASSUME NEW i \in offset..(total - pushed - 1)
            PROVE  total - pushed - i \in Shown
        <5>1. total - pushed - i \in 1..(total - pushed - offset) /\ total - pushed - i > total - total
          BY <3>1
        <5> QED BY <3>1, <3>2, <5>1 DEF ShownSoFar
      <4> QED BY <3>2, <4>1 DEF Wanted
    <3>3. CASE list # "commits"
      <4>1. pushed = 0
        BY <3>3 DEF PagesInv, PagesTypes
      <4>2. \A p \in offset..(total - 1) : p # offset + PageLimit => p \in Shown
        BY <3>1, <3>3 DEF ShownSoFar
      <4> QED BY <3>1, <3>3, <4>1, <4>2 DEF Wanted
    <3> QED BY <3>2, <3>3
  <2> QED BY <2>1, <2>2
<1> QED BY <1>1, <1>2, PagesStart, PTL DEF PagesSpec

----------------------------------------------------------------------------
(* External copies.                                                         *)

Items == [kind : Kinds, new : Cids \cup {None}, old : Cids \cup {None}]
Events == [kind : Kinds \cup {"repo"}, items : Seq(Items), step : Steps]

(* Items that change something.                                             *)
Changing(items) == items # <<>> /\ \A k \in DOMAIN items : items[k].new # items[k].old

PinTypes ==
    /\ current \in [Slots -> Cids \cup {None}]
    /\ copies \in [Providers -> SUBSET (Kinds \X Cids)]
    /\ named \in SUBSET (Kinds \X Cids)
    /\ shared \in SUBSET Cids /\ failed \in SUBSET Cids
    /\ txs \in 0..MaxTx

QueueTypes ==
    /\ queue \in Seq(Seq(Events))
    /\ \A b \in DOMAIN queue : \A e \in DOMAIN queue[b] :
         queue[b][e].step = "wait" /\ Changing(queue[b][e].items)

WorkTypes ==
    /\ work \in Seq(Events)
    /\ \A i \in DOMAIN work : work[i].step # "done" =>
         /\ Changing(work[i].items)
         /\ work[i].step \in {"cache", "pin"} => work[i].items[1].new # None
         /\ work[i].step = "unpin" => work[i].items[1].old # None

(* An event that brings or removes content is still in the queue.           *)
Arriving(c) == \E b \in DOMAIN queue : \E e \in DOMAIN queue[b] :
                   \E k \in DOMAIN queue[b][e].items : queue[b][e].items[k].new = c
Leaving(c) == \E b \in DOMAIN queue : \E e \in DOMAIN queue[b] :
                   \E k \in DOMAIN queue[b][e].items : queue[b][e].items[k].old = c

(* A goroutine has yet to copy, or to remove, content.                      *)
ToCopy(i, c) ==
    /\ work[i].step # "done"
    /\ \E k \in DOMAIN work[i].items :
         work[i].items[k].new = c /\ (k = 1 => work[i].step \notin {"old", "unpin"})
ToRemove(i, c) ==
    work[i].step # "done" /\ \E k \in DOMAIN work[i].items : work[i].items[k].old = c

(* The names that items are about are among those of N.                     *)
Name(k, c, N) == c # None => <<k, c>> \in N
Known(items, N) ==
    \A k \in DOMAIN items :
        Name(items[k].kind, items[k].new, N) /\ Name(items[k].kind, items[k].old, N)

(* What is referenced, in an event or copied was named.                     *)
AllNamed ==
    /\ \A s \in Slots : Name(SlotKind[s], current[s], named)
    /\ \A b \in DOMAIN queue : \A e \in DOMAIN queue[b] : Known(queue[b][e].items, named)
    /\ \A i \in DOMAIN work : work[i].step # "done" => Known(work[i].items, named)
    /\ \A p \in Providers : copies[p] \subseteq named

Counted == \A c \in Cids : refCount(c) > 1 => c \in shared

(* A goroutine that goes by a count: what has changed since is in an event  *)
(* behind it.                                                               *)
LateCopies ==
    \A i \in DOMAIN work : work[i].step \in {"cache", "pin"} =>
        work[i].items[1].new \in Referenced \/ Leaving(work[i].items[1].new)
LateRemovals ==
    \A i \in DOMAIN work : work[i].step = "unpin" /\ work[i].items[1].old \in Referenced =>
        Arriving(work[i].items[1].old)

CopiesDue ==
    \A c \in Referenced \ (shared \cup failed) :
        \/ Arriving(c)
        \/ \E i \in DOMAIN work : ToCopy(i, c)
        \/ \A p \in Providers : c \in Held(p)

RemovalsDue ==
    \A p \in Providers : \A c \in Held(p) \ (failed \cup Mixed \cup Referenced) :
        Leaving(c) \/ \E i \in DOMAIN work : ToRemove(i, c)

PinInv == /\ PinTypes /\ QueueTypes /\ WorkTypes /\ Counted /\ LateCopies /\ LateRemovals
          /\ CopiesDue /\ RemovalsDue /\ AllNamed

----------------------------------------------------------------------------
(* The count of a CID, and the sequence of the slots of a transaction.      *)

LEMMA CountOf ==
    ASSUME PinTypes, NEW c \in Cids
    PROVE  /\ refCount(c) \in Nat
           /\ c \in Referenced <=> refCount(c) # 0
<1> DEFINE T == {s \in Slots : current[s] = c}
<1>1. IsFiniteSet(T)
  <2>1. T \in SUBSET Slots
    OBVIOUS
  <2> QED BY <2>1, FS_Subset, ConstantsAssumption
<1>2. Cardinality(T) \in Nat
  BY <1>1, FS_CardinalityType
<1>3. Cardinality(T) = 0 <=> T = {}
  BY <1>1, FS_EmptySet
<1>4. c \in Referenced <=> T # {}
  BY ConstantsAssumption DEF Referenced
<1> QED BY <1>2, <1>3, <1>4 DEF refCount

LEMMA EachOnce ==
    ASSUME NEW S, IsFiniteSet(S)
    PROVE  /\ Cardinality(S) \in Nat
           /\ SetToSeq(S) \in [1..Cardinality(S) -> S]
           /\ \A s \in S : \E i \in 1..Cardinality(S) : SetToSeq(S)[i] = s
<1> DEFINE n == Cardinality(S)
           q == SetToSeq(S)
<1>1. n \in Nat /\ ExistsBijection(1..n, S)
  BY FS_CardinalityType
<1>2. \E g \in [1..n -> S] : IsInjective(g)
  BY <1>1 DEF ExistsBijection, Bijection, Injection, Surjection, IsInjective
<1>3. q \in [1..n -> S] /\ IsInjective(q)
  BY <1>2 DEF SetToSeq
<1> HIDE DEF q
<1>4. q \in Injection(1..n, S)
  BY <1>3 DEF Injection
<1>5. Cardinality(1..n) = n
  BY <1>1, FS_Interval
<1> HIDE DEF n
<1>6. q \in Surjection(1..n, S)
  BY <1>4, <1>5, FS_Injection DEF n
<1>7. \A s \in S : \E i \in 1..n : q[i] = s
  BY <1>6 DEF Surjection
<1> QED BY <1>1, <1>3, <1>7 DEF n, q

(* The events of a transaction are well formed and say of every slot what   *)
(* it had and has.                                                          *)
Sound(B) == B \in Seq(Events) /\ \A e \in DOMAIN B : B[e].step = "wait" /\ Changing(B[e].items)
Tells(B, new, old) ==
    \E e \in DOMAIN B : \E k \in DOMAIN B[e].items : B[e].items[k].new = new /\ B[e].items[k].old = old

LEMMA BufferTells ==
    ASSUME PinTypes, NEW kind \in Kinds \cup {"repo"}, NEW S \in SUBSET Slots, S # {},
           NEW f \in [S -> Cids \cup {None}], \A s \in S : f[s] # current[s],
           NEW N, \A s \in S : Name(SlotKind[s], f[s], N) /\ Name(SlotKind[s], current[s], N)
    PROVE  /\ Sound(Buffer(kind, S, f)) /\ \A s \in S : Tells(Buffer(kind, S, f), f[s], current[s])
           /\ \A e \in DOMAIN Buffer(kind, S, f) : Known(Buffer(kind, S, f)[e].items, N)
<1> DEFINE n == Cardinality(S)
           q == SetToSeq(S)
           it == [i \in 1..n |-> Item(q[i], f[q[i]])]
<1>1. IsFiniteSet(S)
  BY FS_Subset, ConstantsAssumption
<1>2. n \in Nat /\ q \in [1..n -> S] /\ \A s \in S : \E i \in 1..n : q[i] = s
  BY <1>1, EachOnce
<1>3. n >= 1
  <2>1. n # 0
    BY <1>1, FS_EmptySet
  <2> QED BY <1>2, <2>1
<1>4. Buffer(kind, S, f) = IF kind \in {"asset", "repo"} THEN <<Event(kind, it)>>
                           ELSE [i \in DOMAIN it |-> Event(kind, <<it[i]>>)]
  BY DEF Buffer
<1> HIDE DEF n, q
<1>5. ASSUME NEW i \in 1..n
      PROVE  it[i] \in Items /\ it[i].new = f[q[i]] /\ it[i].old = current[q[i]]
             /\ it[i].new # it[i].old /\ it[i].kind = SlotKind[q[i]] /\ q[i] \in S
  <2>1. q[i] \in S /\ q[i] \in Slots
    BY <1>2, <1>5
  <2>2. f[q[i]] \in Cids \cup {None} /\ current[q[i]] \in Cids \cup {None} /\ f[q[i]] # current[q[i]]
    BY <2>1 DEF PinTypes
  <2>3. SlotKind[q[i]] \in Kinds
    BY <2>1, ConstantsAssumption
  <2> QED BY <2>1, <2>2, <2>3 DEF Item, Items
<1>6. DOMAIN it = 1..n /\ it \in Seq(Items) /\ it # <<>>
  <2>1. it \in [1..n -> Items]
    BY <1>5
  <2>2. it \in Seq(Items) /\ Len(it) = n
    BY <1>2, <2>1
  <2> QED BY <1>3, <2>1, <2>2
<1>7. \A s \in S : \E i \in 1..n : it[i].new = f[s] /\ it[i].old = current[s]
  BY <1>2, <1>5
<1>8. \A i \in 1..n : Name(it[i].kind, it[i].new, N) /\ Name(it[i].kind, it[i].old, N)
  BY <1>5
<1> HIDE DEF it
<1>9. CASE kind \in {"asset", "repo"}
  <2> DEFINE B == <<Event(kind, it)>>
  <2>1. Event(kind, it) \in Events /\ Event(kind, it).step = "wait" /\ Event(kind, it).items = it
    BY <1>6 DEF Event, Events, Steps
  <2>2. Changing(it)
    BY <1>5, <1>6 DEF Changing
  <2>3. B \in Seq(Events) /\ DOMAIN B = {1} /\ B[1] = Event(kind, it)
        /\ Buffer(kind, S, f) = B
    BY <1>4, <1>9, <2>1
  <2> HIDE DEF B
  <2>4. Sound(B)
    BY <2>1, <2>2, <2>3 DEF Sound
  <2>5. 1 \in DOMAIN B /\ B[1].items = it
    BY <2>1, <2>3
  <2>6. \A s \in S : Tells(B, f[s], current[s])
    BY <1>6, <1>7, <2>5 DEF Tells
  <2>7. \A e \in DOMAIN B : Known(B[e].items, N)
    BY <1>6, <1>8, <2>3, <2>5 DEF Known
  <2> QED BY <2>3, <2>4, <2>6, <2>7
<1>10. CASE kind \notin {"asset", "repo"}
  <2> DEFINE B == [i \in 1..n |-> Event(kind, <<it[i]>>)]
  <2>1. ASSUME NEW i \in 1..n
        PROVE  B[i] \in Events /\ B[i].step = "wait" /\ B[i].items = <<it[i]>> /\ Changing(B[i].items)
    <3>1. <<it[i]>> \in Seq(Items)
      BY <1>5, <2>1
    <3>2. B[i] = Event(kind, <<it[i]>>)
      BY <2>1
    <3>3. Changing(<<it[i]>>)
      BY <1>5, <2>1 DEF Changing
    <3> QED BY <3>1, <3>2, <3>3 DEF Event, Events, Steps
  <2>2. B \in Seq(Events) /\ DOMAIN B = 1..n
    <3>1. B \in [1..n -> Events]
      BY <2>1
    <3> HIDE DEF B
    <3>2. DOMAIN B = 1..n
      BY <3>1
    <3>3. B \in Seq(Events)
      BY <1>2, <3>1
    <3> QED BY <3>2, <3>3
  <2> HIDE DEF B
  <2>3. Sound(B)
    BY <2>1, <2>2 DEF Sound
  <2>4. \A i \in 1..n : DOMAIN B[i].items = {1} /\ B[i].items[1] = it[i]
    BY <2>1
  <2>5. \A s \in S : Tells(B, f[s], current[s])
    BY <1>7, <2>2, <2>4 DEF Tells
  <2>6. Buffer(kind, S, f) = B
    BY <1>4, <1>6, <1>10 DEF B
  <2>7. \A e \in DOMAIN B : Known(B[e].items, N)
    BY <1>8, <2>2, <2>4 DEF Known
  <2> QED BY <2>3, <2>5, <2>6, <2>7
<1> QED BY <1>9, <1>10

----------------------------------------------------------------------------
(* A transaction: the queue grows by events that say what it changed.       *)
LEMMA CommitStep ==
    ASSUME PinInv, NEW kind \in Kinds \cup {"repo"}, NEW S \in SUBSET Slots, S # {},
           NEW f \in [S -> Cids \cup {None}], \A s \in S : f[s] # current[s], Commit(kind, S, f)
    PROVE  PinInv'
<1> DEFINE B == Buffer(kind, S, f)
<1> USE DEF PinInv
<1>1. /\ Sound(B) /\ \A s \in S : Tells(B, f[s], current[s])
      /\ \A e \in DOMAIN B : Known(B[e].items, named')
  <2>1. named' = named \cup {<<SlotKind[s], f[s]>> : s \in {t \in S : f[t] # None}}
    BY DEF Commit
  <2>2. \A s \in S : Name(SlotKind[s], f[s], named')
    BY <2>1 DEF Name
  <2>3. \A s \in S : Name(SlotKind[s], current[s], named')
    BY <2>1 DEF AllNamed, Name
  <2> QED BY <2>2, <2>3, BufferTells
<1>2. /\ txs < MaxTx /\ txs' = txs + 1
      /\ current' = [s \in Slots |-> IF s \in S THEN f[s] ELSE current[s]]
      /\ queue' = Append(queue, B)
      /\ named' = named \cup {<<SlotKind[s], f[s]>> : s \in {t \in S : f[t] # None}}
      /\ shared' = shared \cup {c \in Cids : Cardinality({s \in Slots : current'[s] = c}) > 1}
      /\ UNCHANGED <<work, copies, failed>>
  BY DEF Commit
<1> HIDE DEF B
<1>3. /\ queue' \in Seq(Seq(Events)) /\ Len(queue') = Len(queue) + 1 /\ Len(queue) \in Nat
      /\ DOMAIN queue = 1..Len(queue) /\ DOMAIN queue' = 1..(Len(queue) + 1)
      /\ queue'[Len(queue) + 1] = B
      /\ \A b \in DOMAIN queue : b \in DOMAIN queue' /\ queue'[b] = queue[b]
      /\ \A b \in DOMAIN queue' : b \in DOMAIN queue \/ b = Len(queue) + 1
  BY <1>1, <1>2 DEF Sound, QueueTypes
<1>4. QueueTypes'
  BY <1>1, <1>3 DEF QueueTypes, Sound
<1>5. PinTypes'
  <2>1. current' \in [Slots -> Cids \cup {None}]
    BY <1>2 DEF PinTypes
  <2>2. txs' \in 0..MaxTx
    BY <1>2, ConstantsAssumption DEF PinTypes
  <2>3. \A s \in S : SlotKind[s] \in Kinds /\ (f[s] # None => f[s] \in Cids)
    BY ConstantsAssumption
  <2>4. named' \in SUBSET (Kinds \X Cids)
    BY <1>2, <2>3 DEF PinTypes
  <2> QED BY <1>2, <2>1, <2>2, <2>4 DEF PinTypes
<1>6. Counted'
  BY <1>2 DEF Counted, refCount
<1>7. \A c : (Arriving(c) => Arriving(c)') /\ (Leaving(c) => Leaving(c)')
  BY <1>3 DEF Arriving, Leaving
<1>8. ASSUME NEW s \in S, NEW c
      PROVE  (c = f[s] => Arriving(c)') /\ (c = current[s] => Leaving(c)')
  <2>1. PICK e \in DOMAIN B : \E k \in DOMAIN B[e].items :
            B[e].items[k].new = f[s] /\ B[e].items[k].old = current[s]
    BY <1>1, <1>8 DEF Tells
  <2>2. Len(queue) + 1 \in DOMAIN queue'
    BY <1>3
  <2> DEFINE m == Len(queue) + 1
  <2>3. m \in DOMAIN queue' /\ queue'[m] = B
    BY <1>3, <2>2
  <2> HIDE DEF m
  <2>4. \E b \in DOMAIN queue' : \E d \in DOMAIN queue'[b] :
            \E k \in DOMAIN queue'[b][d].items : queue'[b][d].items[k].new = f[s]
    BY <2>1, <2>3
  <2>5. \E b \in DOMAIN queue' : \E d \in DOMAIN queue'[b] :
            \E k \in DOMAIN queue'[b][d].items : queue'[b][d].items[k].old = current[s]
    BY <2>1, <2>3
  <2> QED BY <2>4, <2>5 DEF Arriving, Leaving
<1>9. ASSUME NEW c, c \in Referenced', c \notin Referenced
      PROVE  Arriving(c)'
  <2>1. PICK s \in Slots : current'[s] = c /\ c # None
    BY <1>9 DEF Referenced
  <2>2. current[s] # c
    BY <1>9, <2>1 DEF Referenced
  <2>3. s \in S /\ f[s] = c
    BY <1>2, <2>1, <2>2
  <2> QED BY <1>8, <2>3
<1>10. ASSUME NEW c, c \in Referenced, c \notin Referenced'
       PROVE  Leaving(c)'
  <2>1. PICK s \in Slots : current[s] = c /\ c # None
    BY <1>10 DEF Referenced
  <2>2. current'[s] # c
    BY <1>10, <2>1 DEF Referenced
  <2>3. s \in S
    BY <1>2, <2>1, <2>2
  <2> QED BY <1>8, <2>1, <2>3
<1>11. WorkTypes' /\ \A i \in DOMAIN work, c \in Cids : (ToCopy(i, c) <=> ToCopy(i, c)') /\ (ToRemove(i, c) <=> ToRemove(i, c)')
  BY <1>2 DEF WorkTypes, ToCopy, ToRemove
<1>12. LateCopies'
  BY <1>2, <1>7, <1>10 DEF LateCopies
<1>13. LateRemovals'
  BY <1>2, <1>7, <1>9 DEF LateRemovals
<1>14. CopiesDue'
  <2> SUFFICES ASSUME NEW c \in Referenced', c \notin shared', c \notin failed'
               PROVE  Arriving(c)' \/ (\E i \in DOMAIN work' : ToCopy(i, c)')
                      \/ \A p \in Providers : c \in Held(p)'
    BY DEF CopiesDue
  <2>1. c \in Cids
    BY <1>5 DEF Referenced, PinTypes
  <2>2. CASE c \notin Referenced
    BY <1>9, <2>2
  <2>3. CASE c \in Referenced
    <3>1. \/ Arriving(c)
          \/ \E i \in DOMAIN work : ToCopy(i, c)
          \/ \A p \in Providers : c \in Held(p)
      BY <1>2, <2>3 DEF CopiesDue
    <3> QED BY <1>2, <1>7, <1>11, <2>1, <3>1 DEF Held
  <2> QED BY <2>2, <2>3
<1>15. RemovalsDue'
  <2> SUFFICES ASSUME NEW p \in Providers, NEW c \in Held(p)', c \notin failed', c \notin Mixed',
                      c \notin Referenced'
               PROVE  Leaving(c)' \/ \E i \in DOMAIN work' : ToRemove(i, c)'
    BY DEF RemovalsDue
  <2>1. c \in Cids /\ c \in Held(p) /\ c \notin Mixed
    BY <1>2 DEF Held, Mixed
  <2>2. CASE c \in Referenced
    BY <1>10, <2>2
  <2>3. CASE c \notin Referenced
    <3>1. Leaving(c) \/ \E i \in DOMAIN work : ToRemove(i, c)
      BY <1>2, <2>1, <2>3 DEF RemovalsDue
    <3> QED BY <1>2, <1>7, <1>11, <2>1, <3>1
  <2> QED BY <2>2, <2>3
<1>16. AllNamed'
  <2>1. named \subseteq named'
    BY <1>2
  <2>2. \A items : Known(items, named) => Known(items, named')
    BY <2>1 DEF Known, Name
  <2>3. ASSUME NEW s \in Slots
        PROVE  Name(SlotKind[s], current'[s], named')
    <3>1. CASE s \in S
      BY <1>2, <2>3, <3>1 DEF Name
    <3>2. CASE s \notin S
      BY <1>2, <2>1, <2>3, <3>2 DEF AllNamed, Name
    <3> QED BY <3>1, <3>2
  <2>4. \A b \in DOMAIN queue' : \A e \in DOMAIN queue'[b] : Known(queue'[b][e].items, named')
    BY <1>1, <1>3, <2>2 DEF AllNamed
  <2>5. \A i \in DOMAIN work : work[i].step # "done" => Known(work[i].items, named')
    BY <2>2 DEF AllNamed
  <2>6. \A p \in Providers : copies[p] \subseteq named'
    BY <2>1 DEF AllNamed
  <2> QED BY <1>2, <2>3, <2>4, <2>5, <2>6 DEF AllNamed
<1> QED BY <1>4, <1>5, <1>6, <1>11, <1>12, <1>13, <1>14, <1>15, <1>16

(* The next buffer is handed over: what was arriving or leaving in it is    *)
(* now in the hands of the goroutines.                                      *)
LEMMA HandleStep == PinInv /\ Handle => PinInv'
<1> SUFFICES ASSUME PinInv, Handle
             PROVE  PinInv'
  OBVIOUS
<1> USE DEF PinInv
<1>1. /\ work = <<>> /\ queue # <<>> /\ work' = Head(queue) /\ queue' = Tail(queue)
      /\ UNCHANGED <<current, txs, copies, named, shared, failed>>
  BY DEF Handle
<1>2. /\ work' = queue[1] /\ queue' \in Seq(Seq(Events)) /\ work' \in Seq(Events)
      /\ 1 \in DOMAIN queue
      /\ \A b \in DOMAIN queue' : b + 1 \in DOMAIN queue /\ queue'[b] = queue[b + 1]
      /\ \A b \in DOMAIN queue : b = 1 \/ (b - 1 \in DOMAIN queue' /\ queue'[b - 1] = queue[b])
  BY <1>1 DEF QueueTypes
<1>3. \A i \in DOMAIN work' : work'[i].step = "wait" /\ Changing(work'[i].items)
  BY <1>2 DEF QueueTypes
<1>4. QueueTypes' /\ WorkTypes'
  BY <1>2, <1>3 DEF QueueTypes, WorkTypes
<1>5. ASSUME NEW c, Arriving(c)
      PROVE  Arriving(c)' \/ \E i \in DOMAIN work' : ToCopy(i, c)'
  <2>1. PICK b \in DOMAIN queue : \E e \in DOMAIN queue[b] :
            \E k \in DOMAIN queue[b][e].items : queue[b][e].items[k].new = c
    BY <1>5 DEF Arriving
  <2>2. CASE b = 1
    BY <1>2, <1>3, <2>1, <2>2 DEF ToCopy
  <2>3. CASE b # 1
    BY <1>2, <2>1, <2>3 DEF Arriving
  <2> QED BY <2>2, <2>3
<1>6. ASSUME NEW c, Leaving(c)
      PROVE  Leaving(c)' \/ \E i \in DOMAIN work' : ToRemove(i, c)'
  <2>1. PICK b \in DOMAIN queue : \E e \in DOMAIN queue[b] :
            \E k \in DOMAIN queue[b][e].items : queue[b][e].items[k].old = c
    BY <1>6 DEF Leaving
  <2>2. CASE b = 1
    BY <1>2, <1>3, <2>1, <2>2 DEF ToRemove
  <2>3. CASE b # 1
    BY <1>2, <2>1, <2>3 DEF Leaving
  <2> QED BY <2>2, <2>3
<1>7. /\ PinTypes' /\ Counted' /\ Referenced' = Referenced /\ Mixed' = Mixed
      /\ \A p : Held(p)' = Held(p)
  BY <1>1 DEF PinTypes, Counted, refCount, Referenced, Mixed, Held
<1>8. LateCopies' /\ LateRemovals'
  BY <1>3 DEF LateCopies, LateRemovals
<1>9. CopiesDue'
  BY <1>1, <1>5, <1>7 DEF CopiesDue
<1>10. RemovalsDue'
  BY <1>1, <1>6, <1>7 DEF RemovalsDue
<1>11. AllNamed'
  BY <1>1, <1>2, Zenon DEF AllNamed
<1> QED BY <1>4, <1>7, <1>8, <1>9, <1>10, <1>11

LEMMA HandledStep == PinInv /\ Handled => PinInv'
<1> SUFFICES ASSUME PinInv, Handled
             PROVE  PinInv'
  OBVIOUS
<1> USE DEF PinInv
<1>1. /\ \A i \in DOMAIN work : work[i].step = "done"
      /\ work' = <<>> /\ UNCHANGED <<current, txs, queue, copies, named, shared, failed>>
  BY DEF Handled
<1>2. /\ PinTypes' /\ QueueTypes' /\ Counted' /\ Referenced' = Referenced /\ Mixed' = Mixed
      /\ \A p : Held(p)' = Held(p)
      /\ \A c : (Arriving(c)' <=> Arriving(c)) /\ (Leaving(c)' <=> Leaving(c))
  BY <1>1 DEF PinTypes, QueueTypes, Counted, refCount, Referenced, Mixed, Held, Arriving, Leaving
<1>3. WorkTypes' /\ LateCopies' /\ LateRemovals' /\ AllNamed'
  BY <1>1 DEF WorkTypes, LateCopies, LateRemovals, AllNamed
<1>4. CopiesDue'
  BY <1>1, <1>2 DEF CopiesDue, ToCopy
<1>5. RemovalsDue'
  BY <1>1, <1>2 DEF RemovalsDue, ToRemove
<1> QED BY <1>2, <1>3, <1>4, <1>5

----------------------------------------------------------------------------
(* A goroutine's step.                                                      *)

LEMMA CidsOfItems ==
    ASSUME NEW items \in Seq(Items)
    PROVE  /\ CidsOf(items) \in SUBSET Cids
           /\ \A k \in DOMAIN items, c \in Cids :
                items[k].new = c \/ items[k].old = c => c \in CidsOf(items)
<1>1. \A k \in DOMAIN items : items[k] \in Items
  OBVIOUS
<1>2. ToSet(items) = {items[k] : k \in DOMAIN items}
  BY DEF ToSet
<1>3. \A it \in ToSet(items) : it.new \in Cids \cup {None} /\ it.old \in Cids \cup {None}
  BY <1>1, <1>2 DEF Items
<1>4. CidsOf(items) \in SUBSET Cids
  BY <1>3 DEF CidsOf
<1>5. ASSUME NEW k \in DOMAIN items, NEW c \in Cids, items[k].new = c \/ items[k].old = c
      PROVE  c \in CidsOf(items)
  <2>1. items[k] \in ToSet(items) /\ c # None
    BY <1>2, ConstantsAssumption
  <2>2. c \in {items[k].new, items[k].old}
    BY <1>5
  <2> QED BY <2>1, <2>2 DEF CidsOf
<1> QED BY <1>4, <1>5

(* Only goroutine i moves.                                                  *)
Moves(i) ==
    /\ work' \in Seq(Events) /\ DOMAIN work' = DOMAIN work
    /\ \A j \in DOMAIN work : j # i => work'[j] = work[j]

LEMMA StepMoves ==
    ASSUME WorkTypes, NEW i \in DOMAIN work, NEW l \in Steps, Step(i, l)
    PROVE  Moves(i) /\ work'[i].step = l /\ work'[i].items = work[i].items
<1>1. work \in Seq(Events) /\ work[i] \in Events /\ DOMAIN work = 1..Len(work) /\ Len(work) \in Nat
  BY DEF WorkTypes
<1> DEFINE w == [work[i] EXCEPT !.step = l]
<1>2. w \in Events /\ w.step = l /\ w.items = work[i].items
  BY <1>1 DEF Events
<1>3. work' = [work EXCEPT ![i] = w]
  BY DEF Step
<1> HIDE DEF w
<1>4. work' \in [1..Len(work) -> Events]
  BY <1>1, <1>2, <1>3
<1>5. work' \in Seq(Events)
  BY <1>1, <1>4
<1> QED BY <1>1, <1>2, <1>3, <1>5 DEF Moves

LEMMA NextItemMoves ==
    ASSUME WorkTypes, NEW i \in DOMAIN work, work[i].step \in {"old", "unpin"}, NextItem(i)
    PROVE  /\ Moves(i) /\ work'[i].step \in {"new", "done"}
           /\ work'[i].step # "done" => Changing(work'[i].items)
           /\ \A N : Known(work[i].items, N) => Known(work'[i].items, N)
           /\ \A c : ToCopy(i, c) => ToCopy(i, c)'
           /\ \A c : c # work[i].items[1].old /\ ToRemove(i, c) => ToRemove(i, c)'
<1> DEFINE its == work[i].items
           n == Len(its)
           l == IF n = 1 THEN "done" ELSE "new"
           w == [[work[i] EXCEPT !.items = Tail(its)] EXCEPT !.step = l]
<1>1. work \in Seq(Events) /\ work[i] \in Events /\ DOMAIN work = 1..Len(work) /\ Len(work) \in Nat
  BY DEF WorkTypes
<1>2. its \in Seq(Items) /\ its # <<>> /\ \A k \in DOMAIN its : its[k].new # its[k].old
  BY <1>1 DEF Events, WorkTypes, Changing
<1>3. n \in Nat /\ n >= 1 /\ DOMAIN its = 1..n /\ Tail(its) \in Seq(Items)
      /\ Len(Tail(its)) = n - 1
      /\ \A k \in 1..(n - 1) : Tail(its)[k] = its[k + 1]
  BY <1>2
<1>4. w \in Events /\ w.step = l /\ w.items = Tail(its)
  BY <1>1, <1>3 DEF Events, Steps
<1>5. work' = [work EXCEPT ![i] = w]
  <2>1. work' = [work EXCEPT ![i].items = Tail(@),
                             ![i].step = IF Len(work[i].items) = 1 THEN "done" ELSE "new"]
    BY DEF NextItem
  <2> QED BY <1>1, <2>1
<1> HIDE DEF w
<1>6. work' \in [1..Len(work) -> Events]
  BY <1>1, <1>4, <1>5
<1>7. work' \in Seq(Events)
  BY <1>1, <1>6
<1>8. Moves(i) /\ work'[i].step = l /\ work'[i].items = Tail(its)
  BY <1>1, <1>4, <1>5, <1>7 DEF Moves
<1> DEFINE t == Tail(its)
<1>9. t \in Seq(Items) /\ Len(t) = n - 1 /\ DOMAIN t = 1..(n - 1) /\ \A k \in 1..(n - 1) : t[k] = its[k + 1]
  BY <1>3
<1>10. work'[i].items = t
  BY <1>8
<1> HIDE DEF t, its, n
<1>11. l # "done" => Changing(t)
  <2> SUFFICES ASSUME n # 1
               PROVE  t # <<>> /\ \A k \in DOMAIN t : t[k].new # t[k].old
    BY DEF Changing
  <2>1. t # <<>>
    BY <1>3, <1>9
  <2>2. ASSUME NEW k \in DOMAIN t
        PROVE  t[k].new # t[k].old
    <3>1. k \in 1..(n - 1) /\ k + 1 \in 1..n
      BY <1>3, <1>9, <2>2
    <3> QED BY <1>2, <1>3, <1>9, <3>1
  <2> QED BY <2>1, <2>2
<1>12. ASSUME NEW k \in DOMAIN its, k # 1
       PROVE  l # "done" /\ k - 1 \in DOMAIN t /\ t[k - 1] = its[k]
  <2>1. k \in 1..n /\ k # 1
    BY <1>3, <1>12
  <2>2. n # 1 /\ k - 1 \in 1..(n - 1) /\ (k - 1) + 1 = k
    BY <1>3, <2>1
  <2> QED BY <1>9, <2>2
<1>13. ASSUME NEW c, ToCopy(i, c)
       PROVE  ToCopy(i, c)'
  <2>1. PICK k \in DOMAIN its : its[k].new = c /\ k # 1
    BY <1>13 DEF ToCopy, its
  <2>2. l = "new" /\ k - 1 \in DOMAIN t /\ t[k - 1].new = c
    BY <1>12, <2>1
  <2> QED BY <1>8, <1>10, <2>2 DEF ToCopy
<1>14. ASSUME NEW c, c # its[1].old, ToRemove(i, c)
       PROVE  ToRemove(i, c)'
  <2>1. PICK k \in DOMAIN its : its[k].old = c /\ k # 1
    BY <1>14 DEF ToRemove, its
  <2>2. l # "done" /\ k - 1 \in DOMAIN t /\ t[k - 1].old = c
    BY <1>12, <2>1
  <2> QED BY <1>8, <1>10, <2>2 DEF ToRemove
<1>15. ASSUME NEW N, Known(its, N)
       PROVE  Known(t, N)
  <2>1. \A k \in DOMAIN t : k + 1 \in DOMAIN its /\ t[k] = its[k + 1]
    BY <1>3, <1>9
  <2> QED BY <1>15, <2>1 DEF Known
<1> QED BY <1>8, <1>10, <1>11, <1>13, <1>14, <1>15 DEF its

(* What a goroutine's step has to see to: its own event, and that what it   *)
(* no longer has to copy or remove is done, failed or somebody else's.      *)
Careful(i) ==
    /\ work'[i].step # "done" =>
         /\ Changing(work'[i].items) /\ Known(work'[i].items, named)
         /\ work'[i].step \in {"cache", "pin"} =>
              /\ work'[i].items[1].new # None
              /\ work'[i].items[1].new \in Referenced \/ Leaving(work'[i].items[1].new)
         /\ work'[i].step = "unpin" =>
              /\ work'[i].items[1].old # None
              /\ work'[i].items[1].old \in Referenced => Arriving(work'[i].items[1].old)
    /\ \A c \in Cids : ToCopy(i, c) =>
         \/ ToCopy(i, c)' \/ c \in failed' \/ c \in shared \/ c \notin Referenced
         \/ \A p \in Providers : c \in Held(p)'
    /\ \A c \in Cids : ToRemove(i, c) =>
         \/ ToRemove(i, c)' \/ c \in failed' \/ c \in Mixed \/ c \in Referenced
         \/ \A p \in Providers : c \in Held(p)' => Leaving(c)

(* The copies that come and go are wanted, or an event behind sees to it.   *)
CopiesMove ==
    /\ copies' \in [Providers -> SUBSET (Kinds \X Cids)]
    /\ \A p \in Providers : copies'[p] \subseteq named
    /\ \A p \in Providers, c \in Cids :
         /\ c \in Held(p)' /\ c \notin Held(p) => c \in Referenced \/ Leaving(c)
         /\ c \in Held(p) /\ c \notin Held(p)' => c \notin Referenced \/ Arriving(c)

LEMMA GoroutineStep ==
    ASSUME PinInv, NEW i \in DOMAIN work, UNCHANGED <<current, txs, queue, named, shared>>,
           Moves(i), Careful(i), CopiesMove, failed \subseteq failed', failed' \in SUBSET Cids
    PROVE  PinInv'
<1> USE DEF PinInv
<1>1. /\ QueueTypes' /\ Counted' /\ Referenced' = Referenced /\ PinTypes' /\ Mixed' = Mixed
      /\ \A c : (Arriving(c)' <=> Arriving(c)) /\ (Leaving(c)' <=> Leaving(c))
  BY DEF PinTypes, QueueTypes, Counted, refCount, Referenced, Mixed, Arriving, Leaving, CopiesMove
<1>2. WorkTypes'
  BY DEF WorkTypes, Moves, Careful
<1>3. LateCopies'
  <2> SUFFICES ASSUME NEW j \in DOMAIN work, work'[j].step \in {"cache", "pin"}
               PROVE  work'[j].items[1].new \in Referenced \/ Leaving(work'[j].items[1].new)
    BY <1>1 DEF LateCopies, Moves
  <2>1. CASE j = i
    BY <2>1 DEF Careful
  <2>2. CASE j # i
    BY <2>2 DEF LateCopies, Moves
  <2> QED BY <2>1, <2>2
<1>4. LateRemovals'
  <2> SUFFICES ASSUME NEW j \in DOMAIN work, work'[j].step = "unpin", work'[j].items[1].old \in Referenced
               PROVE  Arriving(work'[j].items[1].old)
    BY <1>1 DEF LateRemovals, Moves
  <2>1. CASE j = i
    BY <2>1 DEF Careful
  <2>2. CASE j # i
    BY <2>2 DEF LateRemovals, Moves
  <2> QED BY <2>1, <2>2
<1>5. ASSUME NEW j \in DOMAIN work, j # i, NEW c
      PROVE  (ToCopy(j, c) => ToCopy(j, c)') /\ (ToRemove(j, c) => ToRemove(j, c)')
  BY <1>5 DEF Moves, ToCopy, ToRemove
<1>6. CopiesDue'
  <2> SUFFICES ASSUME NEW c \in Referenced, c \notin shared, c \notin failed', ~Arriving(c),
                      ~\E j \in DOMAIN work : ToCopy(j, c)'
               PROVE  \A p \in Providers : c \in Held(p)'
    BY <1>1 DEF CopiesDue, Moves
  <2>1. c \in Cids /\ c \notin failed
    BY DEF Referenced, PinTypes
  <2>2. CASE \A p \in Providers : c \in Held(p)
    BY <2>1, <2>2 DEF CopiesMove
  <2>3. ASSUME NEW j \in DOMAIN work, ToCopy(j, c)
        PROVE  \A p \in Providers : c \in Held(p)'
    <3>1. j = i
      BY <1>5, <2>3
    <3> QED BY <2>1, <2>3, <3>1 DEF Careful
  <2> QED BY <2>1, <2>2, <2>3 DEF CopiesDue
<1>7. RemovalsDue'
  <2> SUFFICES ASSUME NEW p \in Providers, NEW c \in Held(p)', c \notin failed', c \notin Referenced,
                      c \notin Mixed,
                      ~\E j \in DOMAIN work : ToRemove(j, c)'
               PROVE  Leaving(c)
    BY <1>1 DEF RemovalsDue, Moves
  <2>1. c \in Cids /\ c \notin failed
    BY DEF Held
  <2>2. CASE c \notin Held(p)
    BY <2>1, <2>2 DEF CopiesMove
  <2>3. ASSUME NEW j \in DOMAIN work, ToRemove(j, c)
        PROVE  Leaving(c)
    <3>1. j = i
      BY <1>5, <2>3
    <3> QED BY <2>1, <2>3, <3>1 DEF Careful
  <2> QED BY <2>1, <2>2, <2>3 DEF RemovalsDue
<1>8. AllNamed'
  <2>1. \A j \in DOMAIN work' : work'[j].step # "done" => Known(work'[j].items, named')
    <3> SUFFICES ASSUME NEW j \in DOMAIN work, work'[j].step # "done"
                 PROVE  Known(work'[j].items, named)
      BY DEF Moves
    <3>1. CASE j = i
      BY <3>1 DEF Careful
    <3>2. CASE j # i
      BY <3>2 DEF AllNamed, Moves
    <3> QED BY <3>1, <3>2
  <2> QED BY <2>1 DEF AllNamed, CopiesMove
<1> QED BY <1>1, <1>2, <1>3, <1>4, <1>6, <1>7, <1>8

(* The item in the hands of a goroutine.                                    *)
LEMMA AtHand ==
    ASSUME PinTypes, WorkTypes, NEW i \in DOMAIN work, work[i].step # "done"
    PROVE  /\ work[i].items \in Seq(Items) /\ Changing(work[i].items)
           /\ 1 \in DOMAIN work[i].items /\ Head(work[i].items) = work[i].items[1]
           /\ work[i].items[1] \in Items /\ work[i].items[1].new # work[i].items[1].old
<1>1. work[i] \in Events
  BY DEF WorkTypes
<1>2. work[i].items \in Seq(Items)
  BY <1>1 DEF Events
<1>3. Changing(work[i].items)
  BY DEF WorkTypes
<1> QED BY <1>2, <1>3 DEF Changing

(* Steps that give an event up leave nothing behind that did not fail.      *)
LEMMA ReturnCareful ==
    ASSUME PinInv, NEW i \in DOMAIN work, work[i].step # "done", Return(i)
    PROVE  Moves(i) /\ Careful(i) /\ failed \subseteq failed' /\ failed' \in SUBSET Cids
<1> USE DEF PinInv
<1>1. work[i].items \in Seq(Items)
  BY AtHand
<1>2. Moves(i) /\ work'[i].step = "done"
  BY StepMoves DEF Return, Steps
<1>3. failed' = failed \cup CidsOf(work[i].items)
  BY DEF Return, Failed
<1>4. failed \subseteq failed' /\ failed' \in SUBSET Cids
  BY <1>1, <1>3, CidsOfItems DEF PinTypes
<1>5. \A c \in Cids : ToCopy(i, c) \/ ToRemove(i, c) => c \in failed'
  BY <1>1, <1>3, CidsOfItems DEF ToCopy, ToRemove
<1> QED BY <1>2, <1>4, <1>5 DEF Careful

(* A step that keeps the item: to copy it may be no longer, to remove it is *)
(* still.                                                                   *)
LEMMA StepCareful ==
    ASSUME PinInv, NEW i \in DOMAIN work, work[i].step # "done",
           NEW l \in {"new", "cache", "pin", "old", "unpin", "hung"}, Step(i, l),
           l \in {"cache", "pin"} =>
              /\ work[i].items[1].new # None
              /\ work[i].items[1].new \in Referenced \/ Leaving(work[i].items[1].new),
           l = "unpin" =>
              /\ work[i].items[1].old # None
              /\ work[i].items[1].old \in Referenced => Arriving(work[i].items[1].old),
           LET c == work[i].items[1].new
           IN  c \in Cids /\ l \in {"old", "unpin"} =>
                 \/ work[i].step \in {"old", "unpin"}
                 \/ c \in failed' \/ c \in shared \/ c \notin Referenced
                 \/ \A p \in Providers : c \in Held(p)'
    PROVE  Moves(i) /\ Careful(i)
<1> USE DEF PinInv
<1>1. Moves(i) /\ work'[i].step = l /\ work'[i].items = work[i].items
  BY StepMoves DEF Steps
<1>2. Changing(work[i].items) /\ Known(work[i].items, named)
  BY AtHand DEF AllNamed
<1>3. ASSUME NEW c \in Cids, ToRemove(i, c)
      PROVE  ToRemove(i, c)'
  BY <1>1, <1>3 DEF ToRemove
<1>4. ASSUME NEW c \in Cids, ToCopy(i, c)
      PROVE  \/ ToCopy(i, c)' \/ c \in failed' \/ c \in shared \/ c \notin Referenced
             \/ \A p \in Providers : c \in Held(p)'
  <2>1. PICK k \in DOMAIN work[i].items :
            work[i].items[k].new = c /\ (k = 1 => work[i].step \notin {"old", "unpin"})
    BY <1>4 DEF ToCopy
  <2>2. CASE k # 1 \/ l \notin {"old", "unpin"}
    BY <1>1, <2>1, <2>2 DEF ToCopy
  <2>3. CASE k = 1 /\ l \in {"old", "unpin"}
    BY <2>1, <2>3
  <2> QED BY <2>2, <2>3
<1> QED BY <1>1, <1>2, <1>3, <1>4 DEF Careful

LEMMA NoCopiesMove ==
    ASSUME PinInv, UNCHANGED copies
    PROVE  CopiesMove
BY DEF PinInv, PinTypes, CopiesMove, AllNamed, Held

(* A copy comes under a name that is known.                                 *)
LEMMA CopyMoves ==
    ASSUME PinInv, NEW k \in Kinds, NEW c \in Cids, NEW P \in SUBSET Providers,
           PutWith(<<k, c>>, P), <<k, c>> \in named, c \in Referenced \/ Leaving(c)
    PROVE  CopiesMove /\ \A p \in P : c \in Held(p)'
<1> DEFINE n == <<k, c>>
<1>1. /\ copies \in [Providers -> SUBSET (Kinds \X Cids)] /\ \A p \in Providers : copies[p] \subseteq named
      /\ n \in Kinds \X Cids /\ n \in named
      /\ copies' = [p \in Providers |-> IF p \in P THEN copies[p] \cup {n} ELSE copies[p]]
  BY DEF PinInv, PinTypes, AllNamed, PutWith
<1>2. \A l, d : <<l, d>> = n => d = c
  OBVIOUS
<1> HIDE DEF n
<1>3. \A p \in Providers : copies[p] \subseteq copies'[p] /\ copies'[p] \subseteq copies[p] \cup {n}
  BY <1>1
<1>4. \A p \in P : n \in copies'[p]
  BY <1>1
<1>5. \A p \in P : c \in Held(p)'
  BY <1>4 DEF Held, n
<1>6. ASSUME NEW p \in Providers, NEW d \in Cids
      PROVE  /\ d \in Held(p) => d \in Held(p)'
             /\ d \in Held(p)' /\ d \notin Held(p) => d = c
  BY <1>2, <1>3, <1>6 DEF Held
<1>7. /\ copies' \in [Providers -> SUBSET (Kinds \X Cids)]
      /\ \A p \in Providers : copies'[p] \subseteq named
  BY <1>1
<1> QED BY <1>5, <1>6, <1>7 DEF CopiesMove

(* The copy under one name goes; content that has only that name is gone.   *)
LEMMA RemovalMoves ==
    ASSUME PinInv, NEW k \in Kinds, NEW c \in Cids, NEW P \in SUBSET Providers,
           TakeFrom(<<k, c>>, P), <<k, c>> \in named, c \in Referenced => Arriving(c)
    PROVE  CopiesMove /\ (c \in Mixed \/ \A p \in P : c \notin Held(p)')
<1> DEFINE n == <<k, c>>
<1>1. /\ copies \in [Providers -> SUBSET (Kinds \X Cids)] /\ \A p \in Providers : copies[p] \subseteq named
      /\ n \in named
      /\ copies' = [p \in Providers |-> IF p \in P THEN copies[p] \ {n} ELSE copies[p]]
  BY DEF PinInv, PinTypes, AllNamed, TakeFrom
<1>2. \A l, d : <<l, d>> = n => d = c /\ l = k
  OBVIOUS
<1>3. c \in Mixed \/ \A l \in Kinds : <<l, c>> \in named => l = k
  BY <1>1 DEF Mixed
<1>4. \A l \in Kinds : l = k => <<l, c>> = n
  OBVIOUS
<1> HIDE DEF n
<1>5. \A p \in Providers : copies'[p] \subseteq copies[p] /\ copies[p] \subseteq copies'[p] \cup {n}
  BY <1>1
<1>6. \A p \in P : n \notin copies'[p] /\ copies'[p] \subseteq named
  BY <1>1
<1>7. c \in Mixed \/ \A p \in P : c \notin Held(p)'
  BY <1>3, <1>4, <1>6 DEF Held
<1>8. ASSUME NEW p \in Providers, NEW d \in Cids
      PROVE  /\ d \in Held(p)' => d \in Held(p)
             /\ d \in Held(p) /\ d \notin Held(p)' => d = c
  BY <1>2, <1>5, <1>8 DEF Held
<1>9. /\ copies' \in [Providers -> SUBSET (Kinds \X Cids)]
      /\ \A p \in Providers : copies'[p] \subseteq named
  BY <1>1
<1> QED BY <1>7, <1>8, <1>9 DEF CopiesMove

LEMMA ProcessStep ==
    ASSUME PinInv, NEW i \in DOMAIN work, Process(i) \/ Hang(i)
    PROVE  PinInv'
<1> USE DEF PinInv
<1> DEFINE it == work[i].items[1]
<1>1. failed \in SUBSET Cids
  BY DEF PinTypes
<1>2. ASSUME work[i].step # "done"
      PROVE  /\ Head(work[i].items) = it /\ it.new \in Cids \cup {None} /\ it.old \in Cids \cup {None}
             /\ it.new # it.old /\ it \in Items /\ it.kind \in Kinds
             /\ it.new # None => <<it.kind, it.new>> \in named
             /\ it.old # None => <<it.kind, it.old>> \in named
  BY <1>2, AtHand DEF Items, AllNamed, Known, Name
<1>3. ASSUME work[i].step # "done", Failed(<<it>>)
      PROVE  /\ failed \subseteq failed' /\ failed' \in SUBSET Cids
             /\ it.new \in Cids => it.new \in failed'
             /\ it.old \in Cids => it.old \in failed'
  <2> DEFINE s == <<it>>
  <2>1. s \in Seq(Items) /\ 1 \in DOMAIN s /\ s[1] = it
    BY <1>2, <1>3
  <2>2. failed' = failed \cup CidsOf(s)
    BY <1>3 DEF Failed
  <2> HIDE DEF s
  <2> QED BY <1>1, <2>1, <2>2, CidsOfItems
<1>4. CASE Start(i)
  <2>1. work[i].step = "wait" /\ Step(i, "new") /\ UNCHANGED <<current, txs, queue, copies, named, shared, failed>>
    BY <1>4 DEF Start
  <2>2. Moves(i) /\ Careful(i)
    BY <2>1, StepCareful
  <2> QED BY <1>1, <2>1, <2>2, NoCopiesMove, GoroutineStep
<1>5. CASE QueryNew(i)
  <2>1. work[i].step = "new" /\ UNCHANGED <<current, txs, queue, copies, named, shared>>
    BY <1>5 DEF QueryNew
  <2>2. CASE Return(i)
    BY <2>1, <2>2, ReturnCareful, NoCopiesMove, GoroutineStep
  <2>3. CASE it.new = None /\ Step(i, "old") /\ UNCHANGED failed
    <3>1. Moves(i) /\ Careful(i)
      BY <2>1, <2>3, StepCareful, ConstantsAssumption
    <3> QED BY <1>1, <2>1, <2>3, <3>1, NoCopiesMove, GoroutineStep
  <2>4. CASE it.new # None /\ refCount(it.new) = 1 /\ Step(i, "cache") /\ UNCHANGED failed
    <3>1. it.new \in Referenced
      BY <1>2, <2>1, <2>4, CountOf
    <3>2. Moves(i) /\ Careful(i)
      BY <2>1, <2>4, <3>1, StepCareful
    <3> QED BY <1>1, <2>1, <2>4, <3>2, NoCopiesMove, GoroutineStep
  <2>5. CASE it.new # None /\ refCount(it.new) # 1 /\ Step(i, "old") /\ UNCHANGED failed
    <3>1. it.new \in Cids
      BY <1>2, <2>1, <2>5
    <3>2. it.new \in shared \/ it.new \notin Referenced
      BY <2>5, <3>1, CountOf DEF Counted
    <3>3. Moves(i) /\ Careful(i)
      BY <2>1, <2>5, <3>2, StepCareful
    <3> QED BY <1>1, <2>1, <2>5, <3>3, NoCopiesMove, GoroutineStep
  <2> QED BY <1>2, <1>5, <2>1, <2>2, <2>3, <2>4, <2>5 DEF QueryNew
<1>6. CASE Cache(i)
  <2>1. work[i].step = "cache" /\ UNCHANGED <<current, txs, queue, copies, named, shared>>
    BY <1>6 DEF Cache
  <2>2. it.new # None /\ (it.new \in Referenced \/ Leaving(it.new))
    BY <2>1 DEF WorkTypes, LateCopies
  <2>3. CASE Return(i)
    BY <2>1, <2>3, ReturnCareful, NoCopiesMove, GoroutineStep
  <2>4. CASE Step(i, "pin") /\ UNCHANGED failed
    <3>1. Moves(i) /\ Careful(i)
      BY <2>1, <2>2, <2>4, StepCareful
    <3> QED BY <1>1, <2>1, <2>4, <3>1, NoCopiesMove, GoroutineStep
  <2>5. CASE Step(i, "old") /\ Failed(<<it>>)
    <3>1. Moves(i) /\ Careful(i)
      BY <1>3, <2>1, <2>5, StepCareful
    <3> QED BY <1>3, <2>1, <2>5, <3>1, NoCopiesMove, GoroutineStep
  <2>6. CASE refCount(it.new) = 0 /\ Step(i, "old") /\ UNCHANGED failed
    <3>1. it.new \in Cids => it.new \notin Referenced
      BY <2>6, CountOf
    <3>2. Moves(i) /\ Careful(i)
      BY <2>1, <2>6, <3>1, StepCareful
    <3> QED BY <1>1, <2>1, <2>6, <3>2, NoCopiesMove, GoroutineStep
  <2> QED BY <1>2, <1>6, <2>1, <2>3, <2>4, <2>5, <2>6 DEF Cache
<1>7. CASE PinFile(i)
  <2>1. work[i].step = "pin" /\ Step(i, "old") /\ UNCHANGED <<current, txs, queue, named, shared>>
    BY <1>7 DEF PinFile
  <2>2. it.new \in Cids /\ (it.new \in Referenced \/ Leaving(it.new))
    BY <1>2, <2>1 DEF WorkTypes, LateCopies
  <2>3. PICK P \in SUBSET Providers :
          /\ PutWith(<<it.kind, it.new>>, P)
          /\ failed' = IF P = Providers THEN failed ELSE failed \cup {it.new}
    BY <1>2, <1>7, <2>1 DEF PinFile
  <2>4. it.kind \in Kinds /\ <<it.kind, it.new>> \in named
    BY <1>2, <2>1, <2>2, ConstantsAssumption
  <2> HIDE DEF it
  <2>5. CopiesMove /\ \A p \in P : it.new \in Held(p)'
    BY <2>2, <2>3, <2>4, CopyMoves
  <2>6. failed \subseteq failed' /\ failed' \in SUBSET Cids
    BY <1>1, <2>2, <2>3
  <2>7. it.new \in failed' \/ \A p \in Providers : it.new \in Held(p)'
    BY <2>3, <2>5
  <2>8. Moves(i) /\ Careful(i)
    BY <2>1, <2>7, StepCareful DEF it
  <2> QED BY <2>1, <2>5, <2>6, <2>8, GoroutineStep
<1>8. ASSUME work[i].step \in {"old", "unpin"}, NextItem(i),
             NEW c, c = it.old,
             c \in Cids =>
               \/ c \in failed' \/ c \in Mixed \/ c \in Referenced
               \/ \A p \in Providers : c \in Held(p)' => Leaving(c)
      PROVE  Moves(i) /\ Careful(i)
  <2>1. /\ Moves(i) /\ work'[i].step \in {"new", "done"}
        /\ work'[i].step # "done" => Changing(work'[i].items)
        /\ \A N : Known(work[i].items, N) => Known(work'[i].items, N)
        /\ \A d : ToCopy(i, d) => ToCopy(i, d)'
        /\ \A d : d # it.old /\ ToRemove(i, d) => ToRemove(i, d)'
    BY <1>8, NextItemMoves
  <2>2. Known(work[i].items, named)
    BY <1>8 DEF AllNamed
  <2> QED BY <1>8, <2>1, <2>2 DEF Careful
<1>9. CASE QueryOld(i)
  <2> DEFINE due == it.old # None /\ it.old # it.new
  <2>1. work[i].step = "old" /\ UNCHANGED <<current, txs, queue, copies, named, shared>>
    BY <1>9 DEF QueryOld
  <2>2. CASE Return(i)
    BY <2>1, <2>2, ReturnCareful, NoCopiesMove, GoroutineStep
  <2>3. CASE (~due \/ refCount(it.old) # 0) /\ NextItem(i) /\ UNCHANGED failed
    <3>1. it.old \in Cids => it.old \in Referenced
      BY <1>2, <2>1, <2>3, CountOf, ConstantsAssumption
    <3>2. Moves(i) /\ Careful(i)
      BY <1>8, <2>1, <2>3, <3>1
    <3> QED BY <1>1, <2>1, <2>3, <3>2, NoCopiesMove, GoroutineStep
  <2>4. CASE due /\ refCount(it.old) = 0 /\ Step(i, "unpin") /\ UNCHANGED failed
    <3>1. it.old \in Cids /\ it.old \notin Referenced
      BY <1>2, <2>1, <2>4, CountOf
    <3>2. Moves(i) /\ Careful(i)
      BY <2>1, <2>4, <3>1, StepCareful
    <3> QED BY <1>1, <2>1, <2>4, <3>2, NoCopiesMove, GoroutineStep
  <2>5. CASE NextItem(i) /\ Failed(<<it>>)
    <3>1. Moves(i) /\ Careful(i)
      BY <1>3, <1>8, <2>1, <2>5
    <3> QED BY <1>3, <2>1, <2>5, <3>1, NoCopiesMove, GoroutineStep
  <2> QED BY <1>2, <1>9, <2>1, <2>2, <2>3, <2>4, <2>5 DEF QueryOld
<1>10. CASE UnpinFile(i)
  <2>1. work[i].step = "unpin" /\ NextItem(i) /\ UNCHANGED <<current, txs, queue, named, shared>>
    BY <1>10 DEF UnpinFile
  <2>2. it.old \in Cids /\ (it.old \in Referenced => Arriving(it.old))
    BY <1>2, <2>1 DEF WorkTypes, LateRemovals
  <2>3. PICK P \in SUBSET Providers :
          /\ TakeFrom(<<it.kind, it.old>>, P)
          /\ failed' = IF P = Providers THEN failed ELSE failed \cup {it.old}
    BY <1>2, <1>10, <2>1 DEF UnpinFile
  <2>4. it.kind \in Kinds /\ <<it.kind, it.old>> \in named
    BY <1>2, <2>1, <2>2, ConstantsAssumption
  <2> HIDE DEF it
  <2>5. CopiesMove /\ (it.old \in Mixed \/ \A p \in P : it.old \notin Held(p)')
    BY <2>2, <2>3, <2>4, RemovalMoves
  <2>6. failed \subseteq failed' /\ failed' \in SUBSET Cids
    BY <1>1, <2>2, <2>3
  <2>7. it.old \in failed' \/ it.old \in Mixed \/ \A p \in Providers : it.old \notin Held(p)'
    BY <2>3, <2>5
  <2>8. Moves(i) /\ Careful(i)
    BY <1>8, <2>1, <2>7
  <2> QED BY <2>1, <2>5, <2>6, <2>8, GoroutineStep
<1>11. CASE Hang(i)
  <2>1. /\ work[i].step \in {"cache", "pin", "unpin"} /\ Step(i, "hung")
        /\ UNCHANGED <<current, txs, queue, named, shared, failed>>
    BY <1>11 DEF Hang
  <2>2. Moves(i) /\ Careful(i)
    BY <2>1, StepCareful
  <2>3. CopiesMove
    <3>1. CASE UNCHANGED copies
      BY <3>1, NoCopiesMove
    <3>2. ASSUME work[i].step = "pin", NEW P \in SUBSET Providers, PutWith(<<it.kind, it.new>>, P)
          PROVE  CopiesMove
      <4>1. it.new \in Cids /\ (it.new \in Referenced \/ Leaving(it.new))
        BY <1>2, <3>2 DEF WorkTypes, LateCopies
      <4>2. it.kind \in Kinds /\ <<it.kind, it.new>> \in named
        BY <1>2, <3>2, <4>1, ConstantsAssumption
      <4> HIDE DEF it
      <4> QED BY <3>2, <4>1, <4>2, CopyMoves
    <3>3. ASSUME work[i].step = "unpin", NEW P \in SUBSET Providers, TakeFrom(<<it.kind, it.old>>, P)
          PROVE  CopiesMove
      <4>1. it.old \in Cids /\ (it.old \in Referenced => Arriving(it.old))
        BY <1>2, <3>3 DEF WorkTypes, LateRemovals
      <4>2. it.kind \in Kinds /\ <<it.kind, it.old>> \in named
        BY <1>2, <3>3, <4>1, ConstantsAssumption
      <4> HIDE DEF it
      <4> QED BY <3>3, <4>1, <4>2, RemovalMoves
    <3> QED BY <1>2, <1>11, <2>1, <3>1, <3>2, <3>3 DEF Hang
  <2> QED BY <1>1, <2>1, <2>2, <2>3, GoroutineStep
<1> QED BY <1>4, <1>5, <1>6, <1>7, <1>9, <1>10, <1>11 DEF Process

LEMMA PinStep == PinInv /\ [Next]_vars => PinInv'
<1> SUFFICES ASSUME PinInv, [Next]_vars
             PROVE  PinInv'
  OBVIOUS
<1>1. CASE UNCHANGED vars
  <2>1. UNCHANGED <<current, txs, queue, work, copies, named, shared, failed>>
    BY <1>1 DEF vars
  <2>2. /\ PinTypes' /\ QueueTypes' /\ WorkTypes' /\ Counted' /\ AllNamed'
        /\ Referenced' = Referenced /\ Mixed' = Mixed
    BY <2>1 DEF PinInv, PinTypes, QueueTypes, WorkTypes, Counted, AllNamed, refCount, Referenced, Mixed
  <2>3. /\ \A c : (Arriving(c)' <=> Arriving(c)) /\ (Leaving(c)' <=> Leaving(c))
        /\ \A i, c : (ToCopy(i, c)' <=> ToCopy(i, c)) /\ (ToRemove(i, c)' <=> ToRemove(i, c))
        /\ \A p : Held(p)' = Held(p)
    BY <2>1 DEF Arriving, Leaving, ToCopy, ToRemove, Held
  <2>4. LateCopies' /\ LateRemovals' /\ CopiesDue' /\ RemovalsDue'
    BY <2>1, <2>2, <2>3 DEF PinInv, LateCopies, LateRemovals, CopiesDue, RemovalsDue
  <2> QED BY <2>2, <2>4 DEF PinInv
<1>2. CASE Update
  <2>1. PICK kind \in Kinds : \E S \in SUBSET {s \in Slots : SlotKind[s] = kind} :
          /\ S # {}
          /\ \E f \in [S -> Cids \cup {None}] :
               (\A s \in S : f[s] # current[s]) /\ Commit(kind, S, f)
    BY <1>2 DEF Update
  <2>2. PICK S \in SUBSET Slots :
          /\ S # {}
          /\ \E f \in [S -> Cids \cup {None}] :
               (\A s \in S : f[s] # current[s]) /\ Commit(kind, S, f)
    BY <2>1
  <2> QED BY <2>2, CommitStep
<1>3. CASE DeleteRepository
  <2> DEFINE S == {s \in Slots : current[s] # None}
             f == [s \in S |-> None]
  <2>1. S \in SUBSET Slots /\ S # {} /\ f \in [S -> Cids \cup {None}] /\ Commit("repo", S, f)
        /\ \A s \in S : f[s] # current[s]
    BY <1>3 DEF DeleteRepository
  <2> QED BY <2>1, CommitStep
<1> QED BY <1>1, <1>2, <1>3, HandleStep, HandledStep, ProcessStep DEF Next, Handlers

LEMMA PinAlways == Spec => []PinInv
<1>1. Init => PinInv
  <2> SUFFICES ASSUME Init
               PROVE  PinInv
    OBVIOUS
  <2> USE DEF Init
  <2>1. PinTypes
    BY ConstantsAssumption DEF PinTypes
  <2>2. QueueTypes /\ WorkTypes /\ LateCopies /\ LateRemovals
    BY DEF QueueTypes, WorkTypes, LateCopies, LateRemovals
  <2>3. Referenced = {}
    BY DEF Referenced
  <2>4. Counted
    BY <2>1, <2>3, CountOf DEF Counted
  <2>5. \A p \in Providers : Held(p) = {}
    BY DEF Held
  <2>6. CopiesDue /\ RemovalsDue
    BY <2>3, <2>5 DEF CopiesDue, RemovalsDue
  <2>7. AllNamed
    BY DEF AllNamed, Name
  <2> QED BY <2>1, <2>2, <2>4, <2>6, <2>7 DEF PinInv
<1> QED BY <1>1, PinStep, PTL DEF Spec

(* The semaphore: goroutines past it.                                       *)
Active == {i \in DOMAIN work : work[i].step \notin {"wait", "done"}}
Admitted == Cardinality(Active) <= MaxWorkers

(* As long as no goroutine gets past it there are not more of them.         *)
LEMMA NoneEnters ==
    ASSUME WorkTypes, Admitted, Active' \subseteq Active
    PROVE  Admitted'
<1>1. IsFiniteSet(DOMAIN work)
  <2>1. DOMAIN work = 1..Len(work) /\ Len(work) \in Nat
    BY DEF WorkTypes
  <2> QED BY <2>1, FS_Interval
<1>2. IsFiniteSet(Active)
  BY <1>1, FS_Subset DEF Active
<1>3. Active' \in SUBSET Active
  OBVIOUS
<1>4. Cardinality(Active') <= Cardinality(Active) /\ IsFiniteSet(Active')
  BY <1>2, <1>3, FS_Subset
<1>5. Cardinality(Active) \in Nat /\ Cardinality(Active') \in Nat /\ MaxWorkers \in Nat
  BY <1>2, <1>4, FS_CardinalityType, ConstantsAssumption
<1> QED BY <1>4, <1>5 DEF Admitted

LEMMA AdmittedStep == PinInv /\ Admitted /\ [Next]_vars => Admitted'
<1> SUFFICES ASSUME PinInv, Admitted, [Next]_vars
             PROVE  Admitted'
  OBVIOUS
<1> USE DEF PinInv
<1>1. ASSUME UNCHANGED work
      PROVE  Admitted'
  BY <1>1 DEF Admitted, Active
<1>2. CASE UNCHANGED vars \/ Update \/ DeleteRepository
  BY <1>1, <1>2 DEF vars, Update, DeleteRepository, Commit
<1>3. CASE Handle
  <2>1. queue # <<>> /\ work' = Head(queue)
    BY <1>3 DEF Handle
  <2>2. 1 \in DOMAIN queue /\ work' = queue[1]
    BY <2>1 DEF QueueTypes
  <2>3. \A i \in DOMAIN work' : work'[i].step = "wait"
    BY <2>2 DEF QueueTypes
  <2> QED BY <2>3, NoneEnters DEF Active
<1>4. CASE Handled
  BY <1>4, NoneEnters DEF Handled, Active
<1>5. ASSUME NEW i \in DOMAIN work, Moves(i), work[i].step \notin {"wait", "done"}
      PROVE  Admitted'
  <2>1. Active' \subseteq Active
    BY <1>5 DEF Active, Moves
  <2> QED BY <2>1, NoneEnters
<1>6. ASSUME NEW i \in DOMAIN work, NEW l \in Steps, Step(i, l), work[i].step \notin {"wait", "done"}
      PROVE  Admitted'
  BY <1>5, <1>6, StepMoves
<1>7. ASSUME NEW i \in DOMAIN work, NextItem(i), work[i].step \in {"old", "unpin"}
      PROVE  Admitted'
  BY <1>5, <1>7, NextItemMoves
<1>8. ASSUME NEW i \in DOMAIN work, QueryNew(i) \/ Cache(i) \/ PinFile(i) \/ Hang(i)
      PROVE  Admitted'
  <2>1. work[i].step \notin {"wait", "done"} /\ \E l \in {"old", "cache", "pin", "done", "hung"} : Step(i, l)
    BY <1>8 DEF QueryNew, Cache, PinFile, Return, Hang
  <2> QED BY <1>6, <2>1 DEF Steps
<1>9. ASSUME NEW i \in DOMAIN work, QueryOld(i) \/ UnpinFile(i)
      PROVE  Admitted'
  <2>1. /\ work[i].step \in {"old", "unpin"}
        /\ NextItem(i) \/ \E l \in {"unpin", "done"} : Step(i, l)
    BY <1>9 DEF QueryOld, UnpinFile, Return
  <2> QED BY <1>6, <1>7, <2>1 DEF Steps
<1>10. ASSUME NEW i \in DOMAIN work, Start(i)
       PROVE  Admitted'
  <2>1. Cardinality(Active) < MaxWorkers /\ Step(i, "new")
    BY <1>10 DEF Start, Active
  <2>2. Moves(i)
    BY <1>10, <2>1, StepMoves DEF Steps
  <2>3. DOMAIN work = 1..Len(work) /\ Len(work) \in Nat
    BY DEF WorkTypes
  <2>4. IsFiniteSet(Active)
    <3>1. IsFiniteSet(DOMAIN work)
      BY <2>3, FS_Interval
    <3> QED BY <3>1, FS_Subset DEF Active
  <2>5. IsFiniteSet(Active \cup {i}) /\ Cardinality(Active \cup {i}) <= Cardinality(Active) + 1
    <3>1. Cardinality(Active) \in Nat
      BY <2>4, FS_CardinalityType
    <3>2. IsFiniteSet(Active \cup {i})
      BY <2>4, FS_AddElement
    <3>3. i \in Active => Cardinality(Active \cup {i}) = Cardinality(Active)
      BY <2>4, FS_AddElement
    <3>4. i \notin Active => Cardinality(Active \cup {i}) = Cardinality(Active) + 1
      BY <2>4, FS_AddElement
    <3> QED BY <3>1, <3>2, <3>3, <3>4
  <2>6. Active' \in SUBSET (Active \cup {i})
    BY <1>10, <2>2 DEF Active, Moves
  <2>7. IsFiniteSet(Active') /\ Cardinality(Active') <= Cardinality(Active \cup {i})
    BY <2>5, <2>6, FS_Subset
  <2>8. /\ Cardinality(Active) \in Nat /\ Cardinality(Active') \in Nat /\ MaxWorkers \in Nat
        /\ Cardinality(Active \cup {i}) \in Nat
    BY <2>4, <2>5, <2>7, FS_CardinalityType, ConstantsAssumption
  <2> QED BY <2>1, <2>5, <2>7, <2>8 DEF Admitted
<1> QED BY <1>2, <1>3, <1>4, <1>8, <1>9, <1>10 DEF Next, Handlers, Process

(* The handlers' semaphores admit no more goroutines than MaxWorkers at a   *)
(* time, for any buffers, and each of those has an item in its hands.       *)
THEOREM WorkersBounded == Spec => []TypeOK
<1>1. PinInv /\ Admitted => TypeOK
  <2> SUFFICES ASSUME PinInv, Admitted
               PROVE  TypeOK
    OBVIOUS
  <2>1. ASSUME NEW i \in DOMAIN work
        PROVE  work[i].step \in Steps /\ (work[i].step = "done" \/ work[i].items # <<>>)
    <3>1. work[i] \in Events
      BY <2>1 DEF PinInv, WorkTypes
    <3>2. work[i].step \in Steps
      BY <3>1 DEF Events
    <3>3. work[i].step # "done" => work[i].items # <<>>
      BY <2>1 DEF PinInv, WorkTypes, Changing
    <3> QED BY <3>2, <3>3
  <2>2. Cardinality({i \in DOMAIN work : work[i].step \notin {"wait", "done"}}) <= MaxWorkers
    BY DEF Admitted, Active
  <2>3. PinTypes
    BY DEF PinInv
  <2> QED BY <2>1, <2>2, <2>3 DEF PinTypes, TypeOK
<1>2. Init => Admitted
  <2> SUFFICES ASSUME Init
               PROVE  Admitted
    OBVIOUS
  <2>1. Active = {}
    BY DEF Init, Active
  <2> QED BY <2>1, FS_EmptySet, ConstantsAssumption DEF Admitted
<1> QED BY <1>1, <1>2, AdmittedStep, PinAlways, PTL DEF Spec

(* The handlers of PackfileUpdated, LfsObjectUpdated, ReleaseAssetsUpdated  *)
(* and RepositoryDeleted, for any slots, CIDs, providers, workers and       *)
(* faults: once all events are handled, no provider keeps content that      *)
(* nothing references, unless its handling failed or it was referenced as   *)
(* content of two kinds.                                                    *)
THEOREM RemovedIsUnpinned == Spec => []NothingLeftBehind
<1>1. PinInv => NothingLeftBehind
  BY DEF PinInv, RemovalsDue, NothingLeftBehind, Quiet, Leaving
<1> QED BY <1>1, PinAlways, PTL

(* ... and every provider has the referenced content that was never         *)
(* referenced twice at a time and whose handling did not fail, although the *)
(* counts the handlers go by are those of a later time than the event's.    *)
THEOREM ReferencedIsCopied == Spec => []UnsharedIsCopied
<1>1. PinInv => UnsharedIsCopied
  BY DEF PinInv, CopiesDue, UnsharedIsCopied, Quiet, Arriving
<1> QED BY <1>1, PinAlways, PTL
=============================================================================
