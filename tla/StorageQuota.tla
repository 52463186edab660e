---------------------------- MODULE StorageQuota -----------------------------
(***************************************************************************)
(* What storage costs (utils/storage_fee.go), and the check that pushes,   *)
(* merges and LFS uploads make before they pin anything: the packfile's    *)
(* size, the owner's quota and, if there is a charge, the owner's balance  *)
(* are queries one after the other, with approvals of other uploads in     *)
(* between.  The chain charges later, when the proposal is approved, by    *)
(* the same calculation on the numbers of that time (external).            *)
(*                                                                         *)
(* Usage is unsigned and has a width; sizes and the free limit are in      *)
(* units of which GB make a gigabyte.  The locks of the repositories are   *)
(* left out: two checks of one repository may overlap.                     *)
(***************************************************************************)
EXTENDS Integers

CONSTANTS Holdings,    \* repositories of one owner
          Changes,     \* pushes, merges and uploads to them
          Sizes,       \* sizes their packfiles can have
          Word,        \* 2^64
          GB,          \* 1024 * 1024 * 1024
          FreeLimit,   \* FreeStorageMb * 1024 * 1024
          Price,       \* StoragePricePerGb
          Balances     \* what the owner has to begin with

ASSUME QuotaAssumption ==
    /\ Sizes \subseteq Nat /\ 0 \in Sizes /\ Balances \subseteq Nat
    /\ Word \in Nat \ {0} /\ GB \in Nat \ {0} /\ FreeLimit \in Nat /\ Price \in Nat

VARIABLES
    stored,   \* chain: repository -> the size of its packfile
    used,     \* chain: UserQuota.StorageUsed
    balance,  \* chain: the owner's balance
    check,    \* change -> how far its check is, and what it has read
    paid,     \* history: what the chain has charged
    grown     \* history: TRUE while no packfile has become smaller

quotaVars == <<stored, used, balance, check, paid, grown>>

BugFreeLimitForgotten(currentUsage, newUsage) ==
    IF newUsage <= FreeLimit THEN 0 ELSE (((newUsage - currentUsage) % Word) \div GB) * Price

CalculateStorageCost(currentUsage, newUsage) ==
    IF currentUsage > FreeLimit
    THEN (((newUsage - currentUsage) % Word) \div GB) * Price   \* diff <= 0 only if it is 0
    ELSE IF newUsage <= FreeLimit THEN 0
    ELSE ((newUsage - FreeLimit) \div GB) * Price

(* used + uint64(storageDelta), the delta a signed difference of sizes.     *)
NewUsage(current, size) == (used + ((size - current) % Word)) % Word

NoCheck == [at |-> "none"]
NewCheck(r, size, current) == [at |-> "sized", repo |-> r, size |-> size, current |-> current, cost |-> 0]
Sized == {c \in Changes : check[c].at = "sized"}
Priced == {c \in Changes : check[c].at = "priced"}
Proposed == {c \in Changes : check[c].at = "proposed"}

QuotaInit ==
    /\ stored = [r \in Holdings |-> 0]
    /\ used = 0
    /\ balance \in Balances
    /\ check = [c \in Changes |-> NoCheck]
    /\ paid = 0
    /\ grown = TRUE

----------------------------------------------------------------------------
(* The new packfile is there; a failing query of the old one counts as none.*)
QueryPackfile(c, r, size) ==
    /\ check[c] = NoCheck
    /\ \E current \in {stored[r], 0} : check' = [check EXCEPT ![c] = NewCheck(r, size, current)]
    /\ UNCHANGED <<stored, used, balance, paid, grown>>

(* The quota, the parameters and the cost; without one the balance is not   *)
(* looked at.                                                               *)
BugOnlyCurrentUsage(c) ==
    /\ c \in Sized
    /\ LET cost == CalculateStorageCost(used, used)
       IN check' = [check EXCEPT ![c] = [@ EXCEPT !.at = IF cost = 0 THEN "proposed" ELSE "priced",
                                                !.cost = cost]]
    /\ UNCHANGED <<stored, used, balance, paid, grown>>

QueryQuota(c) ==
    /\ c \in Sized
    /\ LET cost == CalculateStorageCost(used, NewUsage(check[c].current, check[c].size))
       IN check' = [check EXCEPT ![c] = [@ EXCEPT !.at = IF cost = 0 THEN "proposed" ELSE "priced",
                                                !.cost = cost]]
    /\ UNCHANGED <<stored, used, balance, paid, grown>>

QueryBalance(c) ==
    /\ c \in Priced
    /\ check[c].cost <= balance
    /\ check' = [check EXCEPT ![c].at = "proposed"]
    /\ UNCHANGED <<stored, used, balance, paid, grown>>

(* A query fails, the balance is too small, or the proposal is rejected or  *)
(* expires.                                                                 *)
Drop(c) ==
    /\ check[c] # NoCheck
    /\ check' = [check EXCEPT ![c] = NoCheck]
    /\ UNCHANGED <<stored, used, balance, paid, grown>>

(* The chain approves a proposal and charges for it, if it can.             *)
Charge(c) == CalculateStorageCost(used, NewUsage(stored[check[c].repo], check[c].size))

ApproveUpload(c) ==
    /\ c \in Proposed
    /\ Charge(c) <= balance
    /\ LET r == check[c].repo
           size == check[c].size
       IN /\ balance' = balance - Charge(c)
          /\ paid' = paid + Charge(c)
          /\ used' = NewUsage(stored[r], size)
          /\ stored' = [stored EXCEPT ![r] = size]
          /\ grown' = (grown /\ size >= stored[r])
    /\ check' = [check EXCEPT ![c] = NoCheck]

QuotaNext ==
    \E c \in Changes :
        \/ \E r \in Holdings, size \in Sizes : QueryPackfile(c, r, size)
        \/ QueryQuota(c) \/ QueryBalance(c) \/ Drop(c) \/ ApproveUpload(c)

QuotaSpec == QuotaInit /\ [][QuotaNext]_quotaVars

----------------------------------------------------------------------------
(* What the chain will charge for a proposal is at most what its check      *)
(* looked at (git_http.go:240), and the price of the free storage: however  *)
(* many other uploads of the owner are approved between the queries of the  *)
(* check, and between them and the approval, they can use up no more than   *)
(* that.  Sizes only grow, the proposed one too.                            *)
FreeStorage == ((FreeLimit + GB - 1) \div GB) * Price
ChargeIsForeseen ==
    grown => \A c \in Proposed : check[c].size >= stored[check[c].repo]
                                   => Charge(c) <= check[c].cost + FreeStorage

(* However the growth of an owner's storage is cut into uploads, the        *)
(* charges, each rounded down to gigabytes, do not add up to more than the  *)
(* charge for the whole (storage_fee.go:33, 57), up and across the free     *)
(* limit and with the differences wrapped at the word's width.              *)
NeverOvercharged ==
    grown => paid <= (IF used > FreeLimit THEN (used - FreeLimit) \div GB ELSE 0) * Price
=============================================================================
