--------------------------- MODULE AccountBalance ---------------------------
(***************************************************************************)
(* The balance of one account: src/core.rs, AccountBalance, with the asset *)
(* counts it is made of (UnsignedAssetCount, a FixedDecimal<u64, 4>).      *)
(*                                                                         *)
(* Definitions marked `Fault' are not part of the model: they are wrong    *)
(* variants of the definition below them, which the properties must tell   *)
(* from it (see README.md).                                                *)
(*                                                                         *)
(* An asset count is its number of fractions (1 asset = 10000 fractions),  *)
(* a u64: every operation is checked and fails when its result does not    *)
(* fit.  A Rust Option, or a Result whose error carries nothing, is the    *)
(* set of the values returned: {v} for Some(v) or Ok(v), {} for None or    *)
(* Err(BalanceUpdateError).  A method that takes &mut self is a function   *)
(* from the old balance to the new one; since the methods write the fields *)
(* only in `update', after the last check, a failure leaves the balance    *)
(* as it was.                                                              *)
(***************************************************************************)
EXTENDS Integers

CONSTANT MaxFractions    \* The largest asset count: u64::MAX in the program

ASSUME MaxFractionsAssumption == MaxFractions \in Nat

AssetCount == 0 .. MaxFractions

Balance == [available : AssetCount, held : AssetCount]

NewBalance == [available |-> 0, held |-> 0]

Total(balance) == balance.available + balance.held

-----------------------------------------------------------------------------
(* Arithmetic on asset counts. *)

(* Fault: the largest count is taken for an overflow. *)
CheckedAddExclusive(a, b) == {a + b} \cap (AssetCount \ {MaxFractions})

CheckedAdd(a, b) == {a + b} \cap AssetCount

CheckedSub(a, b) == {a - b} \cap AssetCount

-----------------------------------------------------------------------------
(* The mutators.  They all end in Update, which also checks the total. *)

(* Fault: the total is not checked. *)
UpdateUnchecked(available, held) == {[available |-> available, held |-> held]}

Update(available, held) ==
  {[available |-> available, held |-> held] : total \in CheckedAdd(available, held)}

IncAvailable(balance, amount) ==
  UNION {Update(available, balance.held) :
           available \in CheckedAdd(balance.available, amount)}

DecAvailable(balance, amount) ==
  UNION {Update(available, balance.held) :
           available \in CheckedSub(balance.available, amount)}

MoveAvailableToHeld(balance, amount) ==
  UNION {Update(available, held) :
           available \in CheckedSub(balance.available, amount),
           held \in CheckedAdd(balance.held, amount)}

(* Fault: the assets are released but stay held. *)
ReleaseKeepsHeld(balance, amount) == IncAvailable(balance, amount)

MoveHeldToAvailable(balance, amount) ==
  UNION {Update(available, held) :
           available \in CheckedAdd(balance.available, amount),
           held \in CheckedSub(balance.held, amount)}
=============================================================================
