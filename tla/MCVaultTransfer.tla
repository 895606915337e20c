---------------------------- MODULE MCVaultTransfer ----------------------------
(***************************************************************************)
(* Bounded instances of VaultTransfer for TLC.                             *)
(***************************************************************************)
EXTENDS VaultTransfer, TLC

CONSTANTS v1, v2

TransferOf(key, from, to, amount, day) ==
    [op |-> "transfer", key |-> key, from |-> from, to |-> to,
     amount |-> amount, day |-> day]
ReversalOf(key, of, day) ==
    [op |-> "reversal", key |-> key, of |-> of, day |-> day]

\* One transfer, the same key with another amount, a transfer to itself,
\* two reversals of the first voucher (one dated before it), the reversal
\* of a reversal.
MCRequests ==
    {TransferOf("k1", v1, v2, 2, 2), TransferOf("k1", v1, v2, 1, 2),
     TransferOf("k2", v2, v2, 1, 2), TransferOf("k2", v2, v1, 1, 1),
     ReversalOf("k2", 1, 2), ReversalOf("k3", 1, 2), ReversalOf("k3", 1, 1),
     ReversalOf("k4", 2, 2)}

\* Few requests, for the runs where calendar and vaults move as well.
SmallRequests ==
    {TransferOf("k1", v1, v2, 2, 2), ReversalOf("k3", 1, 2)}

Symmetry == Permutations(Attempts)

VaultAccounts == {v1, v2}

=============================================================================
