-------------------------------- MODULE Vaults --------------------------------
(***************************************************************************)
(* The vaults of one company (vaults.service.ts): opened together with an  *)
(* account, archived and restored, removed (isActive = false).  Archiving  *)
(* and removing read in one statement and write in another, without a      *)
(* transaction, so postings and other clerks get in between.               *)
(***************************************************************************)
EXTENDS Ledger, FiniteSets

CONSTANTS Vaults,   \* the vaults that exist or may be opened
          Opened,   \* those of them opened before the behaviour starts
          Clerks    \* concurrent requests on the vault settings

ASSUME VaultsAssumption == Vaults \subseteq Accounts /\ Opened \subseteq Vaults

VARIABLES vault,    \* Vaults -> the flags of the row, code 0 before it exists
          clerk     \* what each settings request is doing

vaultVars == <<vault, clerk>>

Unopened == [code |-> 0, active |-> FALSE, archived |-> FALSE]
NoClerk  == [pc |-> "idle"]

VaultTypeOK ==
    /\ vault \in [Vaults -> [code : Nat, active : BOOLEAN, archived : BOOLEAN]]
    /\ clerk \in [Clerks -> {NoClerk}
                    \cup [pc : {"opening"}, code : Nat]
                    \cup [pc : {"archiving"}, vault : Vaults, seen : BOOLEAN]
                    \cup [pc : {"removing"}, vault : Vaults]]

Exists(v) == vault[v].code # 0

\* The endpoint rule of assertVaultTransferEndpoints.
Usable(v) == Exists(v) /\ vault[v].active /\ ~vault[v].archived

-----------------------------------------------------------------------------

\* The vaults opened earlier carry the codes 1, 2, ... in some order.
VaultInit ==
    /\ \E code \in [Opened -> 1..Cardinality(Opened)] :
          /\ \A v, w \in Opened : code[v] = code[w] => v = w
          /\ vault = [v \in Vaults |->
                IF v \in Opened THEN [code |-> code[v], active |-> TRUE, archived |-> FALSE]
                                ELSE Unopened]
    /\ clerk = [c \in Clerks |-> NoClerk]

\* create: the account code is the largest one read plus one, ...
OpenRead(c) ==
    /\ clerk[c] = NoClerk
    /\ \E v \in Vaults : ~Exists(v)
    /\ \E top \in {vault[v].code : v \in Vaults} :
          /\ \A v \in Vaults : vault[v].code <= top
          /\ clerk' = [clerk EXCEPT ![c] = [pc |-> "opening", code |-> top + 1]]
    /\ UNCHANGED vault

\* ... and the insert fails if the unique (companyId, code) is taken by then.
OpenWrite(c) ==
    /\ clerk[c].pc = "opening"
    /\ \/ /\ \A v \in Vaults : vault[v].code # clerk[c].code
          /\ \E v \in Vaults :
                /\ ~Exists(v)
                /\ vault' = [vault EXCEPT ![v] =
                      [code |-> clerk[c].code, active |-> TRUE, archived |-> FALSE]]
       \/ /\ \E v \in Vaults : vault[v].code = clerk[c].code
          /\ UNCHANGED vault
    /\ clerk' = [clerk EXCEPT ![c] = NoClerk]

\* archive: the flag is read, ...
ArchiveRead(c, v) ==
    /\ clerk[c] = NoClerk
    /\ Exists(v)
    /\ clerk' = [clerk EXCEPT ![c] =
                   [pc |-> "archiving", vault |-> v, seen |-> vault[v].archived]]
    /\ UNCHANGED vault

\* ... and its negation written.
ArchiveWrite(c) ==
    /\ clerk[c].pc = "archiving"
    /\ vault' = [vault EXCEPT ![clerk[c].vault].archived = ~clerk[c].seen]
    /\ clerk' = [clerk EXCEPT ![c] = NoClerk]

\* remove: only a vault without a single ledger entry, by a count ...
RemoveCount(c, v) ==
    /\ clerk[c] = NoClerk
    /\ Exists(v)
    /\ ~HasMovement(v)
    /\ clerk' = [clerk EXCEPT ![c] = [pc |-> "removing", vault |-> v]]
    /\ UNCHANGED vault

\* ... that the update does not repeat.
RemoveWrite(c) ==
    /\ clerk[c].pc = "removing"
    /\ vault' = [vault EXCEPT ![clerk[c].vault].active = FALSE]
    /\ clerk' = [clerk EXCEPT ![c] = NoClerk]

VaultNext ==
    \E c \in Clerks :
        \/ OpenRead(c) \/ OpenWrite(c) \/ ArchiveWrite(c) \/ RemoveWrite(c)
        \/ \E v \in Vaults : ArchiveRead(c, v) \/ RemoveCount(c, v)

-----------------------------------------------------------------------------

\* Two vaults never get the same account, though two clerks may have
\* computed the same next code (create in vaults.service.ts).
CodesDistinct ==
    \A v, w \in Vaults : Exists(v) /\ vault[v].code = vault[w].code => v = w

\* A removed vault holds no movement: remove refuses a vault with ledger
\* entries and tells the user to archive it instead.
RemovedHoldsNothing ==
    \A v \in Vaults : Exists(v) /\ ~vault[v].active => ~HasMovement(v)

=============================================================================
