--------------------------- MODULE VaultActivation ---------------------------
(***************************************************************************)
(* How the new keys of an epoch take over the vaults.  One key can serve   *)
(* several chains (the EVM key serves Ethereum and Arbitrum): cf-vaults    *)
(* keeps the activation of each chain, evm_vault_activator joins those of  *)
(* one key, the threshold signers join those into the rotation of a key,   *)
(* cf-chain-tracking gives the height at which a vault starts,             *)
(* cf-environment the nonces of the transactions and the governance calls  *)
(* that complete the first vault of a chain.                               *)
(***************************************************************************)
EXTENDS Integers, FiniteSets, FiniteSetsExt, Sequences

CONSTANT VaultPlans   \* [chains, started, initialized, period, max_height, max_epoch, max_sent]

VARIABLES
  va_plan,
  va_epoch,             \* CurrentEpoch
  rotation_phase,       \* "Idle", "KeyHandoverComplete", "ActivatingKeys", "KeysActivated"
  key_status,           \* PendingKeyRotation of each key: "AwaitingActivationSignatures", "Complete"
  requests,             \* the chains whose activation request is still listed for its key
  signed_requests,      \* the chains whose activation request is answered
  vault_keys,           \* the key new transactions of a key's chains are signed with
  PendingVault,         \* PendingVaultActivation of each chain
  VaultStart,           \* VaultStartBlockNumbers of each chain
  Initialized,          \* ChainInitialized of each chain
  chain_height,         \* CurrentChainState.block_height of each chain
  dot_vault_account,    \* whether PolkadotVaultAccountId is set
  nonces,               \* signature nonces of the EVM chains, proxy account nonce of Polkadot
  sent                  \* transactions of each chain, in the order they were made

vaultVars == <<va_plan, va_epoch, rotation_phase, key_status, requests, signed_requests,
               vault_keys, PendingVault, VaultStart, Initialized, chain_height,
               dot_vault_account, nonces, sent>>

keyRotationVars == <<rotation_phase, key_status, requests, signed_requests, vault_keys>>

Chains == va_plan.chains
KeyOf(chain) == IF chain \in {"Ethereum", "Arbitrum"} THEN "Evm" ELSE chain
Keys == {KeyOf(c) : c \in Chains}
ChainsOf(key) == {c \in Chains : KeyOf(c) = key}
VaultEpochs(chain) == DOMAIN VaultStart[chain]
Started(chain) == VaultEpochs(chain) # {}

(***************************************************************************)
(* Heights                                                                 *)
(***************************************************************************)

Period(chain) == IF chain = "Arbitrum" THEN va_plan.period ELSE 1
block_witness_root(chain, block) == (block \div Period(chain)) * Period(chain)
is_block_witness_root(chain, block) == block_witness_root(chain, block) = block
saturating_block_witness_next(chain, block) == block_witness_root(chain, block) + Period(chain)

\* A late report would take the height back.
update_chain_state_stale(chain, block) ==                          \* faulty variant
  /\ is_block_witness_root(chain, block)
  /\ chain_height' = [chain_height EXCEPT ![chain] = block]
update_chain_state(chain, block) ==
  /\ is_block_witness_root(chain, block)
  /\ block > chain_height[chain]
  /\ chain_height' = [chain_height EXCEPT ![chain] = block]

(***************************************************************************)
(* Nonces and transactions                                                 *)
(***************************************************************************)

\* The EVM chains count before use, Polkadot after it.  The transaction that
\* hands the Polkadot vault over is the last one of the old proxy.
next_polkadot_proxy_account_nonce(reset_nonce) ==
  [used |-> nonces["Polkadot"],
   next |-> IF reset_nonce THEN 0 ELSE nonces["Polkadot"] + 1]
next_evm_nonce(chain) == [used |-> nonces[chain] + 1, next |-> nonces[chain] + 1]

replay_protection(chain, rotates) ==
  IF chain = "Polkadot" THEN next_polkadot_proxy_account_nonce(rotates)
  ELSE next_evm_nonce(chain)

Transaction(chain, rotates) ==
  [signer |-> vault_keys[KeyOf(chain)], nonce |-> replay_protection(chain, rotates).used,
   rotates |-> rotates]

\* Only chains with nonces are followed here.
HasNonces(chain) == chain # "Bitcoin"

\* Any other transaction of a chain (a batch, a governance key, ...).
SendTransaction(chain) ==
  /\ HasNonces(chain) /\ Started(chain) /\ (chain = "Polkadot" => dot_vault_account)
  /\ Len(sent[chain]) < va_plan.max_sent
  /\ sent' = [sent EXCEPT ![chain] = Append(@, Transaction(chain, FALSE))]
  /\ nonces' = [nonces EXCEPT ![chain] = replay_protection(chain, FALSE).next]

(***************************************************************************)
(* The activation of a chain's vault                                       *)
(***************************************************************************)

\* The new vault starts after the block of the activation.
activate_new_key_for_chain(chain, block) ==
  [e \in VaultEpochs(chain) \cup {va_epoch + 1} |->
     IF e = va_epoch + 1 THEN saturating_block_witness_next(chain, block)
     ELSE VaultStart[chain][e]]

\* SetAggKeyWithAggKey::new_unsigned of the chain.
ActivationCall(chain) ==
  CASE chain = "Bitcoin" -> "NotRequired"
    [] chain = "Polkadot" /\ ~dot_vault_account -> "Failed"
    [] OTHER -> "Normal"

start_key_activation(chain) ==
  CASE Started(chain) -> ActivationCall(chain)
    [] ~Started(chain) /\ Initialized[chain] -> "FirstVault"
    [] OTHER -> "ChainNotInitialized"

ActivationStatus(chain) ==
  CASE start_key_activation(chain) \in {"Normal", "FirstVault"} -> "AwaitingActivation"
    [] start_key_activation(chain) \in {"NotRequired", "ChainNotInitialized"} -> "Complete"
    [] OTHER -> PendingVault[chain]

Results(key) == {start_key_activation(c) : c \in ChainsOf(key)}
NormalChains == {c \in Chains : start_key_activation(c) = "Normal"}

\* After the call the key of the next epoch signs, the activation itself is
\* signed with the old one.
TransactionOfOldKey(chain) == Transaction(chain, TRUE)

activate_keys ==
  /\ rotation_phase = "KeyHandoverComplete"
  /\ rotation_phase' = "ActivatingKeys"
  /\ PendingVault' = [c \in Chains |-> ActivationStatus(c)]
  /\ VaultStart' = [c \in Chains |->
       IF start_key_activation(c) = "NotRequired"
       THEN activate_new_key_for_chain(c, chain_height[c]) ELSE VaultStart[c]]
  /\ sent' = [c \in Chains |->
       IF c \in NormalChains THEN Append(sent[c], TransactionOfOldKey(c)) ELSE sent[c]]
  /\ nonces' = [c \in Chains |->
       IF c \in NormalChains THEN replay_protection(c, TRUE).next ELSE nonces[c]]
  /\ vault_keys' = [k \in Keys |->
       IF Results(k) = {"ChainNotInitialized"} THEN vault_keys[k] ELSE va_epoch + 1]
  /\ key_status' = [k \in Keys |->
       IF Results(k) \cap {"Normal", "FirstVault"} = {} THEN "Complete"
       ELSE "AwaitingActivationSignatures"]
  /\ requests' = NormalChains
  /\ signed_requests' = {}

\* The old key has signed the activation of a chain.
SignActivation(chain) ==
  /\ chain \in requests \ signed_requests
  /\ signed_requests' = signed_requests \cup {chain}

\* Each activator of the key is asked; a vault without any start is left alone.
activate_key(chain) ==
  IF Started(chain) THEN activate_new_key_for_chain(chain, chain_height[chain])
  ELSE VaultStart[chain]

VaultStatus(pending) ==
  CASE pending = "AwaitingActivation" -> "Pending"
    [] pending = "Complete" -> "Ready"
    [] OTHER -> "Void"

\* The status of all the activations of a key together.
evm_status(pending, key) ==
  CASE \E c \in ChainsOf(key) : VaultStatus(pending[c]) = "Void" -> "Void"
    [] \A c \in ChainsOf(key) : VaultStatus(pending[c]) = "Ready" -> "Ready"
    [] OTHER -> "Pending"

\* The keys whose requests are all answered activate their vaults, and again in
\* each block in which they still wait for another chain of the key.
Unanswered == requests \ signed_requests
Activating(key) ==
  key_status[key] = "AwaitingActivationSignatures" /\ Unanswered \cap ChainsOf(key) = {}

rotation_status ==
  /\ rotation_phase = "ActivatingKeys"
  /\ requests' = Unanswered
  /\ PendingVault' = [c \in Chains |->
       IF Activating(KeyOf(c)) /\ Started(c) THEN "Complete" ELSE PendingVault[c]]
  /\ VaultStart' = [c \in Chains |->
       IF Activating(KeyOf(c)) THEN activate_key(c) ELSE VaultStart[c]]
  /\ key_status' = [k \in Keys |->
       IF evm_status(PendingVault', k) = "Ready" THEN "Complete" ELSE key_status[k]]
  /\ rotation_phase' =
       IF \A k \in Keys : key_status'[k] = "Complete" THEN "KeysActivated" ELSE rotation_phase
  /\ UNCHANGED <<signed_requests, vault_keys>>

\* The rest of a rotation: the keys are made and handed over, the epoch starts.
HandOverKeys ==
  /\ rotation_phase = "Idle" /\ va_epoch < va_plan.max_epoch
  /\ rotation_phase' = "KeyHandoverComplete"
  /\ UNCHANGED <<va_epoch, key_status, requests, signed_requests, vault_keys>>
StartVaultEpoch ==
  /\ rotation_phase = "KeysActivated"
  /\ rotation_phase' = "Idle" /\ va_epoch' = va_epoch + 1
  /\ UNCHANGED <<key_status, requests, signed_requests, vault_keys>>

(***************************************************************************)
(* Calls of governance and of witnesses                                    *)
(***************************************************************************)

first_key_activated(chain, block) ==
  /\ PendingVault[chain] = "AwaitingActivation"
  /\ PendingVault' = [PendingVault EXCEPT ![chain] = "Complete"]
  /\ VaultStart' = [VaultStart EXCEPT ![chain] = activate_new_key_for_chain(chain, block)]

\* Governance completes the first vault of a chain once it is there.
witness_polkadot_vault_creation(block_number) ==
  /\ first_key_activated("Polkadot", block_number)
  /\ dot_vault_account' = TRUE
witness_current_bitcoin_block_number_for_key(block_number) ==
  /\ first_key_activated("Bitcoin", block_number)
  /\ UNCHANGED dot_vault_account
witness_initialize_arbitrum_vault(block_number) ==
  /\ first_key_activated("Arbitrum", block_number)
  /\ UNCHANGED dot_vault_account

\* What governance reports is trusted (the calls check nothing but the status): that a vault of
\* the chain, which has none so far, was there in a block that is tracked.
ReportedBlocks(chain) ==
  {block \in 0 .. va_plan.max_height :
     chain \in Chains /\ ~Started(chain) /\ block <= chain_height[chain]}

InitializeChain(chain) ==
  /\ ~Initialized[chain]
  /\ Initialized' = [Initialized EXCEPT ![chain] = TRUE]

\* The key of an EVM vault was changed from outside, in a block of the vault.
VaultKeyRotatedExternally(chain, block) ==
  /\ KeyOf(chain) = "Evm" /\ va_epoch \in VaultEpochs(chain)
  /\ block \in VaultStart[chain][va_epoch] .. chain_height[chain]
  /\ PendingVault' = [PendingVault EXCEPT ![chain] = "Complete"]
  /\ VaultStart' = [VaultStart EXCEPT ![chain] = activate_new_key_for_chain(chain, block)]

(***************************************************************************)
(* The specification                                                       *)
(***************************************************************************)

Genesis(chain) ==
  IF chain \in va_plan.started
  THEN [e \in {1} |-> block_witness_root(chain, 0)] ELSE [e \in {} |-> 0]

VaultInit ==
  /\ va_plan \in VaultPlans
  /\ va_epoch = 1 /\ rotation_phase = "Idle"
  /\ key_status = [k \in Keys |-> "Complete"]
  /\ requests = {} /\ signed_requests = {}
  /\ vault_keys = [k \in Keys |-> IF ChainsOf(k) \cap va_plan.started = {} THEN 0 ELSE 1]
  /\ PendingVault = [c \in Chains |-> "None"]
  /\ VaultStart = [c \in Chains |-> Genesis(c)]
  /\ Initialized = [c \in Chains |-> c \in va_plan.initialized]
  /\ chain_height = [c \in Chains |-> block_witness_root(c, 0)]
  /\ dot_vault_account = ("Polkadot" \in va_plan.started)
  /\ nonces = [c \in Chains |-> 0]
  /\ sent = [c \in Chains |-> <<>>]

RotationStep ==
  /\ \/ /\ HandOverKeys
        /\ UNCHANGED <<PendingVault, VaultStart, sent, nonces>>
     \/ activate_keys /\ UNCHANGED va_epoch
     \/ /\ \E c \in Chains : SignActivation(c)
        /\ UNCHANGED <<va_epoch, rotation_phase, key_status, requests, vault_keys,
                       PendingVault, VaultStart, sent, nonces>>
     \/ rotation_status /\ UNCHANGED <<va_epoch, sent, nonces>>
     \/ /\ StartVaultEpoch
        /\ UNCHANGED <<PendingVault, VaultStart, sent, nonces>>
  /\ UNCHANGED <<va_plan, Initialized, chain_height, dot_vault_account>>

FirstVaultStep ==
  /\ \/ \E b \in ReportedBlocks("Polkadot") : witness_polkadot_vault_creation(b)
     \/ \E b \in ReportedBlocks("Bitcoin") : witness_current_bitcoin_block_number_for_key(b)
     \/ \E b \in ReportedBlocks("Arbitrum") : witness_initialize_arbitrum_vault(b)
  /\ UNCHANGED <<va_plan, va_epoch, keyRotationVars, Initialized, chain_height, nonces, sent>>

ChainStep(chain) ==
  /\ \/ /\ InitializeChain(chain)
        /\ UNCHANGED <<PendingVault, VaultStart, chain_height, nonces, sent>>
     \/ /\ \E block \in 1 .. va_plan.max_height : update_chain_state(chain, block)
        /\ UNCHANGED <<PendingVault, VaultStart, Initialized, nonces, sent>>
     \/ /\ \E block \in 0 .. va_plan.max_height : VaultKeyRotatedExternally(chain, block)
        /\ UNCHANGED <<Initialized, chain_height, nonces, sent>>
     \/ /\ SendTransaction(chain)
        /\ UNCHANGED <<PendingVault, VaultStart, Initialized, chain_height>>
  /\ UNCHANGED <<va_plan, va_epoch, keyRotationVars, dot_vault_account>>

VaultNext ==
  \/ RotationStep
  \/ FirstVaultStep
  \/ \E c \in Chains : ChainStep(c)

(***************************************************************************)
(* Properties                                                              *)
(***************************************************************************)

\* The state has its types; heights and the starts of vaults are witness roots.
VaultsTypeOK ==
  /\ va_epoch \in 1 .. va_plan.max_epoch
  /\ rotation_phase \in {"Idle", "KeyHandoverComplete", "ActivatingKeys", "KeysActivated"}
  /\ \A c \in Chains :
       /\ PendingVault[c] \in {"None", "AwaitingActivation", "Complete"}
       /\ VaultEpochs(c) \subseteq 1 .. va_epoch + 1
       /\ is_block_witness_root(c, chain_height[c])
       /\ \A e \in VaultEpochs(c) : is_block_witness_root(c, VaultStart[c][e])
  /\ signed_requests \subseteq Chains /\ requests \subseteq Chains

\* Every vault that is in use knows the block from which its nodes of the
\* current epoch witness: an epoch does not start before all chains that share
\* a key are activated, the first vault of a chain included
\* (EvmVaultActivator::status).
VaultsHaveTheirStart ==
  \A c \in Chains :
    Started(c) => \/ va_epoch \in VaultEpochs(c)
                  \/ /\ rotation_phase \in {"ActivatingKeys", "KeysActivated"}
                     /\ VaultEpochs(c) = {va_epoch + 1}

\* The vaults of later epochs do not start earlier: activate_new_key_for_chain
\* takes the heights that chain tracking never moves back.
VaultsStartInOrder ==
  \A c \in Chains : \A d, e \in VaultEpochs(c) :
    d < e => VaultStart[c][d] <= VaultStart[c][e]

\* The start of a vault does not change any more once its epoch has begun,
\* whatever rotates, initializes or reports a key (cf-vaults).
StartedVaultsAreKept ==
  [][\A c \in Chains : \A e \in VaultEpochs(c) :
       e <= va_epoch => e \in DOMAIN VaultStart'[c] /\ VaultStart'[c][e] = VaultStart[c][e]]_vaultVars

\* The transactions of a chain change their key right after a transaction that
\* hands the vault over, which the old key still signs (activate_keys sets the
\* key of the next epoch after the activation calls are made).
OldKeyHandsOver ==
  \A c \in Chains : \A i \in 1 .. Len(sent[c]) - 1 :
    (sent[c][i].signer # sent[c][i + 1].signer) <=> sent[c][i].rotates

\* The nonces of each proxy account of Polkadot are used from 0 on and without
\* a gap, those of the EVM chains from 1 on over all keys: a transaction with
\* another nonce would never be included.
NoncesFollow ==
  \A c \in Chains : \A i \in 1 .. Len(sent[c]) :
    sent[c][i].nonce =
      IF c = "Polkadot"
      THEN Cardinality({j \in 1 .. i - 1 : sent[c][j].signer = sent[c][i].signer})
      ELSE i

\* A new vault is reached only through a transaction of the old key, begins after it, and
\* keeps the block it began with, on every chain, as long as governance reports first vaults
\* only and no block that is ahead of chain tracking (ReportedBlocks).
VaultsAreHandedOver ==
  /\ [](VaultsTypeOK /\ VaultsHaveTheirStart /\ VaultsStartInOrder /\ OldKeyHandsOver /\ NoncesFollow)
  /\ StartedVaultsAreKept
=============================================================================
