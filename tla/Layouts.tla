------------------------------ MODULE Layouts ------------------------------
(***************************************************************************)
(* How the app reads the program's accounts: the order in which Borsh      *)
(* writes the fields of each account, the interfaces of the app, and the   *)
(* readers its decoders apply one after the other to fill them.  A byte is *)
(* known by the field it belongs to and its place in it, so that a decoder *)
(* that is out of step reads the wrong bytes.  The fields of the program's *)
(* structs carry the names the interfaces give them.                       *)
(***************************************************************************)
EXTENDS Naturals, Sequences, SequencesExt

Field(type, name) == [type |-> type, name |-> name]
U8(name) == Field("u8", name)
U16(name) == Field("u16", name)
U32(name) == Field("u32", name)
U64(name) == Field("u64", name)
I64(name) == Field("i64", name)
Bool(name) == Field("bool", name)
Pubkey(name) == Field("pubkey", name)

-----------------------------------------------------------------------------
(* The accounts: the structs of the program, field by field *)

MerchantConfigStruct ==
    <<U8("bump"), Pubkey("merchant"), Pubkey("mint"), Bool("isActive"),
      I64("minHoldBeforeShareSecs"), U64("minTokensPerReferral"),
      U64("maxTokensPerReferral"), U16("maxReferralsPerWalletPerDay"),
      Bool("allowSecondGenTransfer"), U64("slotsPerDay"), U16("tokenExpiryDays"),
      U16("commissionRateBps"), U16("transferFeeBps"), Bool("firstIssuanceDone"),
      U64("currentSupply"), U64("tokensIssued"), I64("closeInitiatedAt"),
      I64("closeWindowEndsAt")>>

ViralOracleStruct ==
    <<U8("bump"), Pubkey("merchant"), Pubkey("mint"), U64("kFactor"),
      U32("medianReferralsPerUser"), U32("p90ReferralsPerUser"), U32("p10ReferralsPerUser"),
      U32("referralConcentrationIndex"), U32("shareRate"), U32("claimRate"),
      U32("firstRedeemRate"), U32("avgTimeShareToClaimSecs"),
      U32("avgTimeClaimToRedeemSecs"), U32("p50TimeShareToClaimSecs"),
      U64("commissionPerNewCustomerTokens"), U32("vsGoogleAdsEfficiencyBps"),
      I64("computedAt"), U32("dataPoints")>>

MerchantReputationStruct ==
    <<U8("bump"), Pubkey("merchant"), U32("reputationScore"), U32("timeoutDisputes"),
      U16("pctRedeemersAgedOver30Days"), U8("uniqueAttestationServersUsed"),
      U16("commissionConcentrationBps"), U16("pctRedemptionsInBusinessHours"),
      U32("avgPoiScoreTopReferrers"), U32("suspicionScore"), I64("suspicionComputedAt")>>

MerchantBondStruct ==
    <<U8("bump"), Pubkey("merchant"), U64("bondedLamports"), U64("minRequiredLamports"),
      Bool("isLocked"), I64("unlockRequestedAt")>>

CommissionLedgerStruct ==
    <<U8("bump"), Pubkey("referrer"), Pubkey("merchant"), Pubkey("mint"), U64("claimable"),
      U32("dustTenthsAccumulated"), Bool("frozen"), U64("frozenAmount"), U64("totalEarned"),
      U64("totalClaimed"), U64("totalRedemptionsDriven"), U64("highestSingleCommission")>>

\* As far as the app reads; the buffer, the slots and the rest follow.
TokenGenerationStruct ==
    <<U8("bump"), U8("version"), Pubkey("mint"), Pubkey("owner"), U64("gen1Balance"),
      U64("gen2Balance"), U64("deadBalance"), U64("totalLifetime"), Bool("isIntermediary"),
      Pubkey("originalSender")>>

\* resolved_at is an option: a tag, and the time only when there is one.
DisputeRecordStruct(resolved) ==
    <<U8("bump"), Pubkey("merchant"), Pubkey("referral"), Pubkey("watchdog"), U8("status"),
      U64("stakeLamports"), I64("raisedAt"), Bool("hasResolved")>>
    \o (IF resolved THEN <<I64("resolvedAt")>> ELSE <<>>)

DisputeStatusOrder == <<"Pending", "Dismissed", "UpheldByTimeout", "UpheldByVote">>

-----------------------------------------------------------------------------
(* The interfaces, each filled by its decoder in this order *)

MerchantConfig ==
    <<"bump", "merchant", "mint", "isActive", "minHoldBeforeShareSecs",
      "minTokensPerReferral", "maxTokensPerReferral", "maxReferralsPerWalletPerDay",
      "allowSecondGenTransfer", "slotsPerDay", "tokenExpiryDays", "commissionRateBps",
      "transferFeeBps", "firstIssuanceDone", "currentSupply", "tokensIssued",
      "closeInitiatedAt", "closeWindowEndsAt">>

ViralOracle ==
    <<"bump", "merchant", "mint", "kFactor", "medianReferralsPerUser",
      "p90ReferralsPerUser", "p10ReferralsPerUser", "referralConcentrationIndex",
      "shareRate", "claimRate", "firstRedeemRate", "avgTimeShareToClaimSecs",
      "avgTimeClaimToRedeemSecs", "p50TimeShareToClaimSecs",
      "commissionPerNewCustomerTokens", "vsGoogleAdsEfficiencyBps", "computedAt",
      "dataPoints">>

MerchantReputation ==
    <<"bump", "merchant", "reputationScore", "timeoutDisputes",
      "pctRedeemersAgedOver30Days", "uniqueAttestationServersUsed",
      "commissionConcentrationBps", "pctRedemptionsInBusinessHours",
      "avgPoiScoreTopReferrers", "suspicionScore", "suspicionComputedAt">>

MerchantBond ==
    <<"bump", "merchant", "bondedLamports", "minRequiredLamports", "isLocked",
      "unlockRequestedAt">>

CommissionLedger ==
    <<"bump", "referrer", "merchant", "mint", "claimable", "dustTenthsAccumulated",
      "frozen", "frozenAmount", "totalEarned", "totalClaimed",
      "totalRedemptionsDriven", "highestSingleCommission">>

\* The part a decoder fills; the rest gets zeros and empty lists.
TokenGenerationHead ==
    <<"bump", "version", "mint", "owner", "gen1Balance", "gen2Balance", "deadBalance",
      "totalLifetime">>

\* The tag of the option is read into a variable of its own.
DisputeRecord(resolved) ==
    <<"bump", "merchant", "referral", "watchdog", "status", "stakeLamports", "raisedAt",
      "hasResolved">> \o (IF resolved THEN <<"resolvedAt">> ELSE <<>>)

-----------------------------------------------------------------------------
(* The decoders: the readers in the order they are applied *)

ReadWidth ==
    [u8 |-> 1, u16 |-> 2, u32 |-> 4, u64 |-> 8, i64 |-> 8, bool |-> 1, pubkey |-> 32]

decodeMerchantConfig ==
    <<"u8", "pubkey", "pubkey", "bool", "i64", "u64", "u64", "u16", "bool", "u64", "u16",
      "u16", "u16", "bool", "u64", "u64", "i64", "i64">>

decodeViralOracle ==
    <<"u8", "pubkey", "pubkey", "u64", "u32", "u32", "u32", "u32", "u32", "u32", "u32",
      "u32", "u32", "u32", "u64", "u32", "i64", "u32">>

\* Mutant: uniqueAttestationServersUsed read as the u16 its neighbours are.
decodeMerchantReputationWide ==
    <<"u8", "pubkey", "u32", "u32", "u16", "u16", "u16", "u16", "u32", "u32", "i64">>

decodeMerchantReputation ==
    <<"u8", "pubkey", "u32", "u32", "u16", "u8", "u16", "u16", "u32", "u32", "i64">>

decodeMerchantBond == <<"u8", "pubkey", "u64", "u64", "bool", "i64">>

decodeCommissionLedger ==
    <<"u8", "pubkey", "pubkey", "pubkey", "u64", "u32", "bool", "u64", "u64", "u64", "u64",
      "u64">>

decodeTokenGeneration == <<"u8", "u8", "pubkey", "pubkey", "u64", "u64", "u64", "u64">>

\* The network graph reads the same head of the account with code of its own.
decodeNetworkNode == <<"u8", "u8", "pubkey", "pubkey", "u64", "u64", "u64", "u64">>

decodeDisputeRecord(resolved) ==
    <<"u8", "pubkey", "pubkey", "pubkey", "u8", "u64", "i64", "bool">>
    \o (IF resolved THEN <<"i64">> ELSE <<>>)

statusMap(byte) ==
    CASE byte = 0 -> "Pending"
      [] byte = 1 -> "Dismissed"
      [] byte = 2 -> "UpheldByTimeout"
      [] byte = 3 -> "UpheldByVote"
      [] OTHER -> "Pending"

\* Every layout with the interface and the decoder for it, and the hook that
\* reads it; no page mounts the one for a single TokenGeneration.
Layouts ==
    {[hook |-> "config", struct |-> MerchantConfigStruct, fills |-> MerchantConfig,
      readers |-> decodeMerchantConfig],
     [hook |-> "oracle", struct |-> ViralOracleStruct, fills |-> ViralOracle,
      readers |-> decodeViralOracle],
     [hook |-> "reputation", struct |-> MerchantReputationStruct, fills |-> MerchantReputation,
      readers |-> decodeMerchantReputation],
     [hook |-> "bond", struct |-> MerchantBondStruct, fills |-> MerchantBond,
      readers |-> decodeMerchantBond],
     [hook |-> "ledger", struct |-> CommissionLedgerStruct, fills |-> CommissionLedger,
      readers |-> decodeCommissionLedger],
     [hook |-> "generation", struct |-> TokenGenerationStruct, fills |-> TokenGenerationHead,
      readers |-> decodeTokenGeneration],
     [hook |-> "graph", struct |-> TokenGenerationStruct, fills |-> TokenGenerationHead,
      readers |-> decodeNetworkNode]}
    \cup {[hook |-> "disputes", struct |-> DisputeRecordStruct(r), fills |-> DisputeRecord(r),
           readers |-> decodeDisputeRecord(r)] : r \in BOOLEAN}

-----------------------------------------------------------------------------
(* Writing and reading an account *)

DiscriminatorBytes == 8

BorshWidth ==
    [u8 |-> 1, u16 |-> 2, u32 |-> 4, u64 |-> 8, i64 |-> 8, bool |-> 1, pubkey |-> 32]

FieldBytes(field) ==
    [i \in 1..BorshWidth[field.type] |-> [of |-> field.name, type |-> field.type, at |-> i]]

\* External: what Anchor stores, an 8-byte discriminator and the fields.
AccountData(struct) ==
    [i \in 1..DiscriminatorBytes |-> [of |-> "discriminator", type |-> "u8", at |-> i]]
    \o FlattenSeq([i \in DOMAIN struct |-> FieldBytes(struct[i])])

\* fetchAccount and the list hooks cut the discriminator off.
Offset(readers, i) ==
    LET offset[j \in DOMAIN readers] ==
            IF j = 1 THEN DiscriminatorBytes ELSE offset[j - 1] + ReadWidth[readers[j - 1]]
    IN offset[i]

ReadBytes(readers, data, i) ==
    SubSeq(data, Offset(readers, i) + 1, Offset(readers, i) + ReadWidth[readers[i]])

\* The filters of the list hooks: the key at this offset of the raw account.
KeyAt(data, offset) == SubSeq(data, offset + 1, offset + BorshWidth["pubkey"])

DisputeFilterOffset == 9
GraphFilterOffset == 10

-----------------------------------------------------------------------------
(* What a reader gets wrong *)

\* Every field of the interface is read from all the bytes, and only the bytes,
\* of the struct's field of that name, as a value of that type.
ReadRight(l) ==
    /\ Len(l.fills) = Len(l.readers)
    /\ \A i \in DOMAIN l.readers :
        ReadBytes(l.readers, AccountData(l.struct), i)
            = FieldBytes([type |-> l.readers[i], name |-> l.fills[i]])

\* A status byte means what the program's enum means.
StatusesRight == \A i \in DOMAIN DisputeStatusOrder : statusMap(i - 1) = DisputeStatusOrder[i]

\* The filters of getProgramAccounts look where the merchant and the mint are.
FilterRight(struct, offset, name) ==
    KeyAt(AccountData(struct), offset) = FieldBytes([type |-> "pubkey", name |-> name])

\* The hooks whose decoder or filter is out of step with the program.
Misreading ==
    {l.hook : l \in {k \in Layouts : ~ReadRight(k)}}
    \cup {h \in {"disputes"} : ~StatusesRight
            \/ ~FilterRight(DisputeRecordStruct(FALSE), DisputeFilterOffset, "merchant")}
    \cup {h \in {"graph"} : ~FilterRight(TokenGenerationStruct, GraphFilterOffset, "mint")}

=============================================================================
