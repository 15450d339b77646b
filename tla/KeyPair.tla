------------------------------ MODULE KeyPair ------------------------------
(***************************************************************************)
(* A private key and what publishes it: the Ed25519 pair of `trust keygen` *)
(* (signing.py), or the key and certificate of an authority (pki.py).  A   *)
(* generator looks whether the files are there, makes both in a temporary  *)
(* directory and puts one after the other into its place, without a lock.  *)
(* Signers read the private key and then the public one.  A file is told   *)
(* apart by the generator that wrote it, and so is the key in it.          *)
(***************************************************************************)
EXTENDS Naturals

CONSTANTS Makers,       \* processes that generate pairs and sign
          MaxMakes,     \* bound: calls of each
          MaxMakerDeaths    \* bound: processes that die in a call

ASSUME PairAssumption == MaxMakes \in Nat /\ MaxMakerDeaths \in Nat

VARIABLES sort,         \* "signing" or "authority"
          pair,         \* the file in each of the two places
          maker,        \* the call each process is in
          makes,        \* calls begun
          makerDeaths,
          halfPair      \* history: a death or an overlap may have left half a pair

pairVars == <<sort, pair, maker, makes, makerDeaths, halfPair>>

Halves == {"private", "public"}
NoFile == <<"nobody", 0>>
Made(p) == <<p, makes[p]>>

\* alone: no generator overlaps, and none before left half a pair (history).
NotMaking == [op |-> "none", at |-> "idle", half |-> "private", signer |-> NoFile, alone |-> FALSE]

PairInit ==
    /\ sort \in {"signing", "authority"}
    /\ pair = [h \in Halves |-> NoFile]
    /\ maker = [p \in Makers |-> NotMaking]
    /\ makes = [p \in Makers |-> 0]
    /\ makerDeaths = 0
    /\ halfPair = FALSE

AtRest(p) == maker[p].at \in {"idle", "made", "matched", "mismatched"}
Generates(p) == maker[p].op = "generate" /\ ~AtRest(p)

StartCall(p, op, at) ==
    /\ AtRest(p) /\ makes[p] < MaxMakes
    /\ makes' = [makes EXCEPT ![p] = @ + 1]
    /\ maker' = [q \in Makers |->
          IF q = p
          THEN [NotMaking EXCEPT !.op = op, !.at = at,
                  !.alone = (halfPair => op = "generate")
                            /\ \A o \in Makers \ {p} : ~Generates(o)]
          ELSE IF op = "generate" THEN [maker[q] EXCEPT !.alone = @ /\ AtRest(q)] ELSE maker[q]]

MakerStops(p) == maker' = [maker EXCEPT ![p] = NotMaking]

\* generate_ed25519_keypair, create_ca, issue_certificate: without force
\* neither file may be there.
GenerateBegin(p, force) ==
    /\ force \/ \A h \in Halves : pair[h] = NoFile
    /\ StartCall(p, "generate", "write")
    /\ UNCHANGED <<sort, pair, makerDeaths, halfPair>>

\* Mutant: a public key that is there is not replaced.
WriteHalfOnce(p) ==
    /\ maker[p].at = "write"
    /\ pair' = IF maker[p].half = "public" /\ pair["public"] # NoFile
               THEN pair ELSE [pair EXCEPT ![maker[p].half] = Made(p)]
    /\ halfPair' = (~maker[p].alone \/ (maker[p].half = "private" /\ halfPair))
    /\ maker' = [maker EXCEPT ![p].at = "next"]
    /\ UNCHANGED <<sort, makes, makerDeaths>>

\* The pair is whole again when a generator that is alone has written both.
WriteHalf(p) ==
    /\ maker[p].at = "write"
    /\ pair' = [pair EXCEPT ![maker[p].half] = Made(p)]
    /\ halfPair' = (~maker[p].alone \/ (maker[p].half = "private" /\ halfPair))
    /\ maker' = [maker EXCEPT ![p].at = IF sort = "signing" THEN "confirm" ELSE "next"]
    /\ UNCHANGED <<sort, makes, makerDeaths>>

\* _publish_posix of a signing key looks for its file under the final name, and
\* removes what has that name when it is another one.
ConfirmHalf(p) ==
    /\ maker[p].at = "confirm"
    /\ maker' = [maker EXCEPT ![p].at = IF pair[maker[p].half] = Made(p) THEN "next" ELSE "withdraw"]
    /\ UNCHANGED <<sort, pair, makes, makerDeaths, halfPair>>

WithdrawHalf(p) ==
    /\ maker[p].at = "withdraw"
    /\ pair' = [pair EXCEPT ![maker[p].half] = NoFile]
    /\ halfPair' = TRUE
    /\ MakerStops(p)
    /\ UNCHANGED <<sort, makes, makerDeaths>>

NextHalf(p) ==
    /\ maker[p].at = "next"
    /\ maker' = [maker EXCEPT ![p].half = "public",
                              ![p].at = IF maker[p].half = "private" THEN "write" ELSE "made"]
    /\ UNCHANGED <<sort, pair, makes, makerDeaths, halfPair>>

\* create_dsse_envelope: signed with the private key as it is now, and marked
\* with the id of the public key as it is then.  OpenSSL refuses to issue with
\* an authority's key that is not its certificate's.
SignBegin(p) ==
    /\ StartCall(p, "sign", "sign")
    /\ UNCHANGED <<sort, pair, makerDeaths, halfPair>>

ReadPrivate(p) ==
    /\ maker[p].at = "sign"
    /\ IF pair["private"] = NoFile
       THEN MakerStops(p)
       ELSE maker' = [maker EXCEPT ![p].at = "mark", ![p].signer = pair["private"]]
    /\ UNCHANGED <<sort, pair, makes, makerDeaths, halfPair>>

ReadPublic(p) ==
    /\ maker[p].at = "mark"
    /\ IF pair["public"] = NoFile
       THEN MakerStops(p)
       ELSE maker' = [maker EXCEPT ![p].at = IF pair["public"] = maker[p].signer
                                             THEN "matched" ELSE "mismatched"]
    /\ UNCHANGED <<sort, pair, makes, makerDeaths, halfPair>>

MakerDeath(p) ==
    /\ ~AtRest(p) /\ makerDeaths < MaxMakerDeaths
    /\ makerDeaths' = makerDeaths + 1
    /\ halfPair' = (halfPair \/ Generates(p))
    /\ MakerStops(p)
    /\ UNCHANGED <<sort, pair, makes>>

PairNext ==
    \E p \in Makers :
       \/ \E force \in BOOLEAN : GenerateBegin(p, force)
       \/ WriteHalf(p) \/ ConfirmHalf(p) \/ WithdrawHalf(p) \/ NextHalf(p)
       \/ SignBegin(p) \/ ReadPrivate(p) \/ ReadPublic(p)
       \/ MakerDeath(p)

PairSpec == PairInit /\ [][PairNext]_pairVars

-----------------------------------------------------------------------------
\* A signature carries the id of its own key, and an authority can issue: the
\* two files are of one pair, unless the pair is being made meanwhile or a death
\* or an overlap left halves of two.  A generator that nobody overlapped leaves
\* its own pair, whatever was there before.
PairsMatch ==
    \A p \in Makers :
       /\ maker[p].at = "mismatched" => ~maker[p].alone
       /\ maker[p].at = "made" /\ maker[p].alone /\ (\A q \in Makers \ {p} : ~Generates(q)) /\ ~halfPair
             => pair["private"] = pair["public"]
=============================================================================
