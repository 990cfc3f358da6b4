------------------------- MODULE ProofOfPossession -------------------------
(***************************************************************************)
(* The proof of possession of `eotsd pop`: the EOTS key signs the hash of  *)
(* the Babylon address, the Babylon key signs the EOTS public key in an    *)
(* ADR-036 document, and `pop validate` verifies both signatures.          *)
(*                                                                         *)
(* A private key is named by its public key.  Hashes, addresses, encodings *)
(* and signatures are free constructors: equal only when made from equal   *)
(* parts.                                                                  *)
(***************************************************************************)

Hex(bytes) == [enc |-> "hex", bytes |-> bytes]
Base64(bytes) == [enc |-> "base64", bytes |-> bytes]

\* Decoding fails on text of the other encoding.
Decodes(text, enc) == text.enc = enc

Sum(text) == [sha256 |-> text]

Address(babyPk) == [address |-> babyPk]

Sign(key, msg) == [by |-> key, msg |-> msg]

Verifies(sig, pk, msg) == sig = Sign(pk, msg)

\* NewCosmosSignDoc in canonical JSON: all of its fields but these two are
\* constant.
NewCosmosSignDoc(signer, data) == [signer |-> signer, data |-> data]

\* SignCosmosAdr36 with the key found in the Babylon keyring.
SignCosmosAdr36(key, address, bytes) == Sign(key, NewCosmosSignDoc(address, Base64(bytes)))

\* PoPExport, as exportPop fills it in: eotsSig was made over the hash of the
\* address, babySig over the document that carries the EOTS public key.
PoPExport(eotsPk, babyPk, address, eotsSig, babySig) ==
  [EotsPublicKey |-> Hex(eotsPk), BabyPublicKey |-> Base64(babyPk), BabyAddress |-> address,
   EotsSignBaby |-> Base64(eotsSig), BabySignEotsPk |-> Base64(babySig)]

\* PoPExportDelete, as deletePop fills it in.
PoPExportDelete(eotsPk, babyPk, address, babySig) ==
  [EotsPublicKey |-> Hex(eotsPk), BabyPublicKey |-> Base64(babyPk), BabyAddress |-> address,
   BabySignature |-> Base64(babySig)]

ValidEotsSignBaby(eotsPk, babyAddr, eotsSigOverBabyAddr) ==
  /\ Decodes(eotsPk, "hex")
  /\ Decodes(eotsSigOverBabyAddr, "base64")
  /\ Verifies(eotsSigOverBabyAddr.bytes, eotsPk.bytes, Sum(babyAddr))

ValidBabySignEots(babyPk, babyAddr, eotsPkHex, babySigOverEotsPk) ==
  /\ Decodes(babyPk, "base64")
  /\ Decodes(eotsPkHex, "hex")
  /\ Decodes(babySigOverEotsPk, "base64")
  /\ Verifies(babySigOverEotsPk.bytes, babyPk.bytes,
              NewCosmosSignDoc(babyAddr, Base64(Hex(eotsPkHex.bytes))))

ValidPopExport(pop) ==
  /\ ValidEotsSignBaby(pop.EotsPublicKey, pop.BabyAddress, pop.EotsSignBaby)
  /\ ValidBabySignEots(pop.BabyPublicKey, pop.BabyAddress, pop.EotsPublicKey, pop.BabySignEotsPk)

\* `eotsd pop validate` of a file that holds the proof.
validatePop(pop) == ValidPopExport(pop)
=============================================================================
