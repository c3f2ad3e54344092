------------------------------ MODULE Signers ------------------------------
(***************************************************************************)
(* The two signers, tpm/tpm.go and memory/memory.go, and the handles they  *)
(* hand out instead of keeping keys.                                       *)
(*                                                                         *)
(* Each member of Ids is a key pair with everything random that is drawn   *)
(* for it; Wrapped gives the bytes.  The chip and the AEAD are external:   *)
(* the chip loads a private area only with its public area and under the   *)
(* parent of the same seed and relying party; the AEAD opens a sealed key  *)
(* only with its nonce, relying party and master key.                      *)
(***************************************************************************)
EXTENDS CredentialList, Lencode

CONSTANTS Wrapped, None

ASSUME SignersAssumption ==
  /\ Wrapped \in [Ids -> [private : Seq(Byte), public : Seq(Byte),
                          seed : Seq(Byte), nonce : Seq(Byte), sealed : Seq(Byte)]]
  /\ \A i, j \in Ids :    \* they are random
       \/ Wrapped[i].private = Wrapped[j].private
       \/ Wrapped[i].nonce \o Wrapped[i].sealed = Wrapped[j].nonce \o Wrapped[j].sealed
       => i = j
  /\ \A i \in Ids :
       /\ Fits(Wrapped[i].private)    \* a P-256 private area has about 130 bytes
       /\ Fits(Wrapped[i].public)     \* and a public area about 90
       /\ Fits(Wrapped[i].seed)       \* seedSizeBytes is 20
  /\ None \notin Users \cup [rp : RPs, user : Users]

VARIABLES
  backend,   \* the signer main has made: "tpm" or "memory"
  keys,      \* what the pair was registered for: [rp, user], or None
  lost       \* pairs sealed with a master key that is gone

Made == {id \in Ids : keys[id] # None}

\* RegisterKey ignores the errors of Encode.
TPMHandle ==
  [id \in Ids |->
     LET w == Wrapped[id]
     IN  Encode(Encode(Encode(NewEncoder, w.private), w.public), w.seed).out]

MemHandle == [id \in Ids |-> Wrapped[id].nonce \o Wrapped[id].sealed]

Handle(id) == IF backend = "tpm" THEN TPMHandle[id] ELSE MemHandle[id]

\* tpm2.Load under the primary key that the seed and the relying party give.
Loads(private, public, seed, rp) ==
  \E id \in Made :
    /\ private = Wrapped[id].private
    /\ public = Wrapped[id].public
    /\ seed = Wrapped[id].seed
    /\ keys[id].rp = rp

\* Fault: what follows the seed is not looked at.
TPMSignsUnended(h, rp) ==
  LET private == Decode(NewDecoder(h))
      public == Decode(private)
      seed == Decode(public)
  IN  /\ seed.error = "none"
      /\ Loads(private.part, public.part, seed.part, rp)

\* SignASN1 of the TPM: three parts, then the end, then the chip.
TPMSigns(h, rp) ==
  LET private == Decode(NewDecoder(h))
      public == Decode(private)
      seed == Decode(public)
      end == Decode(seed)
  IN  /\ private.error = "none" /\ public.error = "none" /\ seed.error = "none"
      /\ end.error = "EOF"
      /\ Loads(private.part, public.part, seed.part, rp)

\* SignASN1 of the memory backend: the handle is nonce and sealed key.
MemSigns(h, rp) ==
  \E id \in Made \ lost : h = MemHandle[id] /\ keys[id].rp = rp

\* Whether SignASN1 returns a signature, unless the chip fails.
SignASN1(h, rp) == IF backend = "tpm" THEN TPMSigns(h, rp) ELSE MemSigns(h, rp)

\* DeriveCredRandom: the TPM's needs the third part, the other any bytes.
Derives(h) ==
  backend = "tpm" => Decode(Decode(Decode(NewDecoder(h)))).error = "none"

\* memory.New draws a master key at every start; the chip keeps its own seed.
HandlesLost == IF backend = "memory" THEN Made ELSE lost

\* Registered for the relying party, and what it is wrapped with still there.
Usable(id, rp) == id \in Made \ lost /\ keys[id].rp = rp

\* A handle signs if and only if it is, byte for byte, one a RegisterKey of
\* this signer has returned for that relying party: no shortened, lengthened
\* or foreign handle signs (SignASN1 of tpm.go and memory.go), and what is
\* made works (lines 139-142, 205-223 of tpm.go).
SignsExactly(h, rp) ==
  SignASN1(h, rp) <=> \E id \in Ids : h = Handle(id) /\ Usable(id, rp)
=============================================================================
