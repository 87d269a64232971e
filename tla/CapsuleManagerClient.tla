------------------------- MODULE CapsuleManagerClient -------------------------
(***************************************************************************)
(* What CapsuleManagerClient and the Capsule Manager say to each other.    *)
(*                                                                         *)
(* A request travels in an envelope: signed with the private key of the    *)
(* proxy's certificate and encrypted, under a fresh key that is itself     *)
(* encrypted for the certificate the client got from GetRaCert.  Outside   *)
(* of the simulation the request carries an attestation report that binds  *)
(* it to the TEE.  Answers are encrypted for the proxy's certificate.      *)
(*                                                                         *)
(* A private key is named by its certificate.  Encryption is a record that *)
(* only the named key opens; SHA-256 is injective.                         *)
(***************************************************************************)
CONSTANTS Plat,   \* platform of the proxy and of its Capsule Manager
          Cert,   \* the proxy's certificate
          Nothing \* no message, no report

OK == "OK"

-----------------------------------------------------------------------------
(* Envelopes.                                                              *)

Encrypt(cert, plain) == [for |-> cert, plain |-> plain]
Decrypts(private_key, jwe) == jwe.for = private_key

GenEncryptedRequest(request, private_key, cert, peer_cert) ==
  Encrypt(peer_cert, [x5c |-> cert, signer |-> private_key, payload |-> request])

(* An answer that is not OK carries no message; the message of another one *)
(* must open with the proxy's key.                                         *)
ParseEncryptedResponse(enc_res, private_key) ==
  enc_res.status = OK /\ Decrypts(private_key, enc_res.message)

-----------------------------------------------------------------------------
(* Requests.                                                               *)

Sha256(data) == <<"sha256", data>>

GenRaReport(user_data) == [hex_user_data |-> Sha256(user_data)]

Attested(user_data) == IF Plat = "sim" THEN Nothing ELSE GenRaReport(user_data)

(* Who asks for which resource; scope, operation, columns and attributes   *)
(* travel with them.                                                       *)
GenResourceRequest(uri) == [initiator_party_id |-> Sha256(Cert), resource |-> uri]

(* Fault: the report is made after the resource request has been moved.    *)
ResourceMessageMoved(uri) ==
  [cert |-> Cert, resource_request |-> GenResourceRequest(uri),
   attestation_report |-> Attested(<<Cert, Nothing>>)]

(* GetDataKeysRequest and GetTlsAssetRequest.                              *)
ResourceMessage(uri) ==
  [cert |-> Cert, resource_request |-> GenResourceRequest(uri),
   attestation_report |-> Attested(<<Cert, GenResourceRequest(uri)>>)]

ResultMessage(uri, data_key) ==
  LET body == [resource_uri |-> uri, data_key |-> data_key]
  IN [body |-> body, attestation_report |-> Attested(<<body>>)]

-----------------------------------------------------------------------------
(* The Capsule Manager (external).  It opens the envelope with the key of  *)
(* its present certificate, checks the signature, and that the report is   *)
(* one for this very request.                                              *)

Bound(m) == IF "body" \in DOMAIN m THEN <<m.body>>
                                   ELSE <<m.cert, m.resource_request>>

Verified(enc_req, private_key) ==
  /\ Decrypts(private_key, enc_req)
  /\ enc_req.plain.signer = enc_req.plain.x5c
  /\ enc_req.plain.payload.attestation_report = Attested(Bound(enc_req.plain.payload))

Answer(body) == [status |-> OK, message |-> Encrypt(Cert, body)]
Refused == [status |-> "REFUSED"]
===============================================================================
