------------------------------ MODULE RpcAuth ------------------------------
(***************************************************************************)
(* Authentication of the gRPC calls to eotsd: the interceptor of the       *)
(* client, the interceptor of the server and the keys they are built with. *)
(* A request is authenticated by an HMAC over its encoding.                *)
(***************************************************************************)
CONSTANTS
  Secrets,     \* HMAC keys given in plain
  References,  \* references to a secret manager of a cloud
  None

\* Values of the option hmackey; None stands for the empty string.
HmacConfigs == Secrets \cup References \cup {None}

\* HMAC-SHA256, taken as injective in key and data.
Mac(key, data) == [key |-> key, data |-> data]

\* ProcessHMACKey with GetSecretValue: none of the three secret managers is
\* implemented, so that a reference is an error and the result is empty.
ProcessHMACKey(conf) == IF conf \in References THEN None ELSE conf

\* Methods the interceptors let pass: exact names on either side.
ClientExempt == {"Ping", "SaveEOTSKeyName"}

\* Mutant: only the health check is exempt.
ServerExempt_pingOnly == {"Ping"}

ServerExempt == {"Ping", "SaveEOTSKeyName"}

\* NewEOTSManagerGRPCClient: an error of ProcessHMACKey is a warning, and the
\* client goes on without a key.
ClientKey(conf) == ProcessHMACKey(conf)

\* The values of the header X-FPD-HMAC a client sends with a request.
HMACUnaryClientInterceptor(method, conf, data) ==
  IF method \in ClientExempt \/ ClientKey(conf) = None THEN {} ELSE {Mac(ClientKey(conf), data)}

\* Mutant: a request without the header is let through.
HMACUnaryServerInterceptor_optional(method, key, data, values) ==
  method \in ServerExempt \/ key = None \/ values = {} \/ Mac(key, data) \in values

\* The server passes a request on to its handler.  Its key is the option as
\* it stands in eotsd.conf.
HMACUnaryServerInterceptor(method, key, data, values) ==
  \/ method \in ServerExempt
  \/ key = None
  \/ Mac(key, data) \in values

\* A call of a client configured with conf reaches the handler of a server
\* configured with key.
Admitted(method, conf, key, data) ==
  HMACUnaryServerInterceptor(method, key, data, HMACUnaryClientInterceptor(method, conf, data))
=============================================================================
