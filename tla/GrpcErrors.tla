----------------------------- MODULE GrpcErrors -----------------------------
(***************************************************************************)
(* The translation of gRPC failures into Aerospike errors (error.go        *)
(* 149-262), applied to a stream of failures a command receives from the   *)
(* proxy: a Go error from the transport (newGrpcError) or an Aerospike     *)
(* response payload with a status and an in-doubt flag (newGrpcStatusError)*)
(* .  Result codes are symbolic; a status >= 0 is passed through as the    *)
(* server's own code <<"server", status>>.  Messages are left out.         *)
(***************************************************************************)
EXTENDS Integers, TLC

CONSTANTS
    Statuses,   \* AerospikeResponsePayload statuses considered
    NoErr       \* a nil Error

GrpcCodes == {"OK", "Canceled", "Unknown", "InvalidArgument", "DeadlineExceeded",
              "NotFound", "AlreadyExists", "PermissionDenied", "ResourceExhausted",
              "FailedPrecondition", "Aborted", "OutOfRange", "Unimplemented",
              "Internal", "Unavailable", "DataLoss", "Unauthenticated"}

\* The Go errors the transport returns: the three sentinel errors the code
\* compares with, context.DeadlineExceeded wrapped by a caller (%w), an
\* error carrying a gRPC status, any other error, and an Aerospike Error
\* (already translated, or of another code).
GoErrors ==
    {[kind |-> k, code |-> "none"] : k \in {"DeadlineExceeded", "wrappedDeadline",
                                            "ErrClientConnTimeout", "ErrServerStopped",
                                            "plain"}}
    \cup {[kind |-> "status", code |-> c] : c \in GrpcCodes}
    \cup {[kind |-> "aerospike", code |-> c] : c \in {"GRPC_ERROR", "TIMEOUT", "COMMON_ERROR"}}

AE(code, wrapped, inDoubt) == [ResultCode |-> code, wrapped |-> wrapped, InDoubt |-> inDoubt]

\* status.Code, then status.Convert for Unknown: only a status error has a
\* code other than Unknown.
statusCode(e) == IF e.kind = "status" THEN e.code ELSE "Unknown"

\* The codes of the switch that return a fresh error; the sentinels
\* ErrNetTimeout, ErrServerNotAvailable and ErrNetwork are taken with err().
GrpcCodeMap ==
    [c \in {"Canceled", "InvalidArgument", "DeadlineExceeded", "NotFound",
            "PermissionDenied", "ResourceExhausted", "FailedPrecondition",
            "Aborted", "OutOfRange", "Unimplemented", "Internal", "Unavailable",
            "DataLoss", "Unauthenticated"} |->
        CASE c \in {"Canceled", "DeadlineExceeded"}                  -> "TIMEOUT"
          [] c \in {"InvalidArgument", "FailedPrecondition", "OutOfRange"} -> "PARAMETER_ERROR"
          [] c \in {"NotFound", "Unimplemented", "Unavailable"}      -> "SERVER_NOT_AVAILABLE"
          [] c = "PermissionDenied"                                  -> "FAIL_FORBIDDEN"
          [] c = "ResourceExhausted"                                 -> "QUOTA_EXCEEDED"
          [] c \in {"Aborted", "Internal"}                           -> "SERVER_ERROR"
          [] c = "DataLoss"                                          -> "NETWORK_ERROR"
          [] c = "Unauthenticated"                                   -> "NOT_AUTHENTICATED"]

\* The sentinels are compared with == (identity), so a wrapped deadline is
\* none of them and, having no gRPC status, falls through to GRPC_ERROR.
newGrpcError(e) ==
    IF e.kind = "aerospike" /\ e.code = "GRPC_ERROR" THEN AE(e.code, NoErr, FALSE)
    ELSE IF e.kind \in {"DeadlineExceeded", "ErrClientConnTimeout"} THEN AE("TIMEOUT", NoErr, FALSE)
    ELSE IF e.kind = "ErrServerStopped" THEN AE("SERVER_NOT_AVAILABLE", NoErr, FALSE)
    ELSE IF statusCode(e) = "OK" THEN NoErr
    ELSE IF statusCode(e) \in DOMAIN GrpcCodeMap
         THEN AE(GrpcCodeMap[statusCode(e)], NoErr, FALSE)
    ELSE AE("GRPC_ERROR", e, FALSE)

\* The client-side (negative) statuses the switch names.
StatusCodeMap ==
    (-16 :> "BATCH_FAILED") @@ (-15 :> "NO_RESPONSE") @@ (-12 :> "MAX_ERROR_RATE") @@
    (-11 :> "MAX_RETRIES_EXCEEDED") @@ (-10 :> "SERIALIZE_ERROR") @@
    (-9 :> "SERVER_ERROR") @@ (-8 :> "SERVER_NOT_AVAILABLE") @@
    (-7 :> "NO_AVAILABLE_CONNECTIONS_TO_NODE") @@ (-5 :> "QUERY_TERMINATED") @@
    (-4 :> "SCAN_TERMINATED") @@ (-3 :> "INVALID_NODE_ERROR") @@
    (-2 :> "PARSE_ERROR") @@ (-1 :> "COMMON_ERROR")

\* resultCode starts as types.OK and is left so by an unnamed status.
newGrpcStatusError(status, inDoubt) ==
    IF status >= 0 THEN AE(<<"server", status>>, NoErr, inDoubt)
    ELSE IF status \in DOMAIN StatusCodeMap THEN AE(StatusCodeMap[status], NoErr, inDoubt)
    ELSE AE("OK", NoErr, inDoubt)

VARIABLES input, result

vars == <<input, result>>

Init == input = [kind |-> "none"] /\ result = NoErr

TransportFailure(e) ==
    /\ input' = e
    /\ result' = newGrpcError(e)

StatusResponse(s, d) ==
    /\ input' = [kind |-> "payload", status |-> s, inDoubt |-> d]
    /\ result' = newGrpcStatusError(s, d)

Next ==
    \/ \E e \in GoErrors : TransportFailure(e)
    \/ \E s \in Statuses, d \in BOOLEAN : StatusResponse(s, d)

Spec == Init /\ [][Next]_vars

-----------------------------------------------------------------------------
\* Matches(TIMEOUT) on the result: its code or its wrapped Aerospike error's.
MatchesTimeout(r) ==
    r # NoErr /\ (r.ResultCode = "TIMEOUT" \/
                  (r.wrapped # NoErr /\ r.wrapped.kind = "aerospike" /\ r.wrapped.code = "TIMEOUT"))

\* An expired deadline, in each form it can reach newGrpcError.
IsDeadlineExpiry(e) ==
    \/ e.kind \in {"DeadlineExceeded", "wrappedDeadline", "ErrClientConnTimeout"}
    \/ e.kind = "status" /\ e.code = "DeadlineExceeded"
    \/ e.kind = "aerospike" /\ e.code = "TIMEOUT"

(***************************************************************************)
(* An expired deadline is reported as a timeout (Matches(TIMEOUT)) however *)
(* it reaches newGrpcError: as the context sentinel, wrapped by a caller,  *)
(* as a gRPC status or as an Aerospike TIMEOUT (spec: on expiry the        *)
(* operation is classified as a timeout error).                            *)
(***************************************************************************)
TimeoutClassification ==
    input.kind \notin {"none", "payload"} /\ IsDeadlineExpiry(input) =>
        MatchesTimeout(result)

(***************************************************************************)
(* A client-side failure status (negative) never becomes an error whose    *)
(* result code is OK, the code of success.                                 *)
(***************************************************************************)
NegativeStatusNotOK ==
    input.kind = "payload" /\ input.status < 0 =>
        result.ResultCode # "OK"

=============================================================================
