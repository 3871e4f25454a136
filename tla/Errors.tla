------------------------------- MODULE Errors -------------------------------
(* The errors of the program and of its libraries as toKinaraError            *)
(* (src/errors.ts) maps them, and what an HTTP and a gRPC caller are told.    *)
EXTENDS Naturals

\* toKinaraError: the code and the status an error is given.
Mapped ==
    [limited   |-> [code |-> "RATE_LIMITED",     status |-> 429],  \* RateLimitError
     badBody   |-> [code |-> "REQUEST_FAILED",   status |-> 400],  \* has statusCode, no code
     badCookie |-> [code |-> "INTERNAL_ERROR",   status |-> 500],  \* URIError, a plain Error
     missing   |-> [code |-> "NOT_FOUND",        status |-> 404],  \* NotFoundError
     conflict  |-> [code |-> "CONFLICT",         status |-> 409],  \* ConflictError
     unknown   |-> [code |-> "UNAUTHORIZED",     status |-> 401],  \* UnauthorizedError
     forbidden |-> [code |-> "FORBIDDEN",        status |-> 403],  \* ForbiddenError
     duplicate |-> [code |-> "VALIDATION_ERROR", status |-> 422],  \* Mongo's 11000
     legacy    |-> [code |-> "INTERNAL_ERROR",   status |-> 503],  \* {success: false, code: 503}
     plain     |-> [code |-> "INTERNAL_ERROR",   status |-> 500],  \* new Error(), a thrown string
     client    |-> [code |-> "NOT_FOUND",        status |-> 500]]  \* has that string code, no status

\* statusFromHttp: the gRPC status of an HTTP one.
StatusFromHttp(status) ==
    CASE status = 400 -> "INVALID_ARGUMENT"
      [] status = 401 -> "UNAUTHENTICATED"
      [] status = 403 -> "PERMISSION_DENIED"
      [] status = 404 -> "NOT_FOUND"
      [] status = 429 -> "RESOURCE_EXHAUSTED"
      [] status < 500 /\ status \notin {400, 401, 403, 404, 429} -> "FAILED_PRECONDITION"
      [] status >= 500 -> "INTERNAL"
=============================================================================
