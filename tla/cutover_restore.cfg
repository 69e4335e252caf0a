SPECIFICATION Spec
CONSTANTS
    sha1 = sha1
    sha2 = sha2
    Sha <- TwoShas
    NoSha = NoSha
    MaxOwner = 2
    Env <- Staging
    IncidentSha = sha1
    Migrations = 2
    MaxReceipt = 2
PROPERTY ExactRestore
CHECK_DEADLOCK FALSE
