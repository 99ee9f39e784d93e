SPECIFICATION Spec
CONSTANTS
    Emails = {root, ann, bob}
    BootstrapEmail = root
    Clients = {c1, c2}
    Instances = {i1}
    NoUser = NoUser
SYMMETRY Symmetry
INVARIANTS
    TypeOK
PROPERTIES
    ApprovalSticks
    AdminsComeFromAdmins
    LastAdminLostOnlyToStaleAuthority
