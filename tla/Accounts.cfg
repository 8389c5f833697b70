CONSTANTS
    Emails = {"ann", "bob", "cyd"}
    Organizations = {"plant"}
    Role = {"admin", "viewer"}
    FirstEmails = {"ann", "bob"}
    MaxRequests = 4
SPECIFICATION Spec
INVARIANTS OneAccountPerEmail AnsweredIsStored OrganizationsAreRun LetInByAdministrators
PROPERTIES ImplementsRoles
CHECK_DEADLOCK FALSE
