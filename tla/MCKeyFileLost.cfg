\* The server and a key-mgmt invocation write the same file.
SPECIFICATION Spec
CONSTANTS
    c1 = c1
    c2 = c2
    t1 = t1
    Clients = {c1, c2}
    Server = Server
    Tools = {t1}
    MayBeMissing = FALSE
    MaxFiles = 3
PROPERTIES
    RegistrySpec
