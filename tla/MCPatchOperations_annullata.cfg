CONSTANTS
    NOp = 2
    Host = {1}
    Richieste = {"bootstrap", "upgrade", "install", "uninstall", "probe"}
SPECIFICATION Spec
PROPERTIES
    AnnullataNonParte
