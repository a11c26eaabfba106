CONSTANTS
    Configurations <- MCConfigurations
    EditNames <- MCEditNames
    EditFaults <- MCEditFaults
    EditDocs <- MCEditDocs
    MaxEdits = 2

SPECIFICATION Spec

INVARIANTS
    SweptConfigIsSitting
    SweptDossierIsOneModel
    
